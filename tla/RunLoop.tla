------------------------------ MODULE RunLoop ------------------------------
(***************************************************************************)
(* The run loop of src/run_loop.c: a thread that wakes when the next of its *)
(* tickers is due and runs those that are, the client threads that register *)
(* and unregister tickers, and the client that makes and deletes the loop.  *)
(*                                                                          *)
(* Time is counted from the last moment the thread read the clock (its      *)
(* local t), so that no absolute time is in the state.  loops_mt, which     *)
(* protects the list of entries, is held by the thread across the calls of  *)
(* the tickers and so has an owner here; the other sections under loops_mt  *)
(* and those under mt do not block inside and are one action each, but for  *)
(* cc_run_loop_new, which creates the thread while it holds mt.             *)
(***************************************************************************)
EXTENDS Integers, Sequences, FiniteSets

CONSTANTS
  Clients,      \* threads that use the run loop
  Entries,      \* rl_entry_t objects, each registered at most once
  Intervals,    \* the intervals that the frequencies of tickers give
  AccMod,       \* range of acc and of the local interval, 2^64 for a uint64_t
  MaxWait,      \* MAX_RLOOP_WAIT
  MaxElapsed,   \* bound: how long the thread can be away from the clock
  Nobody        \* no owner of a mutex, no entry

ASSUME RunLoopAssumption ==
  /\ AccMod \in Nat \ {0}
  /\ MaxWait \in 1 .. AccMod - 1
  /\ MaxElapsed \in Nat
  /\ MaxWait <= MaxElapsed
  /\ Intervals \subseteq 1 .. AccMod - 1
  /\ Nobody \notin Clients \cup Entries

VARIABLES
  rl,           \* the cc_run_loop_t: "none", "made" (by cc_run_loop_new), "live", "freed"
  mt,           \* the client that holds mt while it creates the thread
  stop,         \* rl->stop
  is_running,   \* rl->is_running
  loops_mt,     \* TRUE while the thread holds loops_mt
  programs,     \* the entries in the list, first to last
  entry,        \* what has become of each entry
  acc,          \* entry->acc
  interval,     \* entry->interval
  place,        \* where the thread is in loop_thread
  prog,         \* its local prog: an entry, or Nobody for the head of the list
  delta,        \* its local delta
  wait,         \* its local interval
  elapsed,      \* time since it last read the clock
  since,        \* per entry, the clock readings' time since its last run
  pc,           \* where each client is
  handle        \* the entry that a client registers or unregisters

time == <<elapsed, since>>
thread == <<place, prog, delta, wait>>
list == <<programs, entry, acc, interval>>
object == <<rl, mt, stop, is_running>>
client == <<pc, handle>>
vars == <<time, thread, list, object, loops_mt, client>>

Lesser(a, b) == IF a < b THEN a ELSE b

Goto(c, l) == pc' = [pc EXCEPT ![c] = l]

Linked == {programs[i] : i \in DOMAIN programs}

FirstEntry == IF programs = <<>> THEN Nobody ELSE Head(programs)

PlaceOf(e) == CHOOSE i \in DOMAIN programs : programs[i] = e

EntryAfter(e) == IF PlaceOf(e) < Len(programs) THEN programs[PlaceOf(e) + 1] ELSE Nobody

Without(e) == [i \in 1 .. Len(programs) - 1 |-> programs[IF i < PlaceOf(e) THEN i ELSE i + 1]]

\* Fault: the list is changed without loops_mt.
ListFreeAlways == TRUE

ListFree == ~loops_mt

\* Clients use a loop that is live and that nobody deletes, and delete it when
\* no other client is inside a call.
MayUse == rl = "live" /\ \A c \in Clients : pc[c] \notin {"delete", "join"}

MayDelete == rl = "live" /\ \A c \in Clients : pc[c] = "idle"

-----------------------------------------------------------------------------
(* cc_run_loop_new *)

\* Fault: the thread is created with mt free.
CreationOwnerNone(c) == Nobody

CreationOwner(c) == c

\* Fills the object in, takes mt and creates the thread.
NewCreate(c) ==
  /\ pc[c] = "idle"
  /\ rl \in {"none", "freed"}
  /\ \A d \in Clients : pc[d] = "idle"
  /\ rl' = "made"
  /\ stop' = TRUE
  /\ is_running' = FALSE
  /\ programs' = <<>>
  /\ mt' = CreationOwner(c)
  /\ place' = "begin"
  /\ Goto(c, "new")
  /\ UNCHANGED <<time, prog, delta, wait, entry, acc, interval, loops_mt, handle>>

NewRelease(c) ==
  /\ pc[c] = "new"
  /\ rl' = "live"
  /\ stop' = FALSE
  /\ mt' = Nobody
  /\ Goto(c, "idle")
  /\ UNCHANGED <<time, thread, list, is_running, loops_mt, handle>>

-----------------------------------------------------------------------------
(* cc_run_loop_register and cc_run_loop_unregister *)

\* Allocates and fills in the entry; acc starts at a random point of the first
\* interval.
RegisterCall(c, e) ==
  /\ pc[c] = "idle"
  /\ MayUse
  /\ entry[e] = "new"
  /\ \E i \in Intervals, a \in 0 .. AccMod - 1 :
       /\ a < i
       /\ interval' = [interval EXCEPT ![e] = i]
       /\ acc' = [acc EXCEPT ![e] = a]
  /\ entry' = [entry EXCEPT ![e] = "made"]
  /\ handle' = [handle EXCEPT ![c] = e]
  /\ Goto(c, "register")
  /\ UNCHANGED <<time, thread, programs, object, loops_mt>>

RegisterLink(c) ==
  /\ pc[c] = "register"
  /\ ListFree
  /\ programs' = Append(programs, handle[c])
  /\ entry' = [entry EXCEPT ![handle[c]] = "linked"]
  /\ handle' = [handle EXCEPT ![c] = Nobody]
  /\ Goto(c, "idle")
  /\ UNCHANGED <<time, thread, acc, interval, object, loops_mt>>

\* The handle of an entry is with one client.
UnregisterCall(c, e) ==
  /\ pc[c] = "idle"
  /\ MayUse
  /\ entry[e] = "linked"
  /\ \A d \in Clients : handle[d] # e
  /\ handle' = [handle EXCEPT ![c] = e]
  /\ Goto(c, "unregister")
  /\ UNCHANGED <<time, thread, list, object, loops_mt>>

\* Unlinks the entry and frees it.
UnregisterUnlink(c) ==
  /\ pc[c] = "unregister"
  /\ ListFree
  /\ programs' = Without(handle[c])
  /\ entry' = [entry EXCEPT ![handle[c]] = "freed"]
  /\ handle' = [handle EXCEPT ![c] = Nobody]
  /\ Goto(c, "idle")
  /\ UNCHANGED <<time, thread, acc, interval, object, loops_mt>>

-----------------------------------------------------------------------------
(* cc_run_loop_delete *)

DeleteCall(c) == /\ MayDelete
                 /\ Goto(c, "delete")
                 /\ UNCHANGED <<time, thread, list, object, loops_mt, handle>>

\* Sets the flag; the thread is not signalled.
DeleteStop(c) == /\ pc[c] = "delete"
                 /\ mt = Nobody
                 /\ stop' = TRUE
                 /\ Goto(c, "join")
                 /\ UNCHANGED <<time, thread, list, rl, mt, is_running, loops_mt, handle>>

\* Fault: the entries are not freed with the loop.
ReleasedNone == entry

Released == [e \in Entries |-> IF e \in Linked THEN "freed" ELSE entry[e]]

\* The thread joined, frees the entries and the loop.
DeleteFree(c) ==
  /\ pc[c] = "join"
  /\ place = "exited"
  /\ programs' = <<>>
  /\ entry' = Released
  /\ rl' = "freed"
  /\ Goto(c, "idle")
  /\ UNCHANGED <<time, thread, acc, interval, mt, stop, is_running, loops_mt, handle>>

-----------------------------------------------------------------------------
(* loop_thread *)

Exit == /\ is_running' = FALSE
        /\ place' = "exited"

\* Reads the clock before it takes mt for the first time.
LoopBegin == /\ place = "begin"
             /\ elapsed' = 0
             /\ wait' = 0
             /\ place' = "enter"
             /\ UNCHANGED <<since, prog, delta, list, object, loops_mt, client>>

\* Takes mt, and then waits on cv or leaves.
LoopEnter ==
  /\ place = "enter"
  /\ mt = Nobody
  /\ IF stop THEN Exit ELSE is_running' = TRUE /\ place' = "waiting"
  /\ UNCHANGED <<time, prog, delta, wait, list, rl, mt, stop, loops_mt, client>>

\* Has mt again after the wait: reads the clock, or leaves.
LoopWake ==
  /\ place = "waiting"
  /\ mt = Nobody
  /\ \/ /\ stop
        /\ Exit
        /\ UNCHANGED <<time, delta, wait>>
     \/ /\ ~stop
        /\ delta' = elapsed
        /\ elapsed' = 0
        /\ wait' = AccMod - 1
        /\ place' = "lock"
        /\ UNCHANGED <<since, is_running>>
  /\ UNCHANGED <<prog, list, rl, mt, stop, loops_mt, client>>

\* pthread_cond_timedwait gives up, or wakes for no reason; nobody signals cv
\* while the thread waits on it.
LoopTimeout == elapsed >= wait /\ LoopWake

LoopSpurious == elapsed < wait /\ LoopWake

LoopLock == /\ place = "lock"
            /\ ListFree
            /\ loops_mt' = TRUE
            /\ prog' = FirstEntry
            /\ place' = "visit"
            /\ UNCHANGED <<time, delta, wait, list, object, client>>

\* acc is unsigned: the test acc <= 0 holds at zero only, and an entry that is
\* late by more than nothing wraps.
LoopVisit ==
  /\ place = "visit"
  /\ prog # Nobody
  /\ LET left == (acc[prog] - delta) % AccMod
     IN  /\ acc' = [acc EXCEPT ![prog] = left]
         /\ IF left <= 0
            THEN place' = "main" /\ UNCHANGED <<prog, wait>>
            ELSE /\ wait' = Lesser(wait, left)
                 /\ prog' = EntryAfter(prog)
                 /\ UNCHANGED place
  /\ since' = [since EXCEPT ![prog] = Lesser(@ + delta, AccMod)]
  /\ UNCHANGED <<elapsed, delta, programs, entry, interval, object, loops_mt, client>>

\* Fault: the entry that has run is not armed again.
ArmedNot == acc[prog]

Armed == (acc[prog] + interval[prog]) % AccMod

\* The ticker returns.
LoopTicked ==
  /\ place = "main"
  /\ acc' = [acc EXCEPT ![prog] = Armed]
  /\ wait' = Lesser(wait, Armed)
  /\ since' = [since EXCEPT ![prog] = 0]
  /\ prog' = EntryAfter(prog)
  /\ place' = "visit"
  /\ UNCHANGED <<elapsed, delta, programs, entry, interval, object, loops_mt, client>>

\* Fault: the wait is not capped.
NotCapped(d) == d

Capped(d) == Lesser(d, MaxWait)

LoopUnlock ==
  /\ place = "visit"
  /\ prog = Nobody
  /\ loops_mt' = FALSE
  /\ wait' = Capped(wait)
  /\ place' = "relock"
  /\ UNCHANGED <<time, prog, delta, list, object, client>>

\* Takes mt, broadcasts cv, on which nobody waits, and waits again or leaves.
LoopAgain ==
  /\ place = "relock"
  /\ mt = Nobody
  /\ IF stop THEN Exit ELSE place' = "waiting" /\ UNCHANGED is_running
  /\ UNCHANGED <<time, prog, delta, wait, list, rl, mt, stop, loops_mt, client>>

-----------------------------------------------------------------------------
Tick == /\ place \notin {"none", "exited"}
        /\ elapsed < MaxElapsed
        /\ elapsed' = elapsed + 1
        /\ UNCHANGED <<since, thread, list, object, loops_mt, client>>

Init == /\ rl = "none"
        /\ mt = Nobody
        /\ stop = FALSE
        /\ is_running = FALSE
        /\ loops_mt = FALSE
        /\ programs = <<>>
        /\ entry = [e \in Entries |-> "new"]
        /\ acc = [e \in Entries |-> 0]
        /\ interval = [e \in Entries |-> 0]
        /\ place = "none"
        /\ prog = Nobody
        /\ delta = 0
        /\ wait = 0
        /\ elapsed = 0
        /\ since = [e \in Entries |-> AccMod]
        /\ pc = [c \in Clients |-> "idle"]
        /\ handle = [c \in Clients |-> Nobody]

LoopStep == \/ LoopBegin \/ LoopEnter \/ LoopTimeout \/ LoopLock
            \/ LoopVisit \/ LoopTicked \/ LoopUnlock \/ LoopAgain

ClientStep(c) == \/ NewRelease(c) \/ RegisterLink(c) \/ UnregisterUnlink(c)
                 \/ DeleteStop(c) \/ DeleteFree(c)

Call(c) == \/ NewCreate(c) \/ DeleteCall(c)
           \/ \E e \in Entries : RegisterCall(c, e) \/ UnregisterCall(c, e)

Next == \/ LoopStep \/ LoopSpurious \/ Tick
        \/ \E c \in Clients : Call(c) \/ ClientStep(c)

Spec == Init /\ [][Next]_vars

\* The threads are scheduled, tickers return and time passes.  No client has
\* to make a call.
Fairness == /\ WF_vars(LoopStep)
            /\ WF_vars(Tick)
            /\ \A c \in Clients : WF_vars(ClientStep(c))

FairSpec == Spec /\ Fairness

-----------------------------------------------------------------------------
(* Properties *)

TypeOK ==
  /\ rl \in {"none", "made", "live", "freed"}
  /\ mt \in Clients \cup {Nobody}
  /\ {stop, is_running, loops_mt} \subseteq BOOLEAN
  /\ programs \in Seq(Entries)
  /\ \A i, j \in DOMAIN programs : programs[i] = programs[j] => i = j
  /\ entry \in [Entries -> {"new", "made", "linked", "freed"}]
  /\ {e \in Entries : entry[e] = "linked"} = Linked
  /\ acc \in [Entries -> 0 .. AccMod - 1]
  /\ interval \in [Entries -> Intervals \cup {0}]
  /\ place \in {"none", "begin", "enter", "waiting", "lock", "visit", "main", "relock", "exited"}
  /\ prog \in Entries \cup {Nobody}
  /\ delta \in 0 .. MaxElapsed
  /\ wait \in 0 .. AccMod - 1
  /\ elapsed \in 0 .. MaxElapsed
  /\ since \in [Entries -> 0 .. AccMod]
  /\ pc \in [Clients -> {"idle", "new", "register", "unregister", "delete", "join"}]
  /\ handle \in [Clients -> Entries \cup {Nobody}]

\* The entry that the thread visits or runs is in the list: no entry is freed
\* under its cursor, and once cc_run_loop_unregister has returned the ticker
\* does not run.
VisitsLinked ==
  /\ place = "visit" => prog \in Linked \cup {Nobody}
  /\ place = "main" => prog \in Linked

\* The thread is done with the loop before its memory is freed.
ThreadInsideLoop == rl = "freed" => place = "exited"

\* The thread does not leave before it is told to.
LeavesWhenDeleted ==
  place = "exited" => rl = "freed" \/ \E c \in Clients : pc[c] = "join"

\* The thread lives as long as cc_run_loop_new and cc_run_loop_delete promise:
\* not a step longer than the memory that it works on, and not less than until
\* the deletion, although stop is true when it is created.
ThreadLife == ThreadInsideLoop /\ LeavesWhenDeleted

\* Two runs of a ticker are never closer than its interval.
NeverEarly == place = "main" => since[prog] >= interval[prog]

\* A ticker that is due when its entry is visited is run: what a frequency
\* promises the caller of cc_run_loop_register.
DueRuns == [][LoopVisit /\ acc[prog] <= delta => place' = "main"]_vars

\* cc_run_loop_delete returns once it has set the flag, although the thread is
\* not signalled.
DeleteReturns == \A c \in Clients : pc[c] = "join" ~> pc[c] = "idle"
=============================================================================
