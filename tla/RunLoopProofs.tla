--------------------------- MODULE RunLoopProofs ---------------------------
(***************************************************************************)
(* Proofs about RunLoop, for any number of clients and entries, any         *)
(* intervals and any width of the counters: what the thread visits is in    *)
(* the list, the thread lives as long as its loop, and no ticker runs early. *)
(***************************************************************************)
EXTENDS RunLoop, TLAPS

USE RunLoopAssumption DEF RunLoopAssumption
USE DEF time, thread, list, object, client, vars, Goto

-----------------------------------------------------------------------------
(* The inductive invariant.                                                  *)

\* loops_mt is held exactly while the thread walks the list.
ListHeld == loops_mt <=> place \in {"visit", "main"}

WalkInv == ListHeld /\ VisitsLinked

\* The object and its thread: mt is held over the creation only, and a loop
\* that is told to stop is being made, joined, or gone.
LoopStates ==
  /\ rl = "none" => place = "none"
  /\ rl = "freed" => place = "exited"
  /\ rl = "made" => stop /\ mt # Nobody
  /\ rl \in {"made", "live"} => place # "none"
  /\ rl # "live" => programs = <<>>
  /\ rl = "live" /\ stop => \E c \in Clients : pc[c] = "join"

\* What the calls that clients are in say of the loop: one that deletes or
\* makes it is alone.
ClientPlaces ==
  /\ mt # Nobody => pc[mt] = "new"
  /\ \A c \in Clients :
       /\ pc[c] = "new" => rl = "made" /\ mt = c
       /\ pc[c] \in {"register", "unregister", "delete", "join"} => rl = "live"
       /\ pc[c] \in {"new", "delete", "join"} => \A d \in Clients \ {c} : pc[d] = "idle"

LifeInv == LoopStates /\ ClientPlaces /\ LeavesWhenDeleted

\* An entry in a client's hand is in no other, and is what its call says.
HandleInv ==
  /\ \A c \in Clients :
       /\ pc[c] = "register" => handle[c] \in Entries /\ entry[handle[c]] = "made"
       /\ pc[c] = "unregister" => handle[c] \in Entries /\ entry[handle[c]] = "linked"
       /\ pc[c] \notin {"register", "unregister"} => handle[c] = Nobody
  /\ \A c, d \in Clients : handle[c] = handle[d] /\ handle[c] # Nobody => c = d

\* What is left of an entry's interval and the time since its last run make up
\* its interval at least; an entry that the thread never saw counts as one that
\* has not run for longer than any interval.
Spaced ==
  /\ \A e \in Entries : acc[e] + since[e] >= interval[e]
  /\ \A e \in Entries : entry[e] \in {"new", "made"} => since[e] = AccMod
  /\ place = "main" => prog \in Entries /\ acc[prog] = 0

-----------------------------------------------------------------------------
(* The operators.                                                            *)

\* The result of % is in range, and no less than the dividend if that is below
\* the divisor: subtracting too much wraps upwards.
LEMMA Modulo ==
  ASSUME NEW a \in Int, NEW n \in Nat \ {0}
  PROVE  /\ a % n \in 0 .. n - 1
         /\ a < n => a % n >= a
         /\ a \in 0 .. n - 1 => a % n = a
<1>1. a % n \in 0 .. n - 1
  OBVIOUS
<1>2. a \in 0 .. n - 1 => a % n = a
  OBVIOUS
<1>3. ASSUME a < n, a >= 0 PROVE a % n >= a
  BY <1>2, <1>3
<1>4. ASSUME a < 0 PROVE a % n >= a
  BY <1>1, <1>4
<1> QED
  BY <1>1, <1>2, <1>3, <1>4

\* The list is a sequence of entries, each in it once.
LEMMA ListSpelled ==
  ASSUME TypeOK
  PROVE  /\ Len(programs) \in Nat
         /\ programs \in Seq(Entries)
         /\ DOMAIN programs = 1 .. Len(programs)
         /\ \A i \in 1 .. Len(programs) : programs[i] \in Entries
         /\ \A i, j \in 1 .. Len(programs) : programs[i] = programs[j] => i = j
<1>1. programs \in Seq(Entries) /\ \A i, j \in DOMAIN programs : programs[i] = programs[j] => i = j
  BY DEF TypeOK
<1> QED
  BY <1>1

\* The place of an entry of the list.
LEMMA PlaceOfLinked ==
  ASSUME TypeOK, NEW e \in Linked
  PROVE  PlaceOf(e) \in 1 .. Len(programs) /\ programs[PlaceOf(e)] = e
BY ListSpelled DEF Linked, PlaceOf

\* The cursor goes from an entry of the list to one, or to the head.
LEMMA EntryAfterLinked ==
  ASSUME TypeOK, NEW e \in Linked
  PROVE  EntryAfter(e) \in Linked \cup {Nobody}
<1>1. CASE PlaceOf(e) < Len(programs)
  <2>1. PlaceOf(e) + 1 \in DOMAIN programs
    BY <1>1, ListSpelled, PlaceOfLinked
  <2> QED
    BY <1>1, <2>1 DEF EntryAfter, Linked
<1> QED
  BY <1>1 DEF EntryAfter

\* So does the first of the list.
LEMMA FirstEntryLinked ==
  ASSUME TypeOK
  PROVE  FirstEntry \in Linked \cup {Nobody}
BY DEF FirstEntry, Linked, TypeOK

\* Unlinking an entry keeps the others, each once.
LEMMA WithoutOne ==
  ASSUME TypeOK, NEW e \in Linked, programs' = Without(e)
  PROVE  /\ programs' \in Seq(Entries)
         /\ \A i, j \in DOMAIN programs' : programs'[i] = programs'[j] => i = j
         /\ Linked' = Linked \ {e}
<1> DEFINE p == PlaceOf(e)
           n == Len(programs)
<1>1. /\ p \in 1 .. n /\ programs[p] = e /\ n \in Nat
      /\ programs \in Seq(Entries)
      /\ \A i, j \in 1 .. n : programs[i] = programs[j] => i = j
  BY PlaceOfLinked, ListSpelled
<1>2. programs' = [i \in 1 .. n - 1 |-> programs[IF i < p THEN i ELSE i + 1]]
  BY DEF Without
<1> HIDE DEF p, n
<1>3. /\ n - 1 \in Nat
      /\ \A i \in 1 .. n - 1 : programs[IF i < p THEN i ELSE i + 1] \in Entries
  BY <1>1 DEF n
<1>4. programs' \in Seq(Entries) /\ DOMAIN programs' = 1 .. n - 1
  BY <1>2, <1>3
<1>5. \A i, j \in 1 .. n - 1 : programs'[i] = programs'[j] => i = j
  BY <1>1, <1>2
<1>6. \A i \in 1 .. n - 1 : programs'[i] \in Linked \ {e}
  BY <1>1, <1>2 DEF Linked, n
<1>7. ASSUME NEW d \in Linked, d # e PROVE \E i \in 1 .. n - 1 : programs'[i] = d
  <2>1. PICK k \in 1 .. n : programs[k] = d
    BY <1>1 DEF Linked, n
  <2>2. k # p
    BY <1>1, <1>7, <2>1
  <2>3. CASE k < p
    BY <1>1, <1>2, <2>1, <2>3
  <2>4. CASE k > p
    <3>1. k - 1 \in 1 .. n - 1 /\ ~(k - 1 < p) /\ k - 1 + 1 = k
      BY <1>1, <2>4
    <3> QED
      BY <1>2, <2>1, <3>1
  <2> QED
    BY <1>1, <2>2, <2>3, <2>4
<1>8. Linked' = {programs'[i] : i \in 1 .. n - 1}
  BY <1>4 DEF Linked
<1>9. Linked' \subseteq Linked \ {e}
  BY <1>6, <1>8
<1>10. Linked \ {e} \subseteq Linked'
  BY <1>7, <1>8
<1> QED
  BY <1>4, <1>5, <1>9, <1>10

\* Linking a new entry adds it, once.
LEMMA AppendOne ==
  ASSUME TypeOK, NEW e \in Entries \ Linked, programs' = Append(programs, e)
  PROVE  /\ programs' \in Seq(Entries)
         /\ \A i, j \in DOMAIN programs' : programs'[i] = programs'[j] => i = j
         /\ Linked' = Linked \cup {e}
<1> DEFINE n == Len(programs)
<1>1. /\ n \in Nat /\ programs \in Seq(Entries) /\ DOMAIN programs = 1 .. n
      /\ \A i, j \in 1 .. n : programs[i] = programs[j] => i = j
      /\ Linked = {programs[i] : i \in 1 .. n}
      /\ \A i \in 1 .. n : programs[i] # e
  BY ListSpelled DEF Linked
<1>2. /\ programs' \in Seq(Entries) /\ DOMAIN programs' = 1 .. n + 1
      /\ \A i \in 1 .. n : programs'[i] = programs[i]
      /\ programs'[n + 1] = e
  BY <1>1
<1> HIDE DEF n
<1>3. \A i \in 1 .. n + 1 : i \in 1 .. n \/ i = n + 1
  BY <1>1
<1>4. 1 .. n \subseteq 1 .. n + 1 /\ n + 1 \in 1 .. n + 1
  BY <1>1
<1>5. Linked' = {programs'[i] : i \in 1 .. n + 1}
  BY <1>2 DEF Linked
<1>6. Linked' = Linked \cup {e}
  BY <1>1, <1>2, <1>3, <1>4, <1>5
<1>7. \A i, j \in 1 .. n + 1 : programs'[i] = programs'[j] => i = j
  BY <1>1, <1>2, <1>3
<1> QED
  BY <1>2, <1>6, <1>7

-----------------------------------------------------------------------------
(* Types.  The list holds the entries that are linked, each once.            *)

\* The list of the entries is empty in a loop that is not in use, and what a
\* client registers is not in it, what one unregisters is.
LEMMA TypeClient ==
  ASSUME TypeOK, LoopStates, HandleInv, NEW c \in Clients, Call(c) \/ ClientStep(c)
  PROVE  TypeOK'
<1> USE DEF TypeOK
<1>1. CASE NewCreate(c)
  <2>1. programs = <<>>
    BY <1>1 DEF NewCreate, LoopStates
  <2>2. Linked' = Linked
    BY <1>1, <2>1 DEF NewCreate, Linked
  <2>3. /\ rl' = "made" /\ stop' = TRUE /\ is_running' = FALSE /\ programs' = <<>>
        /\ mt' = c /\ place' = "begin" /\ pc' = [pc EXCEPT ![c] = "new"]
        /\ UNCHANGED <<elapsed, since, prog, delta, wait, entry, acc, interval, loops_mt, handle>>
    BY <1>1 DEF NewCreate, CreationOwner
  <2> QED
    BY <2>1, <2>2, <2>3
<1>2. CASE NewRelease(c) \/ DeleteCall(c) \/ DeleteStop(c)
  <2>1. Linked' = Linked
    BY <1>2 DEF NewRelease, DeleteCall, DeleteStop, Linked
  <2>2. /\ rl' \in {rl, "live"} /\ mt' \in {mt, Nobody} /\ stop' \in BOOLEAN
        /\ \E l \in {"idle", "delete", "join"} : pc' = [pc EXCEPT ![c] = l]
        /\ UNCHANGED <<elapsed, since, place, prog, delta, wait>>
        /\ UNCHANGED <<programs, entry, acc, interval, is_running, loops_mt, handle>>
    BY <1>2 DEF NewRelease, DeleteCall, DeleteStop
  <2> QED
    BY <2>1, <2>2
<1>3. ASSUME NEW e \in Entries, RegisterCall(c, e) PROVE TypeOK'
  <2>1. Linked' = Linked
    BY <1>3 DEF RegisterCall, Linked
  <2>2. {d \in Entries : entry'[d] = "linked"} = {d \in Entries : entry[d] = "linked"}
    BY <1>3 DEF RegisterCall
  <2>3. acc' \in [Entries -> 0 .. AccMod - 1] /\ interval' \in [Entries -> Intervals \cup {0}]
    <3>1. PICK i \in Intervals, a \in 0 .. AccMod - 1 :
            interval' = [interval EXCEPT ![e] = i] /\ acc' = [acc EXCEPT ![e] = a]
      BY <1>3 DEF RegisterCall
    <3> QED
      BY <3>1
  <2>4. /\ entry' = [entry EXCEPT ![e] = "made"]
        /\ handle' = [handle EXCEPT ![c] = e]
        /\ pc' = [pc EXCEPT ![c] = "register"]
        /\ UNCHANGED <<elapsed, since, place, prog, delta, wait>>
        /\ UNCHANGED <<programs, rl, mt, stop, is_running, loops_mt>>
    BY <1>3 DEF RegisterCall
  <2> QED
    BY <2>1, <2>2, <2>3, <2>4
<1>4. ASSUME NEW e \in Entries, UnregisterCall(c, e) PROVE TypeOK'
  <2>1. Linked' = Linked
    BY <1>4 DEF UnregisterCall, Linked
  <2> QED
    BY <1>4, <2>1 DEF UnregisterCall
<1>5. CASE RegisterLink(c)
  <2>1. handle[c] \in Entries \ Linked
    BY <1>5 DEF RegisterLink, HandleInv
  <2>2. /\ programs' \in Seq(Entries)
        /\ \A i, j \in DOMAIN programs' : programs'[i] = programs'[j] => i = j
        /\ Linked' = Linked \cup {handle[c]}
    BY <1>5, <2>1, AppendOne DEF RegisterLink
  <2>3. entry' \in [Entries -> {"new", "made", "linked", "freed"}]
    BY <1>5 DEF RegisterLink
  <2>4. {d \in Entries : entry'[d] = "linked"} = Linked \cup {handle[c]}
    BY <1>5, <2>1 DEF RegisterLink
  <2> QED
    BY <1>5, <2>2, <2>3, <2>4 DEF RegisterLink
<1>6. CASE UnregisterUnlink(c)
  <2>1. handle[c] \in Linked
    BY <1>6 DEF UnregisterUnlink, HandleInv
  <2>2. /\ programs' \in Seq(Entries)
        /\ \A i, j \in DOMAIN programs' : programs'[i] = programs'[j] => i = j
        /\ Linked' = Linked \ {handle[c]}
    BY <1>6, <2>1, WithoutOne DEF UnregisterUnlink
  <2>3. entry' \in [Entries -> {"new", "made", "linked", "freed"}]
    BY <1>6 DEF UnregisterUnlink
  <2>4. {d \in Entries : entry'[d] = "linked"} = Linked \ {handle[c]}
    BY <1>6, <2>1 DEF UnregisterUnlink
  <2> QED
    BY <1>6, <2>2, <2>3, <2>4 DEF UnregisterUnlink
<1>7. CASE DeleteFree(c)
  <2>1. Linked' = {}
    BY <1>7 DEF DeleteFree, Linked
  <2>2. {d \in Entries : entry'[d] = "linked"} = {}
    BY <1>7 DEF DeleteFree, Released
  <2>3. entry' \in [Entries -> {"new", "made", "linked", "freed"}]
    BY <1>7 DEF DeleteFree, Released
  <2> QED
    BY <1>7, <2>1, <2>2, <2>3 DEF DeleteFree
<1> QED
  BY <1>1, <1>2, <1>3, <1>4, <1>5, <1>6, <1>7 DEF Call, ClientStep

\* An interval is positive, or not set yet.
LEMMA IntervalRange == TypeOK => \A e \in Entries : interval[e] \in 0 .. AccMod - 1
<1>1. Intervals \cup {0} \subseteq 0 .. AccMod - 1
  OBVIOUS
<1> QED
  BY <1>1 DEF TypeOK

\* What of TypeOK is about the variables that the thread changes.
LocalsOK ==
  /\ is_running \in BOOLEAN
  /\ loops_mt \in BOOLEAN
  /\ acc \in [Entries -> 0 .. AccMod - 1]
  /\ place \in {"none", "begin", "enter", "waiting", "lock", "visit", "main", "relock", "exited"}
  /\ prog \in Entries \cup {Nobody}
  /\ delta \in 0 .. MaxElapsed
  /\ wait \in 0 .. AccMod - 1
  /\ elapsed \in 0 .. MaxElapsed
  /\ since \in [Entries -> 0 .. AccMod]

\* The thread does not change the list; what is left of an interval and the
\* wait stay in their range.
LEMMA TypeThread ==
  ASSUME TypeOK, WalkInv, LoopStep \/ LoopSpurious \/ Tick
  PROVE  TypeOK'
<1>1. UNCHANGED <<rl, mt, stop, programs, entry, interval, pc, handle>>
  BY DEF LoopStep, LoopSpurious, LoopTimeout, Tick, LoopBegin, LoopEnter, LoopWake, LoopLock,
         LoopVisit, LoopTicked, LoopUnlock, LoopAgain, Exit
<1>2. LocalsOK
  BY DEF TypeOK, LocalsOK
<1>3. SUFFICES LocalsOK'
  <2>1. Linked' = Linked
    BY <1>1 DEF Linked
  <2> QED
    BY <1>1, <2>1 DEF TypeOK, LocalsOK
<1>4. Linked \subseteq Entries
  BY ListSpelled DEF Linked
<1> USE <1>2 DEF LocalsOK
<1>5. CASE LoopBegin \/ LoopEnter \/ LoopAgain
  <2>1. /\ is_running' \in BOOLEAN
        /\ elapsed' \in {elapsed, 0} /\ wait' \in {wait, 0}
        /\ place' \in {"enter", "waiting", "exited"}
        /\ UNCHANGED <<since, prog, delta, acc, loops_mt>>
    BY <1>5 DEF LoopBegin, LoopEnter, LoopAgain, Exit
  <2> QED
    BY <2>1
<1>6. CASE LoopWake
  <2>1. /\ is_running' \in BOOLEAN
        /\ elapsed' \in {elapsed, 0} /\ delta' \in {delta, elapsed} /\ wait' \in {wait, AccMod - 1}
        /\ place' \in {"lock", "exited"}
        /\ UNCHANGED <<since, prog, acc, loops_mt>>
    BY <1>6 DEF LoopWake, Exit
  <2> QED
    BY <2>1
<1>7. CASE LoopLock
  BY <1>4, <1>7, FirstEntryLinked DEF LoopLock
<1>8. CASE LoopVisit
  <2> DEFINE left == (acc[prog] - delta) % AccMod
             passed == Lesser(since[prog] + delta, AccMod)
  <2>1. prog \in Linked /\ prog \in Entries
    BY <1>4, <1>8 DEF LoopVisit, WalkInv, VisitsLinked
  <2>2. left \in 0 .. AccMod - 1
    <3>1. acc[prog] - delta \in Int
      BY <2>1
    <3> QED
      BY <3>1, Modulo
  <2>3. EntryAfter(prog) \in Entries \cup {Nobody}
    BY <1>4, <2>1, EntryAfterLinked
  <2>4. passed \in 0 .. AccMod
    BY <2>1 DEF Lesser
  <2> HIDE DEF left, passed
  <2>5. /\ acc' = [acc EXCEPT ![prog] = left]
        /\ since' = [since EXCEPT ![prog] = passed]
        /\ \/ place' = "main" /\ UNCHANGED <<prog, wait>>
           \/ wait' = Lesser(wait, left) /\ prog' = EntryAfter(prog) /\ place' = "visit"
        /\ UNCHANGED <<elapsed, delta, is_running, loops_mt>>
    BY <1>8 DEF LoopVisit, left, passed
  <2>6. wait' \in 0 .. AccMod - 1
    BY <2>2, <2>5 DEF Lesser
  <2>7. acc' \in [Entries -> 0 .. AccMod - 1] /\ since' \in [Entries -> 0 .. AccMod]
    BY <2>2, <2>4, <2>5
  <2> QED
    BY <2>3, <2>5, <2>6, <2>7
<1>9. CASE LoopTicked
  <2>1. prog \in Linked /\ prog \in Entries
    BY <1>4, <1>9 DEF LoopTicked, WalkInv, VisitsLinked
  <2>2. Armed \in 0 .. AccMod - 1
    <3>1. acc[prog] \in Int /\ interval[prog] \in Int
      BY <2>1, IntervalRange
    <3>2. acc[prog] + interval[prog] \in Int
      BY <3>1
    <3> QED
      BY <3>2, Modulo DEF Armed
  <2>3. EntryAfter(prog) \in Entries \cup {Nobody}
    BY <1>4, <2>1, EntryAfterLinked
  <2>4. Lesser(wait, Armed) \in 0 .. AccMod - 1
    BY <2>2 DEF Lesser
  <2> QED
    BY <1>9, <2>1, <2>2, <2>3, <2>4 DEF LoopTicked
<1>10. CASE LoopUnlock
  <2>1. /\ loops_mt' = FALSE
        /\ wait' = Lesser(wait, MaxWait)
        /\ place' = "relock"
        /\ UNCHANGED <<elapsed, since, prog, delta, acc, is_running>>
    BY <1>10 DEF LoopUnlock, Capped
  <2>2. wait' \in 0 .. AccMod - 1
    BY <2>1 DEF Lesser
  <2> QED
    BY <2>1, <2>2
<1>11. CASE Tick
  BY <1>11 DEF Tick
<1> QED
  BY <1>5, <1>6, <1>7, <1>8, <1>9, <1>10, <1>11 DEF LoopStep, LoopSpurious, LoopTimeout

-----------------------------------------------------------------------------
(* The thread's walk.                                                        *)

\* A client that changes the list has loops_mt, so the thread is not in it.
LEMMA WalkClient ==
  ASSUME TypeOK, WalkInv, LifeInv, NEW c \in Clients, Call(c) \/ ClientStep(c)
  PROVE  WalkInv'
<1> USE DEF WalkInv, ListHeld, VisitsLinked
<1>1. CASE NewCreate(c)
  <2>1. place \in {"none", "exited"}
    BY <1>1 DEF NewCreate, LifeInv, LoopStates
  <2>2. loops_mt' = loops_mt /\ place' = "begin"
    BY <1>1 DEF NewCreate
  <2> QED
    BY <2>1, <2>2
<1>2. CASE RegisterLink(c) \/ UnregisterUnlink(c)
  <2>1. ~loops_mt /\ place' = place /\ loops_mt' = loops_mt
    BY <1>2 DEF RegisterLink, UnregisterUnlink, ListFree
  <2> QED
    BY <2>1
<1>3. CASE DeleteFree(c)
  <2>1. place = "exited" /\ place' = place /\ loops_mt' = loops_mt
    BY <1>3 DEF DeleteFree
  <2> QED
    BY <2>1
<1>4. CASE \/ NewRelease(c) \/ DeleteCall(c) \/ DeleteStop(c)
           \/ \E e \in Entries : RegisterCall(c, e) \/ UnregisterCall(c, e)
  <2>1. UNCHANGED <<place, prog, programs, loops_mt>>
    BY <1>4 DEF NewRelease, DeleteCall, DeleteStop, RegisterCall, UnregisterCall
  <2> QED
    BY <2>1 DEF Linked
<1> QED
  BY <1>1, <1>2, <1>3, <1>4 DEF Call, ClientStep

\* The thread takes loops_mt before it reads the list, and leaves no entry of it
\* for another place than the next one.
LEMMA WalkThread ==
  ASSUME TypeOK, WalkInv, LoopStep \/ LoopSpurious \/ Tick
  PROVE  WalkInv'
<1> USE DEF WalkInv, ListHeld, VisitsLinked
<1>1. Linked' = Linked
  <2>1. UNCHANGED programs
    BY DEF LoopStep, LoopSpurious, LoopTimeout, Tick, LoopBegin, LoopEnter, LoopWake, LoopLock,
           LoopVisit, LoopTicked, LoopUnlock, LoopAgain
  <2> QED
    BY <2>1 DEF Linked
<1>2. CASE LoopLock
  BY <1>1, <1>2, FirstEntryLinked DEF LoopLock
<1>3. CASE LoopVisit
  <2>1. prog \in Linked /\ place = "visit" /\ loops_mt' = loops_mt
    BY <1>3 DEF LoopVisit
  <2>2. \/ place' = "main" /\ prog' = prog
        \/ place' = "visit" /\ prog' = EntryAfter(prog)
    BY <1>3 DEF LoopVisit
  <2> QED
    BY <1>1, <2>1, <2>2, EntryAfterLinked
<1>4. CASE LoopTicked
  <2>1. prog \in Linked /\ place' = "visit" /\ prog' = EntryAfter(prog) /\ loops_mt' = loops_mt
    BY <1>4 DEF LoopTicked
  <2> QED
    BY <1>1, <1>4, <2>1, EntryAfterLinked DEF LoopTicked
<1>5. CASE LoopUnlock
  BY <1>5 DEF LoopUnlock
<1>6. CASE LoopBegin \/ LoopEnter \/ LoopWake \/ LoopAgain
  <2>1. /\ place \notin {"visit", "main"} /\ place' \notin {"visit", "main"}
        /\ loops_mt' = loops_mt
    BY <1>6 DEF LoopBegin, LoopEnter, LoopWake, LoopAgain, Exit
  <2> QED
    BY <2>1
<1>7. CASE Tick
  BY <1>1, <1>7 DEF Tick
<1> QED
  BY <1>2, <1>3, <1>4, <1>5, <1>6, <1>7 DEF LoopStep, LoopSpurious, LoopTimeout

-----------------------------------------------------------------------------
(* The life of the loop and of its thread.                                   *)

\* A loop is made, told to stop and freed by one client while no other uses it.
LEMMA LifeClient ==
  ASSUME TypeOK, LifeInv, NEW c \in Clients, Call(c) \/ ClientStep(c)
  PROVE  LifeInv'
<1> USE DEF LifeInv, LoopStates, ClientPlaces, LeavesWhenDeleted
<1>1. pc \in [Clients -> {"idle", "new", "register", "unregister", "delete", "join"}] /\ Nobody \notin Clients
  BY DEF TypeOK
<1>2. CASE NewCreate(c)
  <2>1. /\ rl \in {"none", "freed"} /\ \A d \in Clients : pc[d] = "idle"
        /\ rl' = "made" /\ stop' = TRUE /\ programs' = <<>> /\ mt' = c /\ place' = "begin"
        /\ pc' = [pc EXCEPT ![c] = "new"]
    BY <1>2 DEF NewCreate, CreationOwner
  <2> QED
    BY <1>1, <2>1
<1>3. CASE NewRelease(c)
  <2>1. /\ pc[c] = "new" /\ rl' = "live" /\ stop' = FALSE /\ mt' = Nobody
        /\ pc' = [pc EXCEPT ![c] = "idle"]
        /\ UNCHANGED <<place, programs>>
    BY <1>3 DEF NewRelease
  <2> QED
    BY <1>1, <2>1
<1>4. CASE \/ RegisterLink(c) \/ UnregisterUnlink(c)
           \/ \E e \in Entries : RegisterCall(c, e) \/ UnregisterCall(c, e)
  <2>1. /\ UNCHANGED <<rl, mt, stop, place>>
        /\ rl = "live"
        /\ pc[c] \in {"idle", "register", "unregister"}
        /\ \E l \in {"idle", "register", "unregister"} : pc' = [pc EXCEPT ![c] = l]
    BY <1>4 DEF RegisterLink, UnregisterUnlink, RegisterCall, UnregisterCall, MayUse
  <2>2. \A d \in Clients : pc[d] \notin {"new", "delete", "join"}
    <3>1. CASE RegisterLink(c) \/ UnregisterUnlink(c)
      BY <1>1, <2>1, <3>1 DEF RegisterLink, UnregisterUnlink
    <3>2. ASSUME NEW e \in Entries, RegisterCall(c, e) \/ UnregisterCall(c, e)
          PROVE  \A d \in Clients : pc[d] \notin {"new", "delete", "join"}
      BY <1>1, <3>2 DEF RegisterCall, UnregisterCall, MayUse
    <3> QED
      BY <1>4, <3>1, <3>2
  <2> QED
    BY <1>1, <2>1, <2>2
<1>5. CASE DeleteCall(c)
  <2>1. /\ rl = "live" /\ \A d \in Clients : pc[d] = "idle"
        /\ pc' = [pc EXCEPT ![c] = "delete"]
        /\ UNCHANGED <<rl, mt, stop, place, programs>>
    BY <1>5 DEF DeleteCall, MayDelete
  <2> QED
    BY <1>1, <2>1
<1>6. CASE DeleteStop(c)
  <2>1. /\ pc[c] = "delete" /\ pc' = [pc EXCEPT ![c] = "join"]
        /\ UNCHANGED <<rl, mt, place, programs>>
    BY <1>6 DEF DeleteStop
  <2> QED
    BY <1>1, <2>1
<1>7. CASE DeleteFree(c)
  <2>1. /\ pc[c] = "join" /\ place = "exited" /\ programs' = <<>> /\ rl' = "freed"
        /\ pc' = [pc EXCEPT ![c] = "idle"]
        /\ UNCHANGED <<mt, stop, place>>
    BY <1>7 DEF DeleteFree
  <2> QED
    BY <1>1, <2>1
<1> QED
  BY <1>2, <1>3, <1>4, <1>5, <1>6, <1>7 DEF Call, ClientStep

\* The thread leaves when it finds stop set, with mt free: a deletion is on, for
\* the thread does not see stop as cc_run_loop_new has it.
LEMMA LifeThread ==
  ASSUME TypeOK, LifeInv, LoopStep \/ LoopSpurious \/ Tick
  PROVE  LifeInv'
<1> USE DEF LifeInv, LoopStates, ClientPlaces, LeavesWhenDeleted
<1>1. UNCHANGED <<rl, mt, stop, programs, pc>> /\ place \notin {"none", "exited"} /\ place' # "none"
  BY DEF LoopStep, LoopSpurious, LoopTimeout, Tick, LoopBegin, LoopEnter, LoopWake, LoopLock,
         LoopVisit, LoopTicked, LoopUnlock, LoopAgain, Exit
<1>2. place' = "exited" => stop /\ mt = Nobody
  BY <1>1 DEF LoopStep, LoopSpurious, LoopTimeout, Tick, LoopBegin, LoopEnter, LoopWake, LoopLock,
         LoopVisit, LoopTicked, LoopUnlock, LoopAgain, Exit
<1>3. rl \in {"none", "made", "live", "freed"}
  BY DEF TypeOK
<1> QED
  BY <1>1, <1>2, <1>3

-----------------------------------------------------------------------------
(* The entries in the clients' hands.                                        *)

\* An entry goes to a client's hand from nobody's, and leaves it in the list or
\* freed.
LEMMA HandleClient ==
  ASSUME TypeOK, LifeInv, HandleInv, NEW c \in Clients, Call(c) \/ ClientStep(c)
  PROVE  HandleInv'
<1> USE DEF HandleInv
<1>1. /\ pc \in [Clients -> {"idle", "new", "register", "unregister", "delete", "join"}]
      /\ handle \in [Clients -> Entries \cup {Nobody}]
      /\ entry \in [Entries -> {"new", "made", "linked", "freed"}]
      /\ Nobody \notin Entries
  BY DEF TypeOK
<1>2. CASE NewCreate(c) \/ NewRelease(c) \/ DeleteCall(c) \/ DeleteStop(c)
  <2>1. /\ pc[c] \notin {"register", "unregister"}
        /\ \E l \in {"new", "idle", "delete", "join"} : pc' = [pc EXCEPT ![c] = l]
        /\ UNCHANGED <<entry, handle>>
    BY <1>2 DEF NewCreate, NewRelease, DeleteCall, MayDelete, DeleteStop
  <2> QED
    BY <1>1, <2>1
<1>3. ASSUME NEW e \in Entries, RegisterCall(c, e) PROVE HandleInv'
  <2>1. /\ pc[c] = "idle" /\ entry[e] = "new" /\ entry' = [entry EXCEPT ![e] = "made"]
        /\ handle' = [handle EXCEPT ![c] = e] /\ pc' = [pc EXCEPT ![c] = "register"]
    BY <1>3 DEF RegisterCall
  <2>2. \A d \in Clients : handle[d] # e
    BY <1>1, <2>1
  <2> QED
    BY <1>1, <2>1, <2>2
<1>4. ASSUME NEW e \in Entries, UnregisterCall(c, e) PROVE HandleInv'
  <2>1. /\ pc[c] = "idle" /\ entry[e] = "linked" /\ \A d \in Clients : handle[d] # e
        /\ handle' = [handle EXCEPT ![c] = e] /\ pc' = [pc EXCEPT ![c] = "unregister"]
        /\ UNCHANGED entry
    BY <1>4 DEF UnregisterCall
  <2> QED
    BY <1>1, <2>1
<1>5. CASE RegisterLink(c) \/ UnregisterUnlink(c)
  <2>1. /\ pc[c] \in {"register", "unregister"}
        /\ \E l \in {"linked", "freed"} : entry' = [entry EXCEPT ![handle[c]] = l]
        /\ handle' = [handle EXCEPT ![c] = Nobody] /\ pc' = [pc EXCEPT ![c] = "idle"]
    BY <1>5 DEF RegisterLink, UnregisterUnlink
  <2>2. handle[c] \in Entries /\ \A d \in Clients \ {c} : handle[d] # handle[c]
    BY <1>1, <2>1
  <2> QED
    BY <1>1, <2>1, <2>2
<1>6. CASE DeleteFree(c)
  <2>1. /\ pc[c] = "join" /\ pc' = [pc EXCEPT ![c] = "idle"] /\ UNCHANGED handle
    BY <1>6 DEF DeleteFree
  <2>2. \A d \in Clients : pc[d] \notin {"register", "unregister"}
    BY <1>1, <2>1 DEF LifeInv, ClientPlaces
  <2> QED
    BY <1>1, <2>1, <2>2
<1> QED
  BY <1>2, <1>3, <1>4, <1>5, <1>6 DEF Call, ClientStep

\* The thread has no entry of a client's.
LEMMA HandleThread == ASSUME HandleInv, LoopStep \/ LoopSpurious \/ Tick PROVE HandleInv'
<1>1. UNCHANGED <<entry, pc, handle>>
  BY DEF LoopStep, LoopSpurious, LoopTimeout, Tick, LoopBegin, LoopEnter, LoopWake, LoopLock,
         LoopVisit, LoopTicked, LoopUnlock, LoopAgain, Exit
<1> QED
  BY <1>1 DEF HandleInv

-----------------------------------------------------------------------------
(* The time between two runs of a ticker.                                    *)

\* An entry starts with part of its interval left and no run behind it; the
\* clients change no entry that the thread is at.
LEMMA SpacedClient ==
  ASSUME TypeOK, WalkInv, LifeInv, HandleInv, Spaced, NEW c \in Clients, Call(c) \/ ClientStep(c)
  PROVE  Spaced'
<1> USE DEF Spaced
<1>1. /\ entry \in [Entries -> {"new", "made", "linked", "freed"}]
      /\ acc \in [Entries -> 0 .. AccMod - 1]
      /\ interval \in [Entries -> Intervals \cup {0}]
      /\ handle \in [Clients -> Entries \cup {Nobody}]
  BY DEF TypeOK
<1>2. ASSUME NEW e \in Entries, RegisterCall(c, e) PROVE Spaced'
  <2>1. /\ entry[e] = "new" /\ entry' = [entry EXCEPT ![e] = "made"]
        /\ UNCHANGED <<since, place, prog>>
    BY <1>2 DEF RegisterCall
  <2>2. PICK i \in Intervals, a \in 0 .. AccMod - 1 :
          interval' = [interval EXCEPT ![e] = i] /\ acc' = [acc EXCEPT ![e] = a]
    BY <1>2 DEF RegisterCall
  <2>3. since[e] = AccMod
    BY <2>1
  <2>4. a + AccMod >= i
    <3>1. i \in 1 .. AccMod - 1
      OBVIOUS
    <3> QED
      BY <3>1
  <2>5. place = "main" => prog # e
    <3>1. place = "main" => entry[prog] = "linked"
      BY DEF WalkInv, VisitsLinked, TypeOK
    <3> QED
      BY <2>1, <3>1
  <2>6. \A d \in Entries : acc'[d] + since'[d] >= interval'[d]
    BY <1>1, <2>1, <2>2, <2>3, <2>4
  <2>7. \A d \in Entries : entry'[d] \in {"new", "made"} => since'[d] = AccMod
    BY <1>1, <2>1
  <2> QED
    BY <1>1, <2>1, <2>2, <2>5, <2>6, <2>7
<1>3. CASE RegisterLink(c) \/ UnregisterUnlink(c)
  <2>1. /\ \E l \in {"linked", "freed"} : entry' = [entry EXCEPT ![handle[c]] = l]
        /\ UNCHANGED <<acc, interval, since, place, prog>>
    BY <1>3 DEF RegisterLink, UnregisterUnlink
  <2>2. \A e \in Entries : entry'[e] \in {"new", "made"} => entry[e] \in {"new", "made"}
    BY <1>1, <2>1
  <2> QED
    BY <2>1, <2>2
<1>4. CASE DeleteFree(c)
  <2>1. entry' = Released /\ UNCHANGED <<acc, interval, since, place, prog>>
    BY <1>4 DEF DeleteFree
  <2>2. \A e \in Entries : entry'[e] \in {"new", "made"} => entry[e] \in {"new", "made"}
    BY <2>1 DEF Released
  <2> QED
    BY <2>1, <2>2
<1>5. CASE NewCreate(c)
  BY <1>5 DEF NewCreate
<1>6. CASE NewRelease(c) \/ DeleteCall(c) \/ DeleteStop(c) \/ \E e \in Entries : UnregisterCall(c, e)
  <2>1. UNCHANGED <<entry, acc, interval, since, place, prog>>
    BY <1>6 DEF NewRelease, DeleteCall, DeleteStop, UnregisterCall
  <2> QED
    BY <2>1
<1> QED
  BY <1>2, <1>3, <1>4, <1>5, <1>6 DEF Call, ClientStep

\* A visit takes from what is left what it adds to the time, and an entry that is
\* late wraps, which leaves it more; a run starts with nothing left.
LEMMA SpacedThread ==
  ASSUME TypeOK, WalkInv, Spaced, LoopStep \/ LoopSpurious \/ Tick
  PROVE  Spaced'
<1> USE DEF Spaced
<1>1. UNCHANGED <<entry, interval>>
  BY DEF LoopStep, LoopSpurious, LoopTimeout, Tick, LoopBegin, LoopEnter, LoopWake, LoopLock,
         LoopVisit, LoopTicked, LoopUnlock, LoopAgain, Exit
<1>2. /\ acc \in [Entries -> 0 .. AccMod - 1] /\ since \in [Entries -> 0 .. AccMod]
      /\ delta \in Nat
      /\ \A e \in Entries : interval[e] \in 0 .. AccMod - 1
  BY IntervalRange DEF TypeOK
<1>3. place \in {"visit", "main"} /\ prog # Nobody => prog \in Entries /\ entry[prog] = "linked"
  BY DEF WalkInv, VisitsLinked, TypeOK
<1>4. CASE LoopVisit
  <2> DEFINE left == (acc[prog] - delta) % AccMod
             passed == Lesser(since[prog] + delta, AccMod)
  <2>1. prog \in Entries /\ entry[prog] = "linked"
    BY <1>3, <1>4 DEF LoopVisit
  <2>2. acc[prog] - delta \in Int /\ acc[prog] - delta < AccMod
    BY <1>2, <2>1
  <2>3. left \in 0 .. AccMod - 1 /\ left >= acc[prog] - delta
    BY <2>2, Modulo
  <2> HIDE DEF left
  <2>4. left + passed >= interval[prog]
    <3>1. /\ acc[prog] \in Nat /\ since[prog] \in Nat /\ interval[prog] \in 0 .. AccMod - 1
          /\ acc[prog] + since[prog] >= interval[prog]
      BY <1>2, <2>1
    <3> QED
      BY <1>2, <2>3, <3>1 DEF Lesser
  <2> HIDE DEF passed
  <2>5. /\ acc' = [acc EXCEPT ![prog] = left]
        /\ since' = [since EXCEPT ![prog] = passed]
        /\ place' = "main" => prog' = prog /\ left <= 0
    BY <1>4 DEF LoopVisit, left, passed
  <2>6. \A e \in Entries : acc'[e] + since'[e] >= interval'[e]
    BY <1>1, <1>2, <2>4, <2>5
  <2>7. \A e \in Entries : entry'[e] \in {"new", "made"} => since'[e] = AccMod
    BY <1>1, <1>2, <2>1, <2>5
  <2>8. place' = "main" => prog' \in Entries /\ acc'[prog'] = 0
    BY <1>2, <2>1, <2>3, <2>5
  <2> QED
    BY <2>6, <2>7, <2>8
<1>5. CASE LoopTicked
  <2>1. prog \in Entries /\ entry[prog] = "linked" /\ acc[prog] = 0
    BY <1>3, <1>5 DEF LoopTicked
  <2>2. Armed = interval[prog]
    <3>1. acc[prog] + interval[prog] = interval[prog] /\ interval[prog] \in Int
      BY <1>2, <2>1
    <3> QED
      BY <1>2, <2>1, <3>1, Modulo DEF Armed
  <2>3. /\ acc' = [acc EXCEPT ![prog] = interval[prog]]
        /\ since' = [since EXCEPT ![prog] = 0]
        /\ place' = "visit"
    BY <1>5, <2>2 DEF LoopTicked
  <2>4. \A e \in Entries : acc'[e] + since'[e] >= interval'[e]
    BY <1>1, <1>2, <2>1, <2>3
  <2> QED
    BY <1>1, <1>2, <2>1, <2>3, <2>4
<1>6. CASE LoopBegin \/ LoopEnter \/ LoopWake \/ LoopLock \/ LoopUnlock \/ LoopAgain
  <2>1. UNCHANGED <<acc, since>> /\ place' # "main"
    BY <1>6 DEF LoopBegin, LoopEnter, LoopWake, LoopLock, LoopUnlock, LoopAgain, Exit
  <2> QED
    BY <1>1, <2>1
<1>7. CASE Tick
  BY <1>1, <1>7 DEF Tick
<1> QED
  BY <1>4, <1>5, <1>6, <1>7 DEF LoopStep, LoopSpurious, LoopTimeout

-----------------------------------------------------------------------------
(* The theorems.                                                             *)

IInv == TypeOK /\ WalkInv /\ LifeInv /\ HandleInv /\ Spaced

\* There is neither a loop nor a thread before the first call.
LEMMA InvInit == Init => IInv
<1> SUFFICES ASSUME Init PROVE IInv
  OBVIOUS
<1> USE DEF Init
<1>1. Linked = {} /\ programs \in Seq(Entries) /\ DOMAIN programs = {}
  BY DEF Linked
<1>2. TypeOK
  <2>1. 0 \in 0 .. AccMod - 1 /\ 0 \in 0 .. MaxElapsed /\ AccMod \in 0 .. AccMod
    OBVIOUS
  <2>2. {e \in Entries : entry[e] = "linked"} = {}
    OBVIOUS
  <2> QED
    BY <1>1, <2>1, <2>2 DEF TypeOK
<1>3. WalkInv /\ LifeInv /\ HandleInv
  BY DEF WalkInv, ListHeld, VisitsLinked, LifeInv, LoopStates, ClientPlaces, LeavesWhenDeleted, HandleInv
<1>4. Spaced
  BY DEF Spaced
<1> QED
  BY <1>2, <1>3, <1>4 DEF IInv

\* Every step keeps the invariant.
LEMMA InvStep == IInv /\ [Next]_vars => IInv'
<1> SUFFICES ASSUME IInv, [Next]_vars PROVE IInv'
  OBVIOUS
<1> USE DEF IInv
<1>1. ASSUME NEW c \in Clients, Call(c) \/ ClientStep(c) PROVE IInv'
  BY <1>1, TypeClient, WalkClient, LifeClient, HandleClient, SpacedClient DEF LifeInv
<1>2. CASE LoopStep \/ LoopSpurious \/ Tick
  BY <1>2, TypeThread, WalkThread, LifeThread, HandleThread, SpacedThread
<1>3. CASE UNCHANGED vars
  <2>1. /\ UNCHANGED <<elapsed, since, place, prog, delta, wait, programs, entry, acc, interval>>
        /\ UNCHANGED <<rl, mt, stop, is_running, loops_mt, pc, handle>>
    BY <1>3
  <2>2. TypeOK'
    <3>1. Linked' = Linked
      BY <2>1 DEF Linked
    <3> QED
      BY <2>1, <3>1 DEF TypeOK
  <2>3. WalkInv'
    BY <2>1 DEF WalkInv, ListHeld, VisitsLinked, Linked
  <2>4. LifeInv'
    BY <2>1 DEF LifeInv, LoopStates, ClientPlaces, LeavesWhenDeleted
  <2>5. HandleInv' /\ Spaced'
    BY <2>1 DEF HandleInv, Spaced
  <2> QED
    BY <2>2, <2>3, <2>4, <2>5
<1> QED
  BY <1>1, <1>2, <1>3 DEF Next

\* In every behaviour the invariant holds throughout.
LEMMA InvAlways == Spec => []IInv
BY InvInit, InvStep, PTL DEF Spec

\* The variables have their types; the list that cc_run_loop_register and
\* cc_run_loop_unregister edit holds the linked entries, each once.
THEOREM LoopTypeCorrect == Spec => []TypeOK
<1>1. IInv => TypeOK
  BY DEF IInv
<1> QED
  BY <1>1, InvAlways, PTL

\* The entry that loop_thread visits, or whose ticker it calls, is in the list:
\* no cc_run_loop_unregister frees it meanwhile.
THEOREM CursorStaysLinked == Spec => []VisitsLinked
<1>1. IInv => VisitsLinked
  BY DEF IInv, WalkInv
<1> QED
  BY <1>1, InvAlways, PTL

\* The thread is done with the loop when cc_run_loop_delete frees it, and does
\* not leave before cc_run_loop_delete tells it to.
THEOREM ThreadLivesWithLoop == Spec => []ThreadLife
<1>1. IInv => ThreadLife
  BY DEF IInv, LifeInv, LoopStates, ThreadLife, ThreadInsideLoop
<1> QED
  BY <1>1, InvAlways, PTL

\* loop_thread runs no ticker before the interval of its entry is over.
THEOREM TickersNeverEarly == Spec => []NeverEarly
<1>1. IInv => NeverEarly
  <2> SUFFICES ASSUME IInv, place = "main" PROVE since[prog] >= interval[prog]
    BY DEF NeverEarly
  <2>1. prog \in Entries /\ acc[prog] = 0 /\ acc[prog] + since[prog] >= interval[prog]
    BY DEF IInv, Spaced
  <2>2. since \in [Entries -> 0 .. AccMod]
    BY DEF IInv, TypeOK
  <2> QED
    BY <2>1, <2>2
<1> QED
  BY <1>1, InvAlways, PTL
=============================================================================
