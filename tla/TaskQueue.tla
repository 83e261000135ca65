----------------------------- MODULE TaskQueue -----------------------------
(***************************************************************************)
(* What the thread pool of src/tpool.c promises its users, with no threads, *)
(* locks or condition variables in it: submitted tasks start in the order   *)
(* of their submission, at most NumThreads at a time and each at most once; *)
(* stopping the pool discards what has not started and lets what has        *)
(* started end; a call of ccpool_wait returns at a moment when nothing is   *)
(* pending and nothing is active.  ThreadPool.tla implements it.            *)
(***************************************************************************)
EXTENDS Naturals, Sequences, FiniteSets, Functions

CONSTANTS Tasks,       \* the tasks that may be submitted
          Clients,     \* the threads that use the pool
          NumThreads   \* how many tasks may be active together

VARIABLES open,        \* TRUE while tasks are being started
          pending,     \* submitted and not started, in submission order
          active,      \* the tasks whose function is running
          done,        \* the tasks whose function has returned
          dropped,     \* the tasks that will never start
          waiters      \* the clients inside ccpool_wait

vars == <<open, pending, active, done, dropped, waiters>>

Init == /\ open = FALSE
        /\ pending = <<>>
        /\ active = {}
        /\ done = {}
        /\ dropped = {}
        /\ waiters = {}

Open == /\ ~open
        /\ open' = TRUE
        /\ pending = <<>>
        /\ UNCHANGED <<pending, active, done, dropped, waiters>>

\* A task can be submitted once, and even to a closed queue (a task of the
\* pool may submit another while the pool is being stopped).
Submit(k) == /\ k \notin Range(pending) \cup active \cup done \cup dropped
             /\ pending' = Append(pending, k)
             /\ UNCHANGED <<open, active, done, dropped, waiters>>

Begin == /\ open
         /\ pending # <<>>
         /\ Cardinality(active) < NumThreads
         /\ active' = active \cup {Head(pending)}
         /\ pending' = Tail(pending)
         /\ UNCHANGED <<open, done, dropped, waiters>>

End(k) == /\ k \in active
          /\ active' = active \ {k}
          /\ done' = done \cup {k}
          /\ UNCHANGED <<open, pending, dropped, waiters>>

\* Closing discards what is pending; so does releasing a closed queue.
Discard == /\ open' = FALSE
           /\ dropped' = dropped \cup Range(pending)
           /\ pending' = <<>>
           /\ UNCHANGED <<active, done, waiters>>

WaitCall(c) == /\ waiters' = waiters \cup {c}
               /\ UNCHANGED <<open, pending, active, done, dropped>>

WaitReturn(c) == /\ pending = <<>>
                 /\ active = {}
                 /\ waiters' = waiters \ {c}
                 /\ UNCHANGED <<open, pending, active, done, dropped>>

Next == \/ Open
        \/ Begin
        \/ Discard
        \/ \E k \in Tasks : Submit(k) \/ End(k)
        \/ \E c \in Clients : WaitCall(c) \/ WaitReturn(c)

Spec == Init /\ [][Next]_vars
=============================================================================
