----------------------------- MODULE ThreadPool -----------------------------
(***************************************************************************)
(* The thread pool of src/tpool.c: one pool for the process, its workers,   *)
(* and the client threads that start it, submit tasks, wait for it and stop *)
(* it.                                                                      *)
(*                                                                          *)
(* pool->mt protects every field of the pool and is held only for short     *)
(* sections that never block, so each such section is one action; waiting   *)
(* on pool->cv ("asleep") and on pool->idle_cv ("waiting") ends the section *)
(* and a woken thread starts another that evaluates the loop condition      *)
(* again.  single_mt is held by ccpool_stop while it joins the workers, so  *)
(* its owner is a variable.  The global pointer pool is read without any    *)
(* lock by ccpool_submit and ccpool_wait.                                   *)
(***************************************************************************)
EXTENDS Naturals, Sequences, FiniteSets, Functions

CONSTANTS
  Clients,      \* threads of the program that call the pool's functions
  Waiters,      \* those of them that may call ccpool_wait
  NumThreads,   \* the argument of ccpool_start
  CountMod,     \* range of in_work and thread_count, 256 for a uint8_t
  Tasks,        \* task_t objects, each submitted at most once
  TaskSubmits,  \* TRUE if task functions may call ccpool_submit
  Disciplined,  \* TRUE if clients keep the contract of MayUse and MayStop
  Nobody,       \* no owner of single_mt
  NoTask        \* a null task pointer

Workers == 1 .. NumThreads
Threads == Clients \cup Workers

ASSUME ConstantsAssumption ==
  /\ NumThreads \in Nat \ {0}
  /\ CountMod \in Nat \ {0, 1}
  /\ Waiters \subseteq Clients
  /\ Clients \cap Workers = {}
  /\ Nobody \notin Clients
  /\ NoTask \notin Tasks
  /\ TaskSubmits \in BOOLEAN
  /\ Disciplined \in BOOLEAN

VARIABLES
  pool,       \* the global pointer: "null", "raw" (published, not filled in), "live"
  single_mt,  \* the thread that holds single_mt
  tasks,      \* pool->tasks, oldest first
  stop,       \* pool->stop
  in_work,    \* pool->in_work
  pc,         \* where each thread is
  task,       \* the local variable task of each worker
  arg,        \* the task_t that a thread inside ccpool_submit has allocated
  state       \* what has happened to each task_t

vars == <<pool, single_mt, tasks, stop, in_work, pc, task, arg, state>>

\* Fault: the last worker is not counted.
thread_count_less == (NumThreads % CountMod) - 1

\* thread_count is a uint8_t: num_threads is truncated when it is stored.
thread_count == NumThreads % CountMod

Asleep  == {w \in Workers : pc[w] = "asleep"}    \* blocked on pool->cv
Waiting == {c \in Clients : pc[c] = "waiting"}   \* blocked on pool->idle_cv

\* Where a call returns to: a task function goes on in its worker.
Caller(t) == IF t \in Workers THEN "run" ELSE "idle"

Goto(t, l) == pc' = [pc EXCEPT ![t] = l]

\* Fault: nobody wakes up.
SignalNobody(t, l, sleepers, retest) == Goto(t, l)

\* pthread_cond_signal: t goes on at l, and one sleeper, if there is one,
\* wakes up at retest.
SignalOne(t, l, sleepers, retest) ==
  \/ sleepers = {} /\ Goto(t, l)
  \/ \E s \in sleepers : pc' = [pc EXCEPT ![t] = l, ![s] = retest]

\* pthread_cond_broadcast.
SignalAll(t, l, sleepers, retest) ==
  pc' = [u \in Threads |-> IF u = t THEN l ELSE IF u \in sleepers THEN retest ELSE pc[u]]

-----------------------------------------------------------------------------
(* The calls that clients make.  The code has no say in when: the contract  *)
(* is that a client uses the pool while it is live and nobody is stopping   *)
(* it, and stops it while no other client is inside ccpool_submit or        *)
(* ccpool_wait.  Undisciplined clients only pass the assertions.            *)

MayUse ==
  IF Disciplined
  THEN pool = "live" /\ \A c \in Clients : pc[c] \notin {"stop", "join"}
  ELSE pool # "null"

MayStop ==
  Disciplined => \A c \in Clients : pc[c] \notin {"submit", "wait", "waiting"}

CallStart(c) == /\ pc[c] = "idle"
                /\ Goto(c, "start")
                /\ UNCHANGED <<pool, single_mt, tasks, stop, in_work, task, arg, state>>

CallStop(c) == /\ pc[c] = "idle"
               /\ MayStop
               /\ Goto(c, "stop")
               /\ UNCHANGED <<pool, single_mt, tasks, stop, in_work, task, arg, state>>

\* ccpool_submit up to the lock: the assertion on pool and the allocation.
CallSubmit(t, k) ==
  /\ \/ t \in Clients /\ pc[t] = "idle" /\ MayUse
     \/ t \in Workers /\ pc[t] = "run" /\ TaskSubmits /\ pool # "null"
  /\ state[k] = "new"
  /\ state' = [state EXCEPT ![k] = "allocated"]
  /\ arg' = [arg EXCEPT ![t] = k]
  /\ Goto(t, "submit")
  /\ UNCHANGED <<pool, single_mt, tasks, stop, in_work, task>>

CallWait(c) == /\ pc[c] = "idle"
               /\ c \in Waiters
               /\ MayUse
               /\ Goto(c, "wait")
               /\ UNCHANGED <<pool, single_mt, tasks, stop, in_work, task, arg, state>>

-----------------------------------------------------------------------------
(* ccpool_start *)

\* Allocates the pool: the global points to it before it is filled in.
StartAlloc(c) == /\ pc[c] = "start"
                 /\ single_mt = Nobody
                 /\ pool = "null"
                 /\ single_mt' = c
                 /\ pool' = "raw"
                 /\ Goto(c, "create")
                 /\ UNCHANGED <<tasks, stop, in_work, task, arg, state>>

StartAgain(c) == /\ pc[c] = "start"
                 /\ single_mt = Nobody
                 /\ pool # "null"
                 /\ Goto(c, "idle")
                 /\ UNCHANGED <<pool, single_mt, tasks, stop, in_work, task, arg, state>>

\* Fills in the fields and creates the workers, which enter their loop.
StartCreate(c) ==
  /\ pc[c] = "create"
  /\ pool' = "live"
  /\ stop' = FALSE
  /\ in_work' = 0
  /\ tasks' = <<>>
  /\ pc' = [t \in Threads |-> IF t = c THEN "idle"
                              ELSE IF t \in Workers THEN "check" ELSE pc[t]]
  /\ single_mt' = Nobody
  /\ UNCHANGED <<task, arg, state>>

-----------------------------------------------------------------------------
(* ccpool_stop *)

StopNoPool(c) == /\ pc[c] = "stop"
                 /\ single_mt = Nobody
                 /\ pool = "null"
                 /\ Goto(c, "idle")
                 /\ UNCHANGED <<pool, single_mt, tasks, stop, in_work, task, arg, state>>

\* Empties the queue; that is what becomes of the tasks in it.
Discard(fate) ==
  /\ state' = [k \in Tasks |-> IF k \in Range(tasks) THEN fate ELSE state[k]]
  /\ tasks' = <<>>

\* Fault: the queue is not cleared.
ClearTasksNot == UNCHANGED <<tasks, state>>

\* cclist_clear, with the destructor that frees a task.
ClearTasks == Discard("dropped")

\* Sets the flag, frees the queued tasks and wakes every sleeping worker.
StopBroadcast(c) ==
  /\ pc[c] = "stop"
  /\ single_mt = Nobody
  /\ pool = "live"
  /\ single_mt' = c
  /\ stop' = TRUE
  /\ ClearTasks
  /\ SignalAll(c, "join", Asleep, "check")
  /\ UNCHANGED <<pool, in_work, task, arg>>

\* All workers joined, frees the pool and clears the pointer.  What the queue
\* holds by then is not freed: the memory is lost.
StopFree(c) ==
  /\ pc[c] = "join"
  /\ \A w \in 1 .. thread_count : pc[w] = "exited"
  /\ pool' = "null"
  /\ Discard("lost")
  /\ single_mt' = Nobody
  /\ Goto(c, "idle")
  /\ UNCHANGED <<stop, in_work, task, arg>>

-----------------------------------------------------------------------------
(* ccpool_submit *)

\* Fault: the workers are signalled only when the queue was empty.
SignalWorkerIfEmpty(t) ==
  IF tasks = <<>> THEN SignalOne(t, Caller(t), Asleep, "check") ELSE Goto(t, Caller(t))

\* Fault: the condition that is signalled is idle_cv.
SignalWorkerWrongCv(t) == SignalOne(t, Caller(t), Waiting, "wait")

SignalWorker(t) == SignalOne(t, Caller(t), Asleep, "check")

SubmitInsert(t) ==
  /\ pc[t] = "submit"
  /\ pool = "live"
  /\ tasks' = Append(tasks, arg[t])
  /\ state' = [state EXCEPT ![arg[t]] = IF stop THEN "late" ELSE "queued"]
  /\ arg' = [arg EXCEPT ![t] = NoTask]
  /\ SignalWorker(t)
  /\ UNCHANGED <<pool, single_mt, stop, in_work, task>>

\* The pool that the assertion saw is gone, or not filled in yet: undefined.
SubmitFault(t) == /\ pc[t] = "submit"
                  /\ pool # "live"
                  /\ Goto(t, "fault")
                  /\ UNCHANGED <<pool, single_mt, tasks, stop, in_work, task, arg, state>>

-----------------------------------------------------------------------------
(* ccpool_wait *)

WaitSleep(c) == /\ pc[c] = "wait"
                /\ pool = "live"
                /\ in_work # 0 \/ tasks # <<>>
                /\ Goto(c, "waiting")
                /\ UNCHANGED <<pool, single_mt, tasks, stop, in_work, task, arg, state>>

WaitReturn(c) == /\ pc[c] = "wait"
                 /\ pool = "live"
                 /\ in_work = 0
                 /\ tasks = <<>>
                 /\ Goto(c, "idle")
                 /\ UNCHANGED <<pool, single_mt, tasks, stop, in_work, task, arg, state>>

WaitFault(c) == /\ pc[c] = "wait"
                /\ pool # "live"
                /\ Goto(c, "fault")
                /\ UNCHANGED <<pool, single_mt, tasks, stop, in_work, task, arg, state>>

-----------------------------------------------------------------------------
(* pool_worker *)

WorkerSleep(w) == /\ pc[w] = "check"
                  /\ ~stop
                  /\ tasks = <<>>
                  /\ Goto(w, "asleep")
                  /\ UNCHANGED <<pool, single_mt, tasks, stop, in_work, task, arg, state>>

WorkerExit(w) == /\ pc[w] = "check"
                 /\ stop
                 /\ Goto(w, "exited")
                 /\ UNCHANGED <<pool, single_mt, tasks, stop, in_work, task, arg, state>>

\* Fault: cclist_first without cclist_remove_first.
WithoutFirstNot(queue) == queue

WithoutFirst(queue) == Tail(queue)

\* The section of pool_worker from its wait on.
TakeTask(w) ==
  /\ task' = [task EXCEPT ![w] = Head(tasks)]
  /\ state' = [state EXCEPT ![Head(tasks)] = "taken"]
  /\ tasks' = WithoutFirst(tasks)
  /\ in_work' = (in_work + 1) % CountMod
  /\ Goto(w, "run")
  /\ UNCHANGED <<pool, single_mt, stop, arg>>

\* Fault: an if where the wait for a task needs a while.
WorkerTakeIf(w) ==
  /\ pc[w] = "check"
  /\ ~stop
  /\ IF tasks # <<>> THEN TakeTask(w)
     ELSE Goto(w, "run") /\ UNCHANGED <<pool, single_mt, tasks, stop, in_work, task, arg, state>>

\* Fault: the queue is looked at before the flag.
WorkerTakeStopped(w) == pc[w] = "check" /\ tasks # <<>> /\ TakeTask(w)

WorkerTake(w) == pc[w] = "check" /\ ~stop /\ tasks # <<>> /\ TakeTask(w)

\* The task function returns and the worker frees the task.
TaskReturn(w) == /\ pc[w] = "run"
                 /\ state' = [state EXCEPT ![task[w]] = "done"]
                 /\ Goto(w, "finish")
                 /\ UNCHANGED <<pool, single_mt, tasks, stop, in_work, task, arg>>

\* Fault: in_work is not decremented when the pool is being stopped.
one_less_running == IF stop THEN in_work ELSE (in_work + CountMod - 1) % CountMod

one_less == (in_work + CountMod - 1) % CountMod

WorkerFinish(w) ==
  /\ pc[w] = "finish"
  /\ in_work' = one_less
  /\ task' = [task EXCEPT ![w] = NoTask]
  /\ SignalOne(w, "check", Waiting, "wait")
  /\ UNCHANGED <<pool, single_mt, tasks, stop, arg, state>>

-----------------------------------------------------------------------------
\* POSIX lets a condition variable wake a thread that nobody signalled.
SpuriousWakeup(t) ==
  /\ \/ pc[t] = "asleep" /\ Goto(t, "check")
     \/ pc[t] = "waiting" /\ Goto(t, "wait")
  /\ UNCHANGED <<pool, single_mt, tasks, stop, in_work, task, arg, state>>

Init ==
  /\ pool = "null"
  /\ single_mt = Nobody
  /\ tasks = <<>>
  /\ stop = FALSE
  /\ in_work = 0
  /\ pc = [t \in Threads |-> IF t \in Workers THEN "exited" ELSE "idle"]
  /\ task = [w \in Workers |-> NoTask]
  /\ arg = [t \in Threads |-> NoTask]
  /\ state = [k \in Tasks |-> "new"]

ClientStep(c) == \/ StartAlloc(c) \/ StartAgain(c) \/ StartCreate(c)
                 \/ StopNoPool(c) \/ StopBroadcast(c) \/ StopFree(c)
                 \/ WaitSleep(c) \/ WaitReturn(c) \/ WaitFault(c)

WorkerStep(w) == \/ WorkerSleep(w) \/ WorkerExit(w) \/ WorkerTake(w)
                 \/ TaskReturn(w) \/ WorkerFinish(w)

SubmitStep(t) == SubmitInsert(t) \/ SubmitFault(t)

Call == \/ \E c \in Clients : CallStart(c) \/ CallStop(c) \/ CallWait(c)
        \/ \E t \in Threads, k \in Tasks : CallSubmit(t, k)

Next == \/ Call
        \/ \E c \in Clients : ClientStep(c)
        \/ \E w \in Workers : WorkerStep(w)
        \/ \E t \in Threads : SubmitStep(t) \/ SpuriousWakeup(t)

Spec == Init /\ [][Next]_vars

\* Threads that can run are scheduled and task functions return.  Nothing
\* makes a client call, a task submit, or a sleeper wake up by itself.
Fairness == /\ \A c \in Clients : WF_vars(ClientStep(c))
            /\ \A w \in Workers : WF_vars(WorkerStep(w))
            /\ \A t \in Threads : WF_vars(SubmitStep(t))

FairSpec == Spec /\ Fairness

-----------------------------------------------------------------------------
(* Safety *)

States == {"new", "allocated", "queued", "late", "taken", "done", "dropped", "lost"}

ClientPlaces == {"idle", "start", "create", "stop", "join", "submit", "wait",
                 "waiting", "fault"}
WorkerPlaces == {"exited", "check", "asleep", "run", "submit", "finish", "fault"}

\* Workers that have taken a task and not yet accounted for its end.
Busy == {w \in Workers : pc[w] \in {"run", "submit", "finish", "fault"}}

\* The types of the variables, the local ones as far as they are in use: in
\* particular the task that CCASSERT(task) of pool_worker looks at is there.
TypeOK ==
  /\ pool \in {"null", "raw", "live"}
  /\ single_mt \in Clients \cup {Nobody}
  /\ tasks \in Seq(Tasks)
  /\ stop \in BOOLEAN
  /\ in_work \in 0 .. CountMod - 1
  /\ pc \in [Threads -> ClientPlaces \cup WorkerPlaces]
  /\ \A c \in Clients : pc[c] \in ClientPlaces
  /\ \A w \in Workers : pc[w] \in WorkerPlaces
  /\ task \in [Workers -> Tasks \cup {NoTask}]
  /\ arg \in [Threads -> Tasks \cup {NoTask}]
  /\ \A w \in Busy : task[w] # NoTask
  /\ \A t \in Threads : pc[t] = "submit" => arg[t] # NoTask
  /\ state \in [Tasks -> States]

\* A worker that has not exited, whatever the clients do, has a live pool
\* under it: ccpool_stop joins every worker before it frees the pool.
WorkersInsidePool ==
  \A w \in Workers : pc[w] # "exited" => pool = "live"

\* No disciplined client, and no task that submits another while the pool is
\* being stopped, uses a pool that is missing or not filled in: the pool it
\* saw in CCASSERT(pool) is still there at its lock, wait and unlock.
ClientsInsidePool ==
  \A t \in Threads : pc[t] # "fault" /\ (pc[t] \in {"submit", "wait", "waiting"} => pool = "live")

\* in_work, kept in two critical sections of pool_worker with the task
\* function between them, counts the workers that are between the two.
InWorkCounts == pool = "live" => in_work = Cardinality(Busy)

\* A task_t is in one place: in the queue once, or in the hands of the one
\* worker that runs it, so that it is run and freed by one thread.
Running == {w \in Workers : pc[w] \in {"run", "submit"}}

TaskOwnedOnce ==
  /\ \A i, j \in DOMAIN tasks : tasks[i] = tasks[j] => i = j
  /\ \A v, w \in Running : task[v] = task[w] => v = w
  /\ \A w \in Running : task[w] \notin Range(tasks)

\* No worker sleeps while there are more tasks in the queue than workers about
\* to look at it: the signal of each ccpool_submit is never lost or stolen to
\* the point that a task waits for a busy worker next to a sleeping one.
Looking == {w \in Workers : pc[w] = "check"}

WorkConserving == Asleep # {} => Len(tasks) <= Cardinality(Looking)

\* A client asleep in ccpool_wait has something to wait for: a worker that will
\* signal idle_cv is still to come.  It takes that at most one client waits:
\* pthread_cond_signal wakes one, and nothing is signalled after the last task.
NoStrandedWaiter == Waiting # {} => in_work # 0 \/ tasks # <<>>

\* The memory of a task is lost only if the task was submitted after
\* ccpool_stop had cleared the queue.
OnlyLateLost ==
  [][\A k \in Tasks : state'[k] = "lost" => state[k] \in {"late", "lost"}]_vars

-----------------------------------------------------------------------------
(* Refinement: the pool is a TaskQueue *)

Queue == INSTANCE TaskQueue WITH
  open    <- pool = "live" /\ ~stop,
  pending <- tasks,
  active  <- {task[w] : w \in Running},
  done    <- {k \in Tasks : state[k] = "done"},
  dropped <- {k \in Tasks : state[k] \in {"dropped", "lost"}},
  waiters <- {c \in Clients : pc[c] \in {"wait", "waiting"}}

ImplementsTaskQueue == Queue!Spec

-----------------------------------------------------------------------------
(* Liveness *)

\* Every task that gets into the queue before the pool is stopped is run, or
\* discarded by ccpool_stop.
QueuedTaskSettles ==
  \A k \in Tasks : state[k] = "queued" ~> state[k] \in {"done", "dropped"}

\* ccpool_wait returns once no more tasks are submitted (Tasks is finite).
WaitReturns == \A c \in Waiters : pc[c] = "wait" ~> pc[c] = "idle"

\* ccpool_stop, once it has set the flag, joins every worker and returns.
StopReturns == \A c \in Clients : pc[c] = "join" ~> pc[c] = "idle"
=============================================================================
