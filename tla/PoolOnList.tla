----------------------------- MODULE PoolOnList -----------------------------
(***************************************************************************)
(* The thread pool with its queue as it is in memory: pool->tasks is the    *)
(* ring of src/list.c, its nodes inside the task_t objects.                 *)
(*                                                                          *)
(* Each section of ThreadPool.tla that touches the queue makes the calls of *)
(* LinkedList.tla that the code makes.  cclist_clear calls a destructor for *)
(* each task, so that ccpool_stop takes several steps with pool->mt in its  *)
(* hands, between which the other threads go on as far as they can.         *)
(* Disciplined clients and their tasks never come to SubmitFault and        *)
(* WaitFault (ClientsInsidePool), which have no counterpart here.           *)
(***************************************************************************)
EXTENDS ThreadPool

CONSTANT ListHead   \* &pool->tasks.head

ASSUME ListHeadAssumption == ListHead \notin Tasks \cup {NoTask}

VARIABLES
  next, prev, size, members, item, cur, aborted,   \* pool->tasks, as in LinkedList
  mt   \* the client that holds pool->mt in its clear

ring == <<next, prev, size, members, item, cur, aborted>>
poolVars == <<vars, ring, mt>>

List == INSTANCE LinkedList WITH Objects <- Tasks, Null <- NoTask, Asserts <- FALSE

Locked(section) == mt = Nobody /\ section /\ UNCHANGED mt

-----------------------------------------------------------------------------
\* cclist_init, on the memory of the new pool.
PoolCreate(c) == /\ StartCreate(c)
                 /\ next' = List!EmptyRing
                 /\ prev' = List!EmptyRing
                 /\ size' = 0
                 /\ members' = {}
                 /\ UNCHANGED <<item, cur, aborted, mt>>

PoolInsert(t) == Locked(SubmitInsert(t) /\ List!InsertLast(arg[t]))

PoolTake(w) == Locked(WorkerTake(w) /\ List!RemoveFirst)

\* Takes pool->mt and begins to clear the queue.
StopClear(c) == /\ pc[c] = "stop"
                /\ single_mt = Nobody
                /\ pool = "live"
                /\ mt = Nobody
                /\ mt' = c
                /\ List!ClearBegin
                /\ UNCHANGED vars

StopDestroy(c) == mt = c /\ List!ClearStep /\ UNCHANGED <<vars, mt>>

\* The queue empty, wakes the workers and releases pool->mt.
StopCleared(c) == /\ mt = c
                  /\ List!ClearEnd
                  /\ StopBroadcast(c)
                  /\ mt' = Nobody

\* The sections that do not change the queue.  single_mt is held by the client
\* that clears it, and StopFree comes after.
ClientSection(c) ==
  /\ Locked(\/ StartAlloc(c) \/ StartAgain(c) \/ StopNoPool(c) \/ StopFree(c)
            \/ WaitSleep(c) \/ WaitReturn(c))
  /\ UNCHANGED ring

WorkerSection(w) == Locked(WorkerSleep(w) \/ WorkerExit(w) \/ WorkerFinish(w)) /\ UNCHANGED ring

\* What needs no lock.
Unlocked == /\ \/ Call
               \/ \E w \in Workers : TaskReturn(w)
               \/ \E t \in Threads : SpuriousWakeup(t)
            /\ UNCHANGED <<ring, mt>>

-----------------------------------------------------------------------------
PoolInit == /\ Init
            /\ List!Init
            /\ mt = Nobody

PoolClient(c) == \/ ClientSection(c) \/ PoolCreate(c)
                 \/ StopClear(c) \/ StopDestroy(c) \/ StopCleared(c)

PoolWorker(w) == WorkerSection(w) \/ PoolTake(w)

PoolNext == \/ \E c \in Clients : PoolClient(c)
            \/ \E w \in Workers : PoolWorker(w)
            \/ \E t \in Threads : PoolInsert(t)
            \/ Unlocked

\* As in ThreadPool: the threads are scheduled and task functions return.
PoolSpec ==
  /\ PoolInit
  /\ [][PoolNext]_poolVars
  /\ \A c \in Clients : WF_poolVars(PoolClient(c))
  /\ \A w \in Workers : /\ WF_poolVars(PoolWorker(w))
                        /\ WF_poolVars(TaskReturn(w) /\ UNCHANGED <<ring, mt>>)
  /\ \A t \in Threads : WF_poolVars(PoolInsert(t))

-----------------------------------------------------------------------------
\* The nodes of the ring in the order of the queue; ListHead is before and behind.
Node(i) == IF i \in DOMAIN tasks THEN tasks[i] ELSE ListHead

\* Whenever pool->mt is free, the links of the ring lead through the submissions
\* in their order and back, its size, on which workers and waiters sleep, is
\* their number, and every node in it is a task that nobody has freed.
QueueOnRing ==
  pool = "live" /\ mt = Nobody =>
    /\ \A i \in 0 .. Len(tasks) : next[Node(i)] = Node(i + 1) /\ prev[Node(i + 1)] = Node(i)
    /\ size = Len(tasks)
    /\ \A i \in DOMAIN tasks : state[tasks[i]] \in {"queued", "late"}
=============================================================================
