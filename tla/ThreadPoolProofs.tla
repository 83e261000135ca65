-------------------------- MODULE ThreadPoolProofs --------------------------
(***************************************************************************)
(* Proofs about ThreadPool, for any number of clients, workers and tasks:   *)
(* the locks and counts, who owns a task, and that the pool is a queue.     *)
(***************************************************************************)
EXTENDS ThreadPool, FiniteSetTheorems, TLAPS

-----------------------------------------------------------------------------
(* pthread_cond_signal *)

\* Where a thread may be.
Places == ClientPlaces \cup WorkerPlaces

\* Besides the thread that signals, a signal moves at most one of the sleepers.
LEMMA WakesOne ==
  ASSUME pc \in [Threads -> Places], NEW t \in Threads, NEW l \in Places,
         NEW S, S \subseteq Threads, t \notin S, NEW r \in Places, SignalOne(t, l, S, r)
  PROVE  /\ pc' \in [Threads -> Places]
         /\ pc'[t] = l
         /\ \A u \in Threads : u # t => pc'[u] = pc[u] \/ (u \in S /\ pc'[u] = r)
<1>1. CASE Goto(t, l)
  BY <1>1 DEF Goto
<1>2. ASSUME NEW s \in S, pc' = [pc EXCEPT ![t] = l, ![s] = r]
      PROVE  /\ pc' \in [Threads -> Places]
             /\ pc'[t] = l
             /\ \A u \in Threads : u # t => pc'[u] = pc[u] \/ (u \in S /\ pc'[u] = r)
  BY <1>2
<1> QED
  BY <1>1, <1>2 DEF SignalOne

-----------------------------------------------------------------------------
USE ConstantsAssumption

\* The parts that sections are put together from are expanded everywhere.
USE DEF SignalWorker, TakeTask, WithoutFirst, one_less, ClearTasks, Discard, SignalAll

-----------------------------------------------------------------------------
(* Types *)

\* A process that has not called the pool yet is well typed.
LEMMA InitType == Init => TypeOK
<1> SUFFICES ASSUME Init PROVE TypeOK
  OBVIOUS
<1> USE DEF Init
<1>1. tasks \in Seq(Tasks) /\ in_work \in 0 .. CountMod - 1
  OBVIOUS
<1>2. \A c \in Clients : pc[c] = "idle"
  BY DEF Threads
<1>3. \A w \in Workers : pc[w] = "exited"
  BY DEF Threads
<1>4. \A t \in Threads : pc[t] \in {"idle", "exited"}
  BY <1>2, <1>3 DEF Threads
<1>5. pc \in [Threads -> ClientPlaces \cup WorkerPlaces]
  BY <1>4 DEF ClientPlaces, WorkerPlaces
<1>6. task \in [Workers -> Tasks \cup {NoTask}] /\ arg \in [Threads -> Tasks \cup {NoTask}]
  OBVIOUS
<1>7. state \in [Tasks -> States]
  BY DEF States
<1> QED
  BY <1>1, <1>2, <1>3, <1>4, <1>5, <1>6, <1>7 DEF TypeOK, ClientPlaces, WorkerPlaces, Busy

\* The entries of the four calls keep the types.
LEMMA CallType == TypeOK /\ Call => TypeOK'
<1> SUFFICES ASSUME TypeOK, Call PROVE TypeOK'
  OBVIOUS
<1> USE DEF TypeOK, Threads, ClientPlaces, WorkerPlaces, States, Busy, Goto
<1>1. ASSUME NEW c \in Clients, CallStart(c) PROVE TypeOK'
  BY <1>1 DEF CallStart
<1>2. ASSUME NEW c \in Clients, CallStop(c) PROVE TypeOK'
  BY <1>2 DEF CallStop
<1>3. ASSUME NEW c \in Clients, CallWait(c) PROVE TypeOK'
  BY <1>3 DEF CallWait
<1>4. ASSUME NEW t \in Threads, NEW k \in Tasks, CallSubmit(t, k) PROVE TypeOK'
  BY <1>4 DEF CallSubmit
<1> QED
  BY <1>1, <1>2, <1>3, <1>4 DEF Call

\* The sections of ccpool_start, ccpool_stop and ccpool_wait keep the types.
LEMMA ClientType == ASSUME TypeOK, NEW c \in Clients, ClientStep(c) PROVE TypeOK'
<1> USE DEF TypeOK, Threads, ClientPlaces, WorkerPlaces, States, Busy, Goto
<1>1. CASE StartAlloc(c)
  BY <1>1 DEF StartAlloc
<1>2. CASE StartAgain(c)
  BY <1>2 DEF StartAgain
<1>3. CASE StartCreate(c)
  <2> USE <1>3 DEF StartCreate
  <2>1. tasks' \in Seq(Tasks) /\ in_work' \in 0 .. CountMod - 1
    OBVIOUS
  <2>2. \A d \in Clients : pc'[d] = IF d = c THEN "idle" ELSE pc[d]
    OBVIOUS
  <2>3. \A w \in Workers : pc'[w] = "check"
    OBVIOUS
  <2>4. pc' \in [Threads -> ClientPlaces \cup WorkerPlaces]
    OBVIOUS
  <2> QED
    BY <2>1, <2>2, <2>3, <2>4
<1>4. CASE StopNoPool(c)
  BY <1>4 DEF StopNoPool
<1>5. CASE StopBroadcast(c)
  BY <1>5 DEF StopBroadcast, Asleep
<1>6. CASE StopFree(c)
  BY <1>6 DEF StopFree
<1>7. CASE WaitSleep(c)
  BY <1>7 DEF WaitSleep
<1>8. CASE WaitReturn(c)
  BY <1>8 DEF WaitReturn
<1>9. CASE WaitFault(c)
  BY <1>9 DEF WaitFault
<1> QED
  BY <1>1, <1>2, <1>3, <1>4, <1>5, <1>6, <1>7, <1>8, <1>9 DEF ClientStep

\* The sections of pool_worker keep the types.
LEMMA WorkerType == ASSUME TypeOK, NEW w \in Workers, WorkerStep(w) PROVE TypeOK'
<1> USE DEF TypeOK, Threads, ClientPlaces, WorkerPlaces, States, Busy, Goto
<1>1. CASE WorkerSleep(w)
  BY <1>1 DEF WorkerSleep
<1>2. CASE WorkerExit(w)
  BY <1>2 DEF WorkerExit
<1>3. CASE WorkerTake(w)
  BY <1>3 DEF WorkerTake
<1>4. CASE TaskReturn(w)
  BY <1>4 DEF TaskReturn
<1>5. CASE WorkerFinish(w)
  <2> USE <1>5 DEF WorkerFinish
  <2>1. in_work' \in 0 .. CountMod - 1
    OBVIOUS
  <2>2. task' \in [Workers -> Tasks \cup {NoTask}] /\ \A v \in Workers : v # w => task'[v] = task[v]
    OBVIOUS
  <2>3. /\ pc' \in [Threads -> ClientPlaces \cup WorkerPlaces]
        /\ pc'[w] = "check"
        /\ \A u \in Threads : u # w => pc'[u] = pc[u] \/ (u \in Waiting /\ pc'[u] = "wait")
    <3>1. w \in Threads /\ Waiting \subseteq Threads /\ w \notin Waiting
      BY DEF Waiting
    <3>2. "check" \in Places /\ "wait" \in Places
      BY DEF Places
    <3>3. pc \in [Threads -> Places] /\ SignalOne(w, "check", Waiting, "wait")
      BY DEF Places
    <3> HIDE DEF TypeOK, Threads, ClientPlaces, WorkerPlaces, Goto, WorkerFinish
    <3>4. /\ pc' \in [Threads -> Places]
          /\ pc'[w] = "check"
          /\ \A u \in Threads : u # w => pc'[u] = pc[u] \/ (u \in Waiting /\ pc'[u] = "wait")
      BY <3>1, <3>2, <3>3, WakesOne
    <3> QED
      BY <3>4 DEF Places
  <2>4. \A c \in Clients : pc'[c] \in ClientPlaces
    BY <2>3
  <2>5. \A v \in Workers : v # w => pc'[v] = pc[v]
    BY <2>3 DEF Waiting
  <2>6. \A v \in Workers : pc'[v] \in WorkerPlaces
    BY <2>3, <2>5
  <2>7. \A v \in Busy' : v # w /\ v \in Busy
    BY <2>3, <2>5
  <2>8. \A t \in Threads : pc'[t] = "submit" => pc[t] = "submit"
    BY <2>3
  <2> QED
    BY <2>1, <2>2, <2>3, <2>4, <2>6, <2>7, <2>8
<1> QED
  BY <1>1, <1>2, <1>3, <1>4, <1>5 DEF WorkerStep

\* ccpool_submit, of a client or of a running task, keeps the types.
LEMMA SubmitType ==
  ASSUME TypeOK, NEW t \in Threads, SubmitStep(t) \/ SpuriousWakeup(t) PROVE TypeOK'
<1> USE DEF TypeOK, Threads, ClientPlaces, WorkerPlaces, States, Busy, Goto
<1>1. CASE SubmitInsert(t)
  <2> USE <1>1 DEF SubmitInsert
  <2>1. arg[t] \in Tasks
    OBVIOUS
  <2>2. tasks' \in Seq(Tasks) /\ state' \in [Tasks -> States]
    BY <2>1
  <2>3. /\ pc' \in [Threads -> ClientPlaces \cup WorkerPlaces]
        /\ pc'[t] = Caller(t)
        /\ \A u \in Threads : \/ u = t
                              \/ pc'[u] = pc[u]
                              \/ u \in Asleep /\ pc'[u] = "check"
    BY DEF SignalOne, Asleep, Caller
  <2>4. pc'[t] # "submit" /\ arg'[t] = NoTask /\ \A u \in Threads : u # t => arg'[u] = arg[u]
    BY <2>3 DEF Caller
  <2>5. \A c \in Clients : pc'[c] \in ClientPlaces
    BY <2>3 DEF Caller, Asleep
  <2>6. \A w \in Workers : pc'[w] \in WorkerPlaces
    BY <2>3 DEF Caller
  <2>7. \A w \in Busy' : w \in Busy
    BY <2>3 DEF Caller
  <2> QED
    BY <2>2, <2>3, <2>4, <2>5, <2>6, <2>7
<1>2. CASE SubmitFault(t)
  BY <1>2 DEF SubmitFault
<1>3. CASE SpuriousWakeup(t)
  BY <1>3 DEF SpuriousWakeup
<1> QED
  BY <1>1, <1>2, <1>3 DEF SubmitStep

\* Every variable keeps its type and the locals in use are set: pool_worker never
\* runs a null task (CCASSERT(task)) and ccpool_submit never inserts one.
THEOREM TypeCorrect == Spec => []TypeOK
<1>1. TypeOK /\ UNCHANGED vars => TypeOK'
  BY DEF TypeOK, vars, Busy
<1>2. TypeOK /\ [Next]_vars => TypeOK'
  BY <1>1, CallType, ClientType, WorkerType, SubmitType DEF Next
<1> QED
  BY InitType, <1>2, PTL DEF Spec
-----------------------------------------------------------------------------
(* The workers and the life of the pool *)

\* The number of workers fits the uint8_t that thread_count and in_work are.
FitsCounter == NumThreads < CountMod

\* Each step keeps every worker that has not exited inside a live pool.
LEMMA InsideStep ==
  ASSUME FitsCounter, TypeOK, WorkersInsidePool, [Next]_vars PROVE WorkersInsidePool'
<1> USE DEF WorkersInsidePool, TypeOK, Threads, Goto
<1>1. ASSUME UNCHANGED vars PROVE WorkersInsidePool'
  BY <1>1 DEF vars
<1>2. CASE Call
  BY <1>2 DEF Call, CallStart, CallStop, CallWait, CallSubmit
<1>3. ASSUME NEW c \in Clients, ClientStep(c) PROVE WorkersInsidePool'
  <2>1. CASE StartAlloc(c)
    BY <2>1 DEF StartAlloc
  <2>2. CASE StartCreate(c)
    BY <2>2 DEF StartCreate
  <2>3. CASE StopBroadcast(c)
    BY <2>3 DEF StopBroadcast
  <2>4. CASE StopFree(c)
    <3>1. thread_count = NumThreads
      BY DEF FitsCounter, thread_count
    <3>2. \A w \in Workers : pc'[w] = "exited"
      BY <2>4, <3>1 DEF StopFree, Workers
    <3> QED
      BY <3>2
  <2>5. CASE StartAgain(c) \/ StopNoPool(c) \/ WaitSleep(c) \/ WaitReturn(c) \/ WaitFault(c)
    BY <2>5 DEF StartAgain, StopNoPool, WaitSleep, WaitReturn, WaitFault
  <2> QED
    BY <1>3, <2>1, <2>2, <2>3, <2>4, <2>5 DEF ClientStep
<1>4. ASSUME NEW w \in Workers, WorkerStep(w) PROVE WorkersInsidePool'
  BY <1>4 DEF WorkerStep, WorkerSleep, WorkerExit, WorkerTake, TaskReturn, WorkerFinish,
              SignalOne, Waiting
<1>5. ASSUME NEW t \in Threads, SubmitStep(t) \/ SpuriousWakeup(t) PROVE WorkersInsidePool'
  BY <1>5 DEF SubmitStep, SubmitInsert, SubmitFault, SpuriousWakeup, SignalOne, Asleep
<1> QED
  BY <1>1, <1>2, <1>3, <1>4, <1>5 DEF Next

\* ccpool_stop frees no pool that a worker is still using, whatever the clients
\* do, if the number of workers fits thread_count.
THEOREM WorkersStayInside == ASSUME FitsCounter PROVE Spec => []WorkersInsidePool
<1>1. Init => WorkersInsidePool
  BY DEF Init, WorkersInsidePool, Threads
<1>2. TypeOK /\ WorkersInsidePool /\ [Next]_vars => WorkersInsidePool'
  BY InsideStep
<1> QED
  BY <1>1, <1>2, TypeCorrect, PTL DEF Spec

-----------------------------------------------------------------------------
(* in_work *)

\* There are NumThreads workers.
LEMMA WorkersFinite ==
  /\ IsFiniteSet(Workers)
  /\ Cardinality(Workers) = NumThreads
  BY FS_Interval DEF Workers

\* A set of workers is finite and no larger than that.
LEMMA WorkerCount ==
  ASSUME NEW S, S \subseteq Workers
  PROVE  IsFiniteSet(S) /\ Cardinality(S) \in Nat /\ Cardinality(S) <= NumThreads
  BY WorkersFinite, FS_Subset, FS_CardinalityType

\* Below its range the counter neither wraps nor underflows.
LEMMA CountUp == ASSUME NEW n \in Nat, n + 1 < CountMod PROVE (n + 1) % CountMod = n + 1
  OBVIOUS

LEMMA CountDown ==
  ASSUME NEW n \in 1 .. CountMod - 1 PROVE (n + CountMod - 1) % CountMod = n - 1
  OBVIOUS

\* The counter as it is at every moment, of a live pool or none.
CountInv == in_work = Cardinality(Busy)

\* in_work follows the workers that take and finish tasks.
LEMMA CountStep == ASSUME FitsCounter, TypeOK, CountInv, [Next]_vars PROVE CountInv'
<1> USE DEF TypeOK, Threads, Goto
<1>0. in_work' = in_work /\ Busy' = Busy => CountInv'
  BY DEF CountInv
<1>1. ASSUME UNCHANGED vars PROVE CountInv'
  BY <1>1, <1>0 DEF vars, Busy
<1>2. CASE Call
  <2>1. in_work' = in_work
    BY <1>2 DEF Call, CallStart, CallStop, CallWait, CallSubmit
  <2>2. Busy' = Busy
    BY <1>2 DEF Call, CallStart, CallStop, CallWait, CallSubmit, Busy
  <2> QED
    BY <2>1, <2>2, <1>0
<1>3. ASSUME NEW c \in Clients, ClientStep(c) PROVE CountInv'
  <2>1. CASE StartCreate(c)
    <3>1. Busy' = {}
      BY <2>1 DEF StartCreate, Busy
    <3> QED
      BY <2>1, <3>1, FS_EmptySet DEF StartCreate, CountInv
  <2>2. CASE StopBroadcast(c)
    <3>1. Busy' = Busy
      BY <2>2 DEF StopBroadcast, Busy, Asleep
    <3> QED
      BY <2>2, <3>1, <1>0 DEF StopBroadcast
  <2>3. CASE ~StartCreate(c) /\ ~StopBroadcast(c)
    <3>1. in_work' = in_work /\ \A w \in Workers : pc'[w] = pc[w]
      BY <1>3, <2>3 DEF ClientStep, StartAlloc, StartAgain, StopNoPool, StopFree, WaitSleep,
                        WaitReturn, WaitFault
    <3>2. Busy' = Busy
      BY <3>1 DEF Busy
    <3> QED
      BY <3>1, <3>2, <1>0
  <2> QED
    BY <2>1, <2>2, <2>3
<1>4. ASSUME NEW w \in Workers, WorkerStep(w) PROVE CountInv'
  <2>1. CASE WorkerTake(w)
    <3>1. w \notin Busy /\ Busy' = Busy \cup {w}
      BY <2>1 DEF WorkerTake, Busy
    <3>2. Cardinality(Busy') = Cardinality(Busy) + 1 /\ Cardinality(Busy) \in Nat
      BY <3>1, WorkerCount, FS_AddElement DEF Busy
    <3>3. Cardinality(Busy') <= NumThreads
      BY WorkerCount DEF Busy
    <3>4. (in_work + 1) % CountMod = in_work + 1
      BY <3>2, <3>3, CountUp DEF CountInv, FitsCounter
    <3> QED
      BY <2>1, <3>2, <3>4 DEF WorkerTake, CountInv
  <2>2. CASE WorkerFinish(w)
    <3>1. w \in Busy /\ Busy' = Busy \ {w}
      BY <2>2 DEF WorkerFinish, SignalOne, Waiting, Busy
    <3>2. IsFiniteSet(Busy)
      BY WorkerCount DEF Busy
    <3>3. Cardinality(Busy') = Cardinality(Busy) - 1
      BY <3>1, <3>2, FS_RemoveElement
    <3>4. Cardinality(Busy) # 0 /\ Cardinality(Busy) \in Nat
      BY <3>1, <3>2, FS_EmptySet, FS_CardinalityType
    <3>5. in_work \in 1 .. CountMod - 1
      BY <3>4 DEF CountInv
    <3>6. (in_work + CountMod - 1) % CountMod = in_work - 1
      BY <3>5, CountDown
    <3> QED
      BY <2>2, <3>3, <3>6 DEF WorkerFinish, CountInv
  <2>3. CASE WorkerSleep(w) \/ WorkerExit(w) \/ TaskReturn(w)
    <3>1. in_work' = in_work
      BY <2>3 DEF WorkerSleep, WorkerExit, TaskReturn
    <3>2. Busy' = Busy
      BY <2>3 DEF WorkerSleep, WorkerExit, TaskReturn, Busy
    <3> QED
      BY <3>1, <3>2, <1>0
  <2> QED
    BY <1>4, <2>1, <2>2, <2>3 DEF WorkerStep
<1>5. ASSUME NEW t \in Threads, SubmitStep(t) \/ SpuriousWakeup(t) PROVE CountInv'
  <2>1. in_work' = in_work
    BY <1>5 DEF SubmitStep, SubmitInsert, SubmitFault, SpuriousWakeup
  <2>2. CASE SubmitInsert(t)
    <3>1. /\ pc[t] = "submit" /\ t \in Threads
          /\ SignalOne(t, Caller(t), Asleep, "check")
      BY <2>2 DEF SubmitInsert
    <3>2. Asleep \subseteq Threads /\ t \notin Asleep
      BY <3>1 DEF Asleep, Threads
    <3>3. pc \in [Threads -> Places] /\ Caller(t) \in Places /\ "check" \in Places
      BY DEF TypeOK, Caller, Places, ClientPlaces, WorkerPlaces
    <3>4. /\ pc'[t] = Caller(t)
          /\ \A u \in Threads : u # t => pc'[u] = pc[u] \/ (u \in Asleep /\ pc'[u] = "check")
      BY <3>1, <3>2, <3>3, WakesOne
    <3>5. \A w \in Workers : w \in Busy' <=> w \in Busy
      BY <3>1, <3>4 DEF Busy, Asleep, Caller, Threads
    <3>6. Busy' = Busy
      BY <3>5, Zenon DEF Busy
    <3> QED
      BY <2>1, <3>6, <1>0
  <2>3. CASE SubmitFault(t) \/ SpuriousWakeup(t)
    <3>1. Busy' = Busy
      BY <2>3 DEF SubmitFault, SpuriousWakeup, Busy
    <3> QED
      BY <2>1, <3>1, <1>0
  <2> QED
    BY <1>5, <2>2, <2>3 DEF SubmitStep
<1> QED
  BY <1>1, <1>2, <1>3, <1>4, <1>5 DEF Next

\* At first no worker is busy.
LEMMA CountInit == Init => CountInv
<1> SUFFICES ASSUME Init PROVE CountInv
  OBVIOUS
<1>1. Busy = {}
  BY DEF Init, Busy, Threads
<1> QED
  BY <1>1, FS_EmptySet DEF Init, CountInv

\* in_work is the number of busy workers, always.
LEMMA CountCorrect == ASSUME FitsCounter PROVE Spec => []CountInv
<1>1. TypeOK /\ CountInv /\ [Next]_vars => CountInv'
  BY CountStep
<1> QED
  BY CountInit, <1>1, TypeCorrect, PTL DEF Spec

\* in_work, which pool_worker changes in two critical sections and ccpool_wait
\* tests in a third, is the number of workers between the two: it neither wraps
\* nor goes below zero.
THEOREM InWorkIsCounted == ASSUME FitsCounter PROVE Spec => []InWorkCounts
<1>1. CountInv => InWorkCounts
  BY DEF CountInv, InWorkCounts
<1> QED
  BY <1>1, CountCorrect, PTL
-----------------------------------------------------------------------------
(* No lost signal *)

\* ccpool_stop leaves no worker asleep, and none falls asleep after it.
StoppedAwake == stop => Asleep = {}

\* The broadcast of ccpool_stop leaves no worker asleep until the next start.
LEMMA AwakeStep == ASSUME TypeOK, StoppedAwake, [Next]_vars PROVE StoppedAwake'
<1> USE DEF TypeOK, Threads, Goto
<1>0. stop' = stop /\ Asleep' \subseteq Asleep => StoppedAwake'
  BY DEF StoppedAwake
<1>1. ASSUME UNCHANGED vars PROVE StoppedAwake'
  BY <1>1, <1>0 DEF vars, Asleep
<1>2. CASE Call
  <2>1. stop' = stop
    BY <1>2 DEF Call, CallStart, CallStop, CallWait, CallSubmit
  <2>2. Asleep' = Asleep
    BY <1>2 DEF Call, CallStart, CallStop, CallWait, CallSubmit, Asleep
  <2> QED
    BY <2>1, <2>2, <1>0
<1>3. ASSUME NEW c \in Clients, ClientStep(c) PROVE StoppedAwake'
  <2>1. CASE StartCreate(c) \/ StopBroadcast(c)
    BY <2>1 DEF StartCreate, StopBroadcast, StoppedAwake, Asleep
  <2>2. CASE ~StartCreate(c) /\ ~StopBroadcast(c)
    <3>1. stop' = stop /\ \A w \in Workers : pc'[w] = pc[w]
      BY <1>3, <2>2 DEF ClientStep, StartAlloc, StartAgain, StopNoPool, StopFree, WaitSleep,
                        WaitReturn, WaitFault
    <3> QED
      BY <3>1, <1>0 DEF Asleep
  <2> QED
    BY <2>1, <2>2
<1>4. ASSUME NEW w \in Workers, WorkerStep(w) PROVE StoppedAwake'
  <2>1. CASE WorkerSleep(w)
    BY <2>1 DEF WorkerSleep, StoppedAwake
  <2>2. CASE ~WorkerSleep(w)
    <3>1. stop' = stop
      BY <1>4, <2>2 DEF WorkerStep, WorkerExit, WorkerTake, TaskReturn, WorkerFinish
    <3>2. Asleep' \subseteq Asleep
      BY <1>4, <2>2 DEF WorkerStep, WorkerExit, WorkerTake, TaskReturn, WorkerFinish, SignalOne,
                        Waiting, Asleep
    <3> QED
      BY <3>1, <3>2, <1>0
  <2> QED
    BY <2>1, <2>2
<1>5. ASSUME NEW t \in Threads, SubmitStep(t) \/ SpuriousWakeup(t) PROVE StoppedAwake'
  <2>1. stop' = stop
    BY <1>5 DEF SubmitStep, SubmitInsert, SubmitFault, SpuriousWakeup
  <2>2. Asleep' \subseteq Asleep
    BY <1>5 DEF SubmitStep, SubmitInsert, SubmitFault, SpuriousWakeup, SignalOne, Caller, Asleep
  <2> QED
    BY <2>1, <2>2, <1>0
<1> QED
  BY <1>1, <1>2, <1>3, <1>4, <1>5 DEF Next

\* More workers looking and no more tasks keep the bound.
\* More workers looking at the queue are not fewer.
LEMMA LookingGrows ==
  ASSUME NEW S \in SUBSET Workers, NEW T \in SUBSET Workers, S \subseteq T
  PROVE  Cardinality(S) <= Cardinality(T)
  BY WorkerCount, FS_Subset

\* Each step keeps tasks from waiting next to a worker asleep.
LEMMA ConservingStep ==
  ASSUME TypeOK, StoppedAwake, WorkConserving, [Next]_vars PROVE WorkConserving'
<1> USE DEF TypeOK, Threads, Goto
<1>0. ASSUME tasks' = tasks, Asleep' \subseteq Asleep, Looking \subseteq Looking'
      PROVE  WorkConserving'
  <2>1. Cardinality(Looking) <= Cardinality(Looking') /\ Cardinality(Looking) \in Nat
        /\ Cardinality(Looking') \in Nat
    BY <1>0, LookingGrows, WorkerCount DEF Looking
  <2> QED
    BY <1>0, <2>1 DEF WorkConserving
<1>00. tasks' = <<>> => WorkConserving'
  BY WorkerCount DEF WorkConserving, Looking
<1>1. ASSUME UNCHANGED vars PROVE WorkConserving'
  BY <1>1, <1>0 DEF vars, Asleep, Looking
<1>2. CASE Call
  <2>1. tasks' = tasks
    BY <1>2 DEF Call, CallStart, CallStop, CallWait, CallSubmit
  <2>2. Asleep' = Asleep /\ Looking' = Looking
    BY <1>2 DEF Call, CallStart, CallStop, CallWait, CallSubmit, Asleep, Looking
  <2> QED
    BY <2>1, <2>2, <1>0
<1>3. ASSUME NEW c \in Clients, ClientStep(c) PROVE WorkConserving'
  <2>1. CASE StartCreate(c) \/ StopBroadcast(c) \/ StopFree(c)
    BY <2>1, <1>00 DEF StartCreate, StopBroadcast, StopFree
  <2>2. CASE ~StartCreate(c) /\ ~StopBroadcast(c) /\ ~StopFree(c)
    <3>1. tasks' = tasks /\ \A w \in Workers : pc'[w] = pc[w]
      BY <1>3, <2>2 DEF ClientStep, StartAlloc, StartAgain, StopNoPool, WaitSleep, WaitReturn,
                        WaitFault
    <3> QED
      BY <3>1, <1>0 DEF Asleep, Looking
  <2> QED
    BY <2>1, <2>2
<1>4. ASSUME NEW w \in Workers, WorkerStep(w) PROVE WorkConserving'
  <2>1. CASE WorkerSleep(w)
    BY <2>1, <1>00 DEF WorkerSleep
  <2>2. CASE WorkerExit(w)
    <3>1. Asleep' = {}
      BY <2>2 DEF WorkerExit, StoppedAwake, Asleep
    <3> QED
      BY <3>1 DEF WorkConserving
  <2>3. CASE WorkerTake(w)
    <3>1. w \in Looking /\ Looking' = Looking \ {w} /\ Asleep' = Asleep
      BY <2>3 DEF WorkerTake, Looking, Asleep
    <3>2. Cardinality(Looking') = Cardinality(Looking) - 1 /\ Cardinality(Looking) \in Nat
      <4>1. IsFiniteSet(Looking) /\ Cardinality(Looking) \in Nat
        BY WorkerCount DEF Looking
      <4> QED
        BY <3>1, <4>1, FS_RemoveElement
    <3>3. Len(tasks') = Len(tasks) - 1
      BY <2>3 DEF WorkerTake
    <3> QED
      BY <3>1, <3>2, <3>3 DEF WorkConserving
  <2>4. CASE TaskReturn(w) \/ WorkerFinish(w)
    <3>1. tasks' = tasks /\ Asleep' \subseteq Asleep /\ Looking \subseteq Looking'
      BY <2>4 DEF TaskReturn, WorkerFinish, SignalOne, Waiting, Asleep, Looking
    <3> QED
      BY <3>1, <1>0
  <2> QED
    BY <1>4, <2>1, <2>2, <2>3, <2>4 DEF WorkerStep
<1>5. ASSUME NEW t \in Threads, SubmitStep(t) \/ SpuriousWakeup(t) PROVE WorkConserving'
  <2>1. CASE SubmitInsert(t)
    <3>1. CASE Asleep = {}
      <4>1. Asleep' = {}
        BY <2>1, <3>1 DEF SubmitInsert, SignalOne, Caller, Asleep
      <4> QED
        BY <4>1 DEF WorkConserving
    <3>2. CASE Asleep # {}
      <4>1. PICK s \in Asleep : pc' = [pc EXCEPT ![t] = Caller(t), ![s] = "check"]
        BY <2>1, <3>2 DEF SubmitInsert, SignalOne
      <4>2. s \notin Looking /\ Looking' = Looking \cup {s}
        BY <2>1, <4>1 DEF SubmitInsert, Caller, Looking, Asleep
      <4>3. Cardinality(Looking') = Cardinality(Looking) + 1 /\ Cardinality(Looking) \in Nat
        BY <4>2, WorkerCount, FS_AddElement DEF Looking
      <4>4. Len(tasks') = Len(tasks) + 1
        BY <2>1 DEF SubmitInsert
      <4> QED
        BY <3>2, <4>3, <4>4 DEF WorkConserving
    <3> QED
      BY <3>1, <3>2
  <2>2. CASE SubmitFault(t) \/ SpuriousWakeup(t)
    <3>1. tasks' = tasks /\ Asleep' \subseteq Asleep /\ Looking \subseteq Looking'
      BY <2>2 DEF SubmitFault, SpuriousWakeup, Asleep, Looking
    <3> QED
      BY <3>1, <1>0
  <2> QED
    BY <1>5, <2>1, <2>2 DEF SubmitStep
<1> QED
  BY <1>1, <1>2, <1>3, <1>4, <1>5 DEF Next

\* The single pthread_cond_signal of ccpool_submit is enough: while a worker is
\* asleep there are no more tasks in the queue than workers about to look at it.
THEOREM NoLostSignal == Spec => []WorkConserving
<1>1. Init => StoppedAwake /\ WorkConserving
  BY DEF Init, StoppedAwake, WorkConserving, Asleep, Threads
<1>2. TypeOK /\ StoppedAwake /\ WorkConserving /\ [Next]_vars
      => StoppedAwake' /\ WorkConserving'
  BY AwakeStep, ConservingStep
<1> QED
  BY <1>1, <1>2, TypeCorrect, PTL DEF Spec

-----------------------------------------------------------------------------
(* Disciplined clients *)

\* single_mt is with the client that creates or joins workers, a pool that is
\* being created is not yet live, and a client that stops the pool is alone.
LockInv == \A c \in Clients : pc[c] \in {"create", "join"} => single_mt = c

CreateInv == \A c \in Clients : pc[c] = "create" => pool = "raw"

StoppingAlone ==
  \A c, d \in Clients : pc[c] \in {"stop", "join"} => pc[d] \notin {"submit", "wait", "waiting"}

ContractInv == LockInv /\ CreateInv /\ StoppingAlone /\ ClientsInsidePool

\* The contract holds before the first call.
LEMMA ContractInit == Init => ContractInv
  BY DEF Init, ContractInv, LockInv, CreateInv, StoppingAlone, ClientsInsidePool, Threads

\* single_mt keeps its one owner through the making and the joining of workers.
LEMMA LockStep == ASSUME TypeOK, LockInv, CreateInv, [Next]_vars PROVE LockInv' /\ CreateInv'
<1> USE DEF TypeOK, Threads, Goto, LockInv, CreateInv
<1>1. ASSUME UNCHANGED vars PROVE LockInv' /\ CreateInv'
  BY <1>1 DEF vars
<1>2. CASE Call
  BY <1>2 DEF Call, CallStart, CallStop, CallWait, CallSubmit
<1>3. ASSUME NEW c \in Clients, ClientStep(c) PROVE LockInv' /\ CreateInv'
  <2>1. CASE StartAlloc(c)
    BY <2>1 DEF StartAlloc
  <2>2. CASE StartCreate(c)
    BY <2>2 DEF StartCreate
  <2>3. CASE StopBroadcast(c)
    BY <2>3 DEF StopBroadcast, Asleep
  <2>4. CASE StopFree(c)
    BY <2>4 DEF StopFree
  <2>5. CASE StartAgain(c) \/ StopNoPool(c) \/ WaitSleep(c) \/ WaitReturn(c) \/ WaitFault(c)
    BY <2>5 DEF StartAgain, StopNoPool, WaitSleep, WaitReturn, WaitFault
  <2> QED
    BY <1>3, <2>1, <2>2, <2>3, <2>4, <2>5 DEF ClientStep
<1>4. ASSUME NEW w \in Workers, WorkerStep(w) PROVE LockInv' /\ CreateInv'
  BY <1>4 DEF WorkerStep, WorkerSleep, WorkerExit, WorkerTake, TaskReturn, WorkerFinish,
              SignalOne, Waiting
<1>5. ASSUME NEW t \in Threads, SubmitStep(t) \/ SpuriousWakeup(t)
      PROVE  LockInv' /\ CreateInv'
  BY <1>5 DEF SubmitStep, SubmitInsert, SubmitFault, SpuriousWakeup, SignalOne, Asleep, Caller
<1> QED
  BY <1>1, <1>2, <1>3, <1>4, <1>5 DEF Next

\* A disciplined client that stops the pool stays alone with it.
LEMMA AloneStep ==
  ASSUME Disciplined, TypeOK, StoppingAlone, [Next]_vars PROVE StoppingAlone'
<1> USE DEF TypeOK, Threads, Goto, StoppingAlone
<1>1. ASSUME UNCHANGED vars PROVE StoppingAlone'
  BY <1>1 DEF vars
<1>2. CASE Call
  BY <1>2 DEF Call, CallStart, CallStop, CallWait, CallSubmit, MayStop, MayUse
<1>3. ASSUME NEW c \in Clients, ClientStep(c) PROVE StoppingAlone'
  <2>1. CASE StartAlloc(c) \/ StartAgain(c) \/ StartCreate(c)
    BY <2>1 DEF StartAlloc, StartAgain, StartCreate
  <2>2. CASE StopBroadcast(c)
    BY <2>2 DEF StopBroadcast, Asleep
  <2>3. CASE StopNoPool(c) \/ StopFree(c)
    BY <2>3 DEF StopFree, StopNoPool
  <2>4. CASE WaitSleep(c) \/ WaitReturn(c) \/ WaitFault(c)
    BY <2>4 DEF WaitSleep, WaitReturn, WaitFault
  <2> QED
    BY <1>3, <2>1, <2>2, <2>3, <2>4 DEF ClientStep
<1>4. ASSUME NEW w \in Workers, WorkerStep(w) PROVE StoppingAlone'
  BY <1>4 DEF WorkerStep, WorkerSleep, WorkerExit, WorkerTake, TaskReturn, WorkerFinish,
              SignalOne, Waiting
<1>5. ASSUME NEW t \in Threads, SubmitStep(t) \/ SpuriousWakeup(t) PROVE StoppingAlone'
  BY <1>5 DEF SubmitStep, SubmitInsert, SubmitFault, SpuriousWakeup, SignalOne, Asleep, Caller
<1> QED
  BY <1>1, <1>2, <1>3, <1>4, <1>5 DEF Next

\* No step takes the pool from a client or a task that is using it.
LEMMA ClientsStep ==
  ASSUME Disciplined, TypeOK, WorkersInsidePool, WorkersInsidePool', ContractInv, [Next]_vars
  PROVE  ClientsInsidePool'
<1> USE DEF TypeOK, Threads, Goto, ContractInv, ClientsInsidePool
<1>1. ASSUME UNCHANGED vars PROVE ClientsInsidePool'
  BY <1>1 DEF vars
<1>2. CASE Call
  <2>1. ASSUME NEW t \in Threads, NEW k \in Tasks, CallSubmit(t, k) PROVE ClientsInsidePool'
    BY <2>1 DEF CallSubmit, MayUse, WorkersInsidePool
  <2>2. ASSUME NEW c \in Clients, CallStart(c) \/ CallStop(c) \/ CallWait(c)
        PROVE  ClientsInsidePool'
    BY <2>2 DEF CallStart, CallStop, CallWait, MayUse
  <2> QED
    BY <1>2, <2>1, <2>2 DEF Call
<1>3. ASSUME NEW c \in Clients, ClientStep(c) PROVE ClientsInsidePool'
  <2>1. CASE StartAlloc(c)
    BY <2>1 DEF StartAlloc
  <2>2. CASE StartCreate(c)
    BY <2>2 DEF StartCreate
  <2>3. CASE StopBroadcast(c)
    BY <2>3 DEF StopBroadcast, Asleep
  <2>4. CASE StopFree(c)
    <3>1. \A d \in Clients : pc'[d] \notin {"submit", "wait", "waiting", "fault"}
      BY <2>4 DEF StopFree, StoppingAlone
    <3>2. \A w \in Workers : pc'[w] = "exited"
      BY <2>4 DEF StopFree, WorkersInsidePool
    <3> QED
      BY <3>1, <3>2
  <2>5. CASE StartAgain(c) \/ StopNoPool(c)
    BY <2>5 DEF StartAgain, StopNoPool
  <2>6. CASE WaitSleep(c) \/ WaitReturn(c) \/ WaitFault(c)
    BY <2>6 DEF WaitSleep, WaitReturn, WaitFault
  <2> QED
    BY <1>3, <2>1, <2>2, <2>3, <2>4, <2>5, <2>6 DEF ClientStep
<1>4. ASSUME NEW w \in Workers, WorkerStep(w) PROVE ClientsInsidePool'
  BY <1>4 DEF WorkerStep, WorkerSleep, WorkerExit, WorkerTake, TaskReturn, WorkerFinish,
              SignalOne, Waiting
<1>5. ASSUME NEW t \in Threads, SubmitStep(t) \/ SpuriousWakeup(t) PROVE ClientsInsidePool'
  <2>1. CASE SubmitInsert(t)
    BY <2>1 DEF SubmitInsert, SignalOne, Asleep, Caller
  <2>2. CASE SubmitFault(t) \/ SpuriousWakeup(t)
    BY <2>2 DEF SubmitFault, SpuriousWakeup
  <2> QED
    BY <1>5, <2>1, <2>2 DEF SubmitStep
<1> QED
  BY <1>1, <1>2, <1>3, <1>4, <1>5 DEF Next

\* The contract and what it protects hold together.
LEMMA ContractHolds == ASSUME FitsCounter, Disciplined PROVE Spec => []ContractInv
<1>1. TypeOK /\ WorkersInsidePool /\ WorkersInsidePool' /\ ContractInv /\ [Next]_vars => ContractInv'
  BY LockStep, AloneStep, ClientsStep DEF ContractInv
<1> QED
  BY ContractInit, <1>1, TypeCorrect, WorkersStayInside, PTL DEF Spec

\* The pool that CCASSERT(pool) saw is still there when ccpool_submit or
\* ccpool_wait locks it, for clients that keep the contract and for tasks.
THEOREM ClientsStayInside == ASSUME FitsCounter, Disciplined PROVE Spec => []ClientsInsidePool
  BY ContractHolds, PTL DEF ContractInv
-----------------------------------------------------------------------------
(* The one client that waits *)

OneWaiter == \A c, d \in Waiters : c = d

WaitersOnly == \A c \in Clients : pc[c] \in {"wait", "waiting"} => c \in Waiters

\* Only waiters are inside ccpool_wait.
LEMMA WaitersStep == ASSUME TypeOK, WaitersOnly, [Next]_vars PROVE WaitersOnly'
<1> USE DEF TypeOK, Threads, Goto, WaitersOnly
<1>1. ASSUME UNCHANGED vars PROVE WaitersOnly'
  BY <1>1 DEF vars
<1>2. CASE Call
  BY <1>2 DEF Call, CallStart, CallStop, CallWait, CallSubmit
<1>3. ASSUME NEW c \in Clients, ClientStep(c) PROVE WaitersOnly'
  BY <1>3 DEF ClientStep, StartAlloc, StartAgain, StartCreate, StopNoPool, StopBroadcast,
              StopFree, WaitSleep, WaitReturn, WaitFault, Asleep
<1>4. ASSUME NEW w \in Workers, WorkerStep(w) PROVE WaitersOnly'
  BY <1>4 DEF WorkerStep, WorkerSleep, WorkerExit, WorkerTake, TaskReturn, WorkerFinish,
              SignalOne, Waiting
<1>5. ASSUME NEW t \in Threads, SubmitStep(t) \/ SpuriousWakeup(t) PROVE WaitersOnly'
  BY <1>5 DEF SubmitStep, SubmitInsert, SubmitFault, SpuriousWakeup, SignalOne, Asleep, Caller
<1> QED
  BY <1>1, <1>2, <1>3, <1>4, <1>5 DEF Next

\* Each step leaves the one waiter something to wait for.
LEMMA StrandedStep ==
  ASSUME FitsCounter, OneWaiter, TypeOK, CountInv, ContractInv, WaitersOnly, NoStrandedWaiter,
         [Next]_vars
  PROVE  NoStrandedWaiter'
<1> USE DEF TypeOK, Threads, Goto
<1>0. in_work' = in_work /\ tasks' = tasks /\ Waiting' \subseteq Waiting => NoStrandedWaiter'
  BY DEF NoStrandedWaiter
<1>00. Waiting' = {} => NoStrandedWaiter'
  BY DEF NoStrandedWaiter
<1>1. ASSUME UNCHANGED vars PROVE NoStrandedWaiter'
  BY <1>1, <1>0 DEF vars, Waiting
<1>2. CASE Call
  <2>1. in_work' = in_work /\ tasks' = tasks
    BY <1>2 DEF Call, CallStart, CallStop, CallWait, CallSubmit
  <2>2. Waiting' \subseteq Waiting
    BY <1>2 DEF Call, CallStart, CallStop, CallWait, CallSubmit, Waiting
  <2> QED
    BY <2>1, <2>2, <1>0
<1>3. ASSUME NEW c \in Clients, ClientStep(c) PROVE NoStrandedWaiter'
  <2>1. CASE StartCreate(c)
    <3>1. Waiting' = {}
      BY <2>1 DEF StartCreate, ContractInv, CreateInv, ClientsInsidePool, Waiting
    <3> QED
      BY <3>1, <1>00
  <2>2. CASE StopBroadcast(c)
    <3>1. Waiting' = {}
      BY <2>2 DEF StopBroadcast, ContractInv, StoppingAlone, Waiting, Asleep
    <3> QED
      BY <3>1, <1>00
  <2>3. CASE StopFree(c)
    <3>1. Waiting' = {}
      BY <2>3 DEF StopFree, ContractInv, StoppingAlone, Waiting
    <3> QED
      BY <3>1, <1>00
  <2>4. CASE WaitSleep(c)
    BY <2>4 DEF WaitSleep, NoStrandedWaiter
  <2>5. CASE StartAlloc(c) \/ StartAgain(c) \/ StopNoPool(c) \/ WaitReturn(c) \/ WaitFault(c)
    <3>1. in_work' = in_work /\ tasks' = tasks
      BY <2>5 DEF StartAlloc, StartAgain, StopNoPool, WaitReturn, WaitFault
    <3>2. Waiting' \subseteq Waiting
      BY <2>5 DEF StartAlloc, StartAgain, StopNoPool, WaitReturn, WaitFault, Waiting
    <3> QED
      BY <3>1, <3>2, <1>0
  <2> QED
    BY <1>3, <2>1, <2>2, <2>3, <2>4, <2>5 DEF ClientStep
<1>4. ASSUME NEW w \in Workers, WorkerStep(w) PROVE NoStrandedWaiter'
  <2>1. CASE WorkerTake(w)
    \* The task that leaves the queue is counted in in_work.
    <3>1. CountInv'
      BY <1>4, CountStep DEF Next
    <3>2. w \in Busy' /\ IsFiniteSet(Busy')
      BY <2>1, WorkerCount DEF WorkerTake, Busy
    <3>3. in_work' # 0
      BY <3>1, <3>2, FS_EmptySet DEF CountInv
    <3> QED
      BY <3>3 DEF NoStrandedWaiter
  <2>2. CASE WorkerFinish(w)
    <3>1. CASE Waiting = {}
      <4>1. Waiting' = {}
        BY <2>2, <3>1 DEF WorkerFinish, SignalOne, Waiting
      <4> QED
        BY <4>1, <1>00
    <3>2. CASE Waiting # {}
      \* The signal wakes a waiting client, and there is only one.
      <4>1. PICK s \in Waiting : pc' = [pc EXCEPT ![w] = "check", ![s] = "wait"]
        BY <2>2, <3>2 DEF WorkerFinish, SignalOne
      <4>2. \A d \in Waiting : d = s
        BY DEF Waiting, WaitersOnly, OneWaiter
      <4>3. Waiting' = {}
        BY <4>1, <4>2 DEF Waiting
      <4> QED
        BY <4>3, <1>00
    <3> QED
      BY <3>1, <3>2
  <2>3. CASE WorkerSleep(w) \/ WorkerExit(w) \/ TaskReturn(w)
    <3>1. in_work' = in_work /\ tasks' = tasks
      BY <2>3 DEF WorkerSleep, WorkerExit, TaskReturn
    <3>2. Waiting' \subseteq Waiting
      BY <2>3 DEF WorkerSleep, WorkerExit, TaskReturn, Waiting
    <3> QED
      BY <3>1, <3>2, <1>0
  <2> QED
    BY <1>4, <2>1, <2>2, <2>3 DEF WorkerStep
<1>5. ASSUME NEW t \in Threads, SubmitStep(t) \/ SpuriousWakeup(t) PROVE NoStrandedWaiter'
  <2>1. CASE SubmitInsert(t)
    <3>1. tasks' # <<>>
      BY <2>1 DEF SubmitInsert
    <3> QED
      BY <3>1 DEF NoStrandedWaiter
  <2>2. CASE SubmitFault(t) \/ SpuriousWakeup(t)
    <3>1. in_work' = in_work /\ tasks' = tasks
      BY <2>2 DEF SubmitFault, SpuriousWakeup
    <3>2. Waiting' \subseteq Waiting
      BY <2>2 DEF SubmitFault, SpuriousWakeup, Waiting
    <3> QED
      BY <3>1, <3>2, <1>0
  <2> QED
    BY <1>5, <2>1, <2>2 DEF SubmitStep
<1> QED
  BY <1>1, <1>2, <1>3, <1>4, <1>5 DEF Next

\* A single client asleep in ccpool_wait is woken by the signal of the last task:
\* it never sleeps on while in_work is zero and the queue is empty.
THEOREM WaiterIsWoken ==
  ASSUME FitsCounter, Disciplined, OneWaiter PROVE Spec => []NoStrandedWaiter
<1>1. Init => WaitersOnly /\ NoStrandedWaiter
  BY DEF Init, WaitersOnly, NoStrandedWaiter, Waiting, Threads
<1>2. TypeOK /\ CountInv /\ ContractInv /\ WaitersOnly /\ NoStrandedWaiter /\ [Next]_vars
      => WaitersOnly' /\ NoStrandedWaiter'
  BY WaitersStep, StrandedStep
<1> QED
  BY <1>1, <1>2, TypeCorrect, CountCorrect, ContractHolds, PTL DEF Spec

-----------------------------------------------------------------------------
(* Who owns a task, for any clients.  The inductive invariant: what a task    *)
(* is in is what its state says.                                             *)

\* Each task is in the queue once, and only after the flag is set as a late one.
QueueOwns ==
  /\ \A i, j \in DOMAIN tasks : tasks[i] = tasks[j] => i = j
  /\ \A i \in DOMAIN tasks : state[tasks[i]] = IF stop THEN "late" ELSE "queued"

\* A task that runs is run by one worker.
WorkersOwn ==
  /\ \A w \in Running : state[task[w]] = "taken"
  /\ \A v, w \in Running : task[v] = task[w] => v = w

\* A task on its way into the queue is in one call of ccpool_submit.
CallersOwn ==
  /\ \A t \in Threads : pc[t] = "submit" => state[arg[t]] = "allocated"
  /\ \A t, u \in Threads : pc[t] = "submit" /\ pc[u] = "submit" /\ arg[t] = arg[u] => t = u

OwnInv == QueueOwns /\ WorkersOwn /\ CallersOwn

\* No task is owned before the first call.
LEMMA OwnInit == Init => OwnInv
<1> SUFFICES ASSUME Init PROVE OwnInv
  OBVIOUS
<1>1. QueueOwns
  BY DEF Init, QueueOwns
<1>2. \A t \in Threads : pc[t] \in {"idle", "exited"}
  BY DEF Init, Threads
<1> QED
  BY <1>1, <1>2 DEF OwnInv, WorkersOwn, CallersOwn, Running, Threads

\* The entries of the four calls: ccpool_submit takes a task that is new.
LEMMA OwnCall == ASSUME TypeOK, OwnInv, Call PROVE OwnInv'
<1> USE DEF TypeOK, Threads, Goto, OwnInv, QueueOwns, WorkersOwn, CallersOwn, Running
<1>1. ASSUME NEW c \in Clients, CallStart(c) \/ CallStop(c) \/ CallWait(c) PROVE OwnInv'
  BY <1>1 DEF CallStart, CallStop, CallWait
<1>2. ASSUME NEW t \in Threads, NEW k \in Tasks, CallSubmit(t, k) PROVE OwnInv'
  <2> USE <1>2 DEF CallSubmit
  <2>1. QueueOwns'
    OBVIOUS
  <2>2. Running' = Running
    OBVIOUS
  <2>3. WorkersOwn'
    BY <2>2 DEF Busy
  <2>4. CallersOwn'
    OBVIOUS
  <2> QED
    BY <2>1, <2>3, <2>4
<1> QED
  BY <1>1, <1>2 DEF Call

\* The sections of ccpool_start, ccpool_stop and ccpool_wait: the first two leave
\* an empty queue.
LEMMA OwnClient == ASSUME TypeOK, OwnInv, NEW c \in Clients, ClientStep(c) PROVE OwnInv'
<1> USE DEF TypeOK, Threads, Goto, OwnInv, QueueOwns, WorkersOwn, CallersOwn, Running
<1>1. CASE StartCreate(c)
  BY <1>1 DEF StartCreate
<1>2. CASE StopBroadcast(c)
  <2> USE <1>2 DEF StopBroadcast, Asleep
  <2>1. \A w \in Running' : w \in Running /\ state[task[w]] = "taken"
    OBVIOUS
  <2>2. \A k \in Tasks : state[k] \in {"taken", "allocated"} => state'[k] = state[k]
    BY DEF Range
  <2>3. \A t \in Threads : pc'[t] = "submit" => pc[t] = "submit"
    OBVIOUS
  <2>4. QueueOwns'
    OBVIOUS
  <2>5. WorkersOwn'
    BY <2>1, <2>2 DEF Busy
  <2>6. CallersOwn'
    BY <2>2, <2>3
  <2> QED
    BY <2>4, <2>5, <2>6
<1>3. CASE StopFree(c)
  <2> USE <1>3 DEF StopFree
  <2>1. \A k \in Tasks : state[k] \in {"taken", "allocated"} => state'[k] = state[k]
    BY DEF Range
  <2>2. QueueOwns'
    OBVIOUS
  <2>3. WorkersOwn'
    BY <2>1 DEF Busy
  <2>4. CallersOwn'
    BY <2>1
  <2> QED
    BY <2>2, <2>3, <2>4
<1>4. CASE StartAlloc(c) \/ StartAgain(c) \/ StopNoPool(c)
  BY <1>4 DEF StartAlloc, StartAgain, StopNoPool
<1>5. CASE WaitSleep(c) \/ WaitReturn(c) \/ WaitFault(c)
  BY <1>5 DEF WaitSleep, WaitReturn, WaitFault
<1> QED
  BY <1>1, <1>2, <1>3, <1>4, <1>5 DEF ClientStep

\* The sections of pool_worker: a task leaves the queue for one worker, which frees it.
LEMMA OwnWorker == ASSUME TypeOK, OwnInv, NEW w \in Workers, WorkerStep(w) PROVE OwnInv'
<1> USE DEF TypeOK, Threads, Goto, OwnInv, QueueOwns, WorkersOwn, CallersOwn, Running
<1>1. CASE WorkerSleep(w) \/ WorkerExit(w)
  BY <1>1 DEF WorkerSleep, WorkerExit
<1>2. CASE WorkerTake(w)
  <2> USE <1>2 DEF WorkerTake
  <2> DEFINE k == Head(tasks)
  <2>1. /\ k \in Tasks /\ k = tasks[1] /\ 1 \in DOMAIN tasks
        /\ tasks' \in Seq(Tasks)
        /\ \A i \in DOMAIN tasks' : i + 1 \in DOMAIN tasks /\ tasks'[i] = tasks[i + 1] /\ i + 1 # 1
    OBVIOUS
  <2>2. state[k] = "queued" /\ state' = [state EXCEPT ![k] = "taken"]
    BY <2>1
  <2>3. \A i \in DOMAIN tasks' : tasks'[i] # k
    BY <2>1
  <2>4. QueueOwns'
    <3> HIDE DEF k
    <3>1. \A i, j \in DOMAIN tasks' : tasks'[i] = tasks'[j] => i = j
      BY <2>1
    <3>2. \A i \in DOMAIN tasks' : state'[tasks'[i]] = state[tasks[i + 1]]
      BY <2>1, <2>2, <2>3
    <3> QED
      BY <2>1, <3>1, <3>2
  <2>5. WorkersOwn'
    <3> HIDE DEF k
    <3>1. Running' = Running \cup {w} /\ w \notin Running
      OBVIOUS
    <3>2. \A v \in Running : task[v] \in Tasks /\ task[v] # k /\ task'[v] = task[v]
      BY <2>2, <3>1 DEF Busy
    <3>3. task'[w] = k
      BY DEF k
    <3> QED
      BY <2>1, <2>2, <3>1, <3>2, <3>3
  <2>6. CallersOwn'
    <3> HIDE DEF k
    <3> QED
      BY <2>1, <2>2
  <2> QED
    BY <2>4, <2>5, <2>6
<1>3. CASE TaskReturn(w)
  <2> USE <1>3 DEF TaskReturn
  <2>1. /\ w \in Running /\ task[w] \in Tasks /\ state[task[w]] = "taken"
        /\ state' = [state EXCEPT ![task[w]] = "done"]
    BY DEF Busy
  <2>2. QueueOwns'
    BY <2>1
  <2>3. Running' = Running \ {w}
    OBVIOUS
  <2>4. WorkersOwn'
    BY <2>1, <2>3 DEF Busy
  <2>5. CallersOwn'
    BY <2>1
  <2> QED
    BY <2>2, <2>4, <2>5
<1>4. CASE WorkerFinish(w)
  <2> USE <1>4 DEF WorkerFinish, SignalOne, Waiting
  <2>1. Running' = Running /\ w \notin Running
    OBVIOUS
  <2>2. \A t \in Threads : pc'[t] = "submit" => pc[t] = "submit"
    OBVIOUS
  <2>3. WorkersOwn'
    BY <2>1
  <2> QED
    BY <2>2, <2>3
<1> QED
  BY <1>1, <1>2, <1>3, <1>4 DEF WorkerStep

\* ccpool_submit puts its task at the end of the queue, from nowhere else.
LEMMA OwnSubmit ==
  ASSUME TypeOK, OwnInv, NEW t \in Threads, SubmitStep(t) \/ SpuriousWakeup(t) PROVE OwnInv'
<1> USE DEF TypeOK, Threads, Goto, OwnInv, QueueOwns, WorkersOwn, CallersOwn, Running
<1>1. CASE SubmitInsert(t)
  <2> USE <1>1 DEF SubmitInsert
  <2>1. arg[t] \in Tasks /\ state[arg[t]] = "allocated"
    OBVIOUS
  <2>2. /\ \A u \in Threads : pc'[u] = "submit" => u # t /\ pc[u] = "submit" /\ arg'[u] = arg[u]
        /\ \A w \in Running' : w \in Running
    BY DEF SignalOne, Asleep, Caller
  <2>3. /\ \A i \in DOMAIN tasks : i \in DOMAIN tasks' /\ tasks'[i] = tasks[i] /\ tasks[i] # arg[t]
        /\ \A i \in DOMAIN tasks' : i \in DOMAIN tasks \/ (i = Len(tasks) + 1 /\ tasks'[i] = arg[t])
    BY <2>1
  <2>4. QueueOwns'
    BY <2>1, <2>3
  <2>5. WorkersOwn'
    BY <2>1, <2>2 DEF Busy
  <2>6. CallersOwn'
    BY <2>1, <2>2
  <2> QED
    BY <2>4, <2>5, <2>6
<1>2. CASE SubmitFault(t)
  BY <1>2 DEF SubmitFault
<1>3. CASE SpuriousWakeup(t)
  BY <1>3 DEF SpuriousWakeup
<1> QED
  BY <1>1, <1>2, <1>3 DEF SubmitStep

\* Every step passes a task on from one owner to the next.
LEMMA OwnStep == ASSUME TypeOK, OwnInv, [Next]_vars PROVE OwnInv'
<1>1. ASSUME UNCHANGED vars PROVE OwnInv'
  BY <1>1 DEF vars, OwnInv, QueueOwns, WorkersOwn, CallersOwn, Running
<1> QED
  BY <1>1, OwnCall, OwnClient, OwnWorker, OwnSubmit DEF Next

\* The owners of a task are known in every state.
LEMMA OwnersKnown == Spec => []OwnInv
<1>1. TypeOK /\ OwnInv /\ [Next]_vars => OwnInv'
  BY OwnStep
<1> QED
  BY OwnInit, <1>1, TypeCorrect, PTL DEF Spec

-----------------------------------------------------------------------------
(* Theorems *)

\* pool_worker and ccpool_submit never have one task in two places: each is run
\* and freed by one worker, whatever the clients do.
THEOREM OneOwner == Spec => []TaskOwnedOnce
<1>1. TypeOK /\ OwnInv => TaskOwnedOnce
  BY DEF OwnInv, QueueOwns, WorkersOwn, TaskOwnedOnce, Range
<1> QED
  BY <1>1, OwnersKnown, TypeCorrect, PTL

\* Once ccpool_stop has set the flag it stays until the pool is freed.
JoinStopped == \A c \in Clients : pc[c] = "join" => stop

\* Only ccpool_start clears the flag, and never while another client joins.
LEMMA JoinStep ==
  ASSUME TypeOK, LockInv, JoinStopped, [Next]_vars PROVE JoinStopped'
<1> USE DEF TypeOK, Threads, Goto, JoinStopped
<1>1. ASSUME UNCHANGED vars PROVE JoinStopped'
  BY <1>1 DEF vars
<1>2. CASE Call
  BY <1>2 DEF Call, CallStart, CallStop, CallWait, CallSubmit
<1>3. ASSUME NEW c \in Clients, ClientStep(c) PROVE JoinStopped'
  <2>1. CASE StartCreate(c)
    BY <2>1 DEF StartCreate, LockInv
  <2>2. CASE StopBroadcast(c)
    BY <2>2 DEF StopBroadcast
  <2>3. CASE StartAlloc(c) \/ StartAgain(c) \/ StopNoPool(c) \/ StopFree(c)
    BY <2>3 DEF StartAlloc, StartAgain, StopNoPool, StopFree
  <2>4. CASE WaitSleep(c) \/ WaitReturn(c) \/ WaitFault(c)
    BY <2>4 DEF WaitSleep, WaitReturn, WaitFault
  <2> QED
    BY <1>3, <2>1, <2>2, <2>3, <2>4 DEF ClientStep
<1>4. ASSUME NEW w \in Workers, WorkerStep(w) PROVE JoinStopped'
  BY <1>4 DEF WorkerStep, WorkerSleep, WorkerExit, WorkerTake, TaskReturn, WorkerFinish,
              SignalOne, Waiting
<1>5. ASSUME NEW t \in Threads, SubmitStep(t) \/ SpuriousWakeup(t) PROVE JoinStopped'
  BY <1>5 DEF SubmitStep, SubmitInsert, SubmitFault, SpuriousWakeup, SignalOne, Asleep, Caller
<1> QED
  BY <1>1, <1>2, <1>3, <1>4, <1>5 DEF Next

\* What ccpool_stop leaves in the queue that it frees was submitted after it had
\* emptied it: no task that was there before is lost.
THEOREM LateOnesLost == Spec => OnlyLateLost
<1> DEFINE P == \A k \in Tasks : state'[k] = "lost" => state[k] \in {"late", "lost"}
<1>1. TypeOK /\ OwnInv /\ JoinStopped /\ [Next]_vars => P \/ UNCHANGED vars
  <2> SUFFICES ASSUME TypeOK, OwnInv, JoinStopped, Next,
                      NEW k \in Tasks, state'[k] = "lost"
               PROVE  state[k] \in {"late", "lost"}
    OBVIOUS
  <2> USE DEF TypeOK, Threads
  <2>1. CASE Call
    BY <2>1 DEF Call, CallStart, CallStop, CallWait, CallSubmit
  <2>2. ASSUME NEW c \in Clients, ClientStep(c) PROVE state[k] \in {"late", "lost"}
    <3>1. CASE StopFree(c)
      BY <3>1 DEF StopFree, JoinStopped, OwnInv, QueueOwns, Range
    <3>2. CASE StopBroadcast(c)
      BY <3>2 DEF StopBroadcast
    <3>3. CASE StartAlloc(c) \/ StartAgain(c) \/ StartCreate(c) \/ StopNoPool(c)
      BY <3>3 DEF StartAlloc, StartAgain, StartCreate, StopNoPool
    <3>4. CASE WaitSleep(c) \/ WaitReturn(c) \/ WaitFault(c)
      BY <3>4 DEF WaitSleep, WaitReturn, WaitFault
    <3> QED
      BY <2>2, <3>1, <3>2, <3>3, <3>4 DEF ClientStep
  <2>3. ASSUME NEW w \in Workers, WorkerStep(w) PROVE state[k] \in {"late", "lost"}
    BY <2>3 DEF WorkerStep, WorkerSleep, WorkerExit, WorkerTake, TaskReturn, WorkerFinish
  <2>4. ASSUME NEW t \in Threads, SubmitStep(t) \/ SpuriousWakeup(t)
        PROVE  state[k] \in {"late", "lost"}
    BY <2>4 DEF SubmitStep, SubmitInsert, SubmitFault, SpuriousWakeup
  <2> QED
    BY <2>1, <2>2, <2>3, <2>4 DEF Next
<1>2. Init => LockInv /\ CreateInv /\ JoinStopped
  BY DEF Init, LockInv, CreateInv, JoinStopped, Threads
<1>3. TypeOK /\ LockInv /\ CreateInv /\ JoinStopped /\ [Next]_vars
        => LockInv' /\ CreateInv' /\ JoinStopped'
  BY LockStep, JoinStep
<1> QED
  BY <1>1, <1>2, <1>3, OwnersKnown, TypeCorrect, PTL DEF Spec, OnlyLateLost

-----------------------------------------------------------------------------
(* ThreadPool implements TaskQueue, for clients that keep the contract.      *)

\* What TaskQueue is about, by the variables of the pool.
open == pool = "live" /\ ~stop
active == {task[w] : w \in Running}
done == {k \in Tasks : state[k] = "done"}
dropped == {k \in Tasks : state[k] \in {"dropped", "lost"}}
waiters == {c \in Clients : pc[c] \in {"wait", "waiting"}}

abstract == <<open, tasks, active, done, dropped, waiters>>

\* ccpool_start finds no task of an earlier pool.
NoQueueLeft == pool # "live" => tasks = <<>>

\* All that is known of the pool when it takes a step.
Known ==
  /\ TypeOK /\ OwnInv /\ NoQueueLeft
  /\ WorkersInsidePool /\ CountInv /\ ContractInv

-----------------------------------------------------------------------------
\* Only ccpool_submit adds to the queue, and only to that of a live pool.
LEMMA NoQueueStep == ASSUME TypeOK, NoQueueLeft, [Next]_vars PROVE NoQueueLeft'
<1> USE DEF TypeOK, Threads, Goto, NoQueueLeft
<1>1. ASSUME UNCHANGED vars PROVE NoQueueLeft'
  BY <1>1 DEF vars
<1>2. CASE Call
  BY <1>2 DEF Call, CallStart, CallStop, CallWait, CallSubmit
<1>3. ASSUME NEW c \in Clients, ClientStep(c) PROVE NoQueueLeft'
  BY <1>3 DEF ClientStep, StartAlloc, StartAgain, StartCreate, StopNoPool, StopBroadcast,
              StopFree, WaitSleep, WaitReturn, WaitFault
<1>4. ASSUME NEW w \in Workers, WorkerStep(w) PROVE NoQueueLeft'
  BY <1>4 DEF WorkerStep, WorkerSleep, WorkerExit, WorkerTake, TaskReturn, WorkerFinish
<1>5. ASSUME NEW t \in Threads, SubmitStep(t) \/ SpuriousWakeup(t) PROVE NoQueueLeft'
  BY <1>5 DEF SubmitStep, SubmitInsert, SubmitFault, SpuriousWakeup
<1> QED
  BY <1>1, <1>2, <1>3, <1>4, <1>5 DEF Next

\* What is known holds in every state.
LEMMA AllKnown == ASSUME FitsCounter, Disciplined PROVE Spec => []Known
<1>1. Init => NoQueueLeft
  BY DEF Init, NoQueueLeft
<1>2. TypeOK /\ NoQueueLeft /\ [Next]_vars => NoQueueLeft'
  BY NoQueueStep
<1>3. Spec => []NoQueueLeft
  BY <1>1, <1>2, TypeCorrect, PTL DEF Spec
<1> QED
  BY <1>3, TypeCorrect, OwnersKnown, WorkersStayInside, CountCorrect, ContractHolds, PTL DEF Known

-----------------------------------------------------------------------------
(* Steps *)

\* A step that moves no thread into or out of a task or ccpool_wait, and no task,
\* is nothing to the queue.
LEMMA Stutter ==
  ASSUME open' = open, tasks' = tasks, task' = task, Running' = Running,
         done' = done, dropped' = dropped, waiters' = waiters
  PROVE  UNCHANGED abstract
<1>1. active' = active
  BY DEF active
<1> QED
  BY <1>1 DEF abstract

\* The entries of ccpool_start, ccpool_stop and ccpool_submit change nothing that
\* TaskQueue speaks of; that of ccpool_wait is its WaitCall.
LEMMA CallMaps == ASSUME Known, Call PROVE Queue!Next \/ UNCHANGED abstract
<1> USE DEF Known, TypeOK, Threads, Goto
<1>1. ASSUME NEW c \in Clients, CallStart(c) \/ CallStop(c) PROVE UNCHANGED abstract
  <2> USE <1>1 DEF CallStart, CallStop
  <2>1. Running' = Running /\ waiters' = waiters
    BY DEF Running, waiters
  <2>2. open' = open /\ done' = done /\ dropped' = dropped
    BY DEF open, done, dropped
  <2> QED
    BY <2>1, <2>2, Stutter
<1>2. ASSUME NEW c \in Clients, CallWait(c) PROVE Queue!WaitCall(c)
  <2> USE <1>2 DEF CallWait
  <2>1. Running' = Running /\ waiters' = waiters \cup {c}
    BY DEF Running, waiters
  <2>2. open' = open /\ done' = done /\ dropped' = dropped /\ active' = active
    BY <2>1 DEF open, done, dropped, active
  <2> QED
    BY <2>1, <2>2 DEF Queue!WaitCall, open, done, dropped, active, waiters
<1>3. ASSUME NEW t \in Threads, NEW k \in Tasks, CallSubmit(t, k) PROVE UNCHANGED abstract
  <2> USE <1>3 DEF CallSubmit
  <2>1. Running' = Running /\ waiters' = waiters
    BY DEF Running, waiters
  <2>2. open' = open /\ done' = done /\ dropped' = dropped
    BY DEF open, done, dropped
  <2> QED
    BY <2>1, <2>2, Stutter
<1> QED
  BY <1>1, <1>2, <1>3 DEF Call, Queue!Next

\* ccpool_start opens the queue when the pool is made, with nothing in it and no
\* task active; ccpool_stop discards what is pending, when it sets the flag and
\* again when it frees the pool; ccpool_wait returns as TaskQueue lets it.
LEMMA ClientMaps ==
  ASSUME Known, ClientsInsidePool', NEW c \in Clients, ClientStep(c)
  PROVE  Queue!Next \/ UNCHANGED abstract
<1> USE DEF Known, TypeOK, Threads, Goto
<1>1. CASE StartAlloc(c) \/ StartAgain(c) \/ StopNoPool(c) \/ WaitSleep(c)
  <2> USE <1>1 DEF StartAlloc, StartAgain, StopNoPool, WaitSleep
  <2>1. Running' = Running /\ waiters' = waiters
    BY DEF Running, waiters
  <2>2. open' = open /\ done' = done /\ dropped' = dropped /\ tasks' = tasks /\ task' = task
    BY DEF open, done, dropped
  <2> QED
    BY <2>1, <2>2, Stutter
<1>2. CASE StartCreate(c)
  <2> USE <1>2 DEF StartCreate
  <2>1. pool = "raw" /\ tasks = <<>> /\ \A w \in Workers : pc[w] = "exited"
    BY DEF ContractInv, CreateInv, NoQueueLeft, WorkersInsidePool
  <2>2. Running = {} /\ Running' = {} /\ waiters' = waiters
    BY <2>1 DEF Running, waiters
  <2>3. active = {} /\ active' = {}
    BY <2>2 DEF active
  <2>4. ~open /\ open' /\ done' = done /\ dropped' = dropped
    BY <2>1 DEF open, done, dropped
  <2>5. Queue!Open
    BY <2>1, <2>2, <2>3, <2>4 DEF Queue!Open, open, done, dropped, active, waiters
  <2> QED
    BY <2>5 DEF Queue!Next
<1>3. CASE StopBroadcast(c)
  <2> USE <1>3 DEF StopBroadcast, Asleep
  <2>1. Running' = Running /\ waiters' = waiters
    BY DEF Running, waiters
  <2>2. active' = active
    BY <2>1 DEF active
  <2>3. ~open'
    BY DEF open
  <2>4. \A i \in DOMAIN tasks : state[tasks[i]] # "done"
    BY DEF OwnInv, QueueOwns
  <2>5. done' = done /\ dropped' = dropped \cup Range(tasks)
    BY <2>4 DEF done, dropped, Range
  <2>6. Queue!Discard
    BY <2>1, <2>2, <2>3, <2>5
       DEF Queue!Discard, Queue!Range, Range, open, done, dropped, active, waiters
  <2> QED
    BY <2>6 DEF Queue!Next
<1>4. CASE StopFree(c)
  <2> USE <1>4 DEF StopFree
  <2>1. Running' = Running /\ waiters' = waiters
    BY DEF Running, waiters
  <2>2. active' = active
    BY <2>1 DEF active
  <2>3. ~open'
    BY DEF open
  <2>4. \A i \in DOMAIN tasks : state[tasks[i]] # "done"
    BY DEF OwnInv, QueueOwns
  <2>5. done' = done /\ dropped' = dropped \cup Range(tasks)
    BY <2>4 DEF done, dropped, Range
  <2>6. Queue!Discard
    BY <2>1, <2>2, <2>3, <2>5
       DEF Queue!Discard, Queue!Range, Range, open, done, dropped, active, waiters
  <2> QED
    BY <2>6 DEF Queue!Next
<1>5. CASE WaitReturn(c)
  <2> USE <1>5 DEF WaitReturn
  <2>1. Busy = {}
    BY WorkersFinite, FS_Subset, FS_EmptySet DEF CountInv, Busy
  <2>2. Running = {} /\ Running' = Running /\ waiters' = waiters \ {c}
    BY <2>1 DEF Running, Busy, waiters
  <2>3. active = {} /\ active' = {}
    BY <2>2 DEF active
  <2>4. open' = open /\ done' = done /\ dropped' = dropped
    BY DEF open, done, dropped
  <2>5. Queue!WaitReturn(c)
    BY <2>2, <2>3, <2>4 DEF Queue!WaitReturn, open, done, dropped, active, waiters
  <2> QED
    BY <2>5 DEF Queue!Next
<1>6. CASE WaitFault(c)
  BY <1>6 DEF WaitFault, ClientsInsidePool
<1> QED
  BY <1>1, <1>2, <1>3, <1>4, <1>5, <1>6 DEF ClientStep

\* Workers that are not all of them are fewer than all of them.
LEMMA SomeWorkersLeft ==
  ASSUME NEW R, R \subseteq Workers, R # Workers
  PROVE  IsFiniteSet(R) /\ Cardinality(R) < Cardinality(Workers)
<1>1. IsFiniteSet(Workers) /\ R \in SUBSET Workers
  BY WorkersFinite
<1>2. Cardinality(R) <= Cardinality(Workers) /\ Cardinality(R) # Cardinality(Workers)
  BY <1>1, FS_Subset
<1>3. IsFiniteSet(R)
  BY <1>1, FS_Subset
<1>4. Cardinality(R) \in Nat /\ Cardinality(Workers) \in Nat
  BY <1>1, <1>3, FS_CardinalityType
<1> QED
  BY <1>2, <1>3, <1>4

\* There are no more active tasks than running workers.
LEMMA ActiveTasks ==
  ASSUME IsFiniteSet(Running)
  PROVE  Cardinality(active) \in Nat /\ Cardinality(active) <= Cardinality(Running)
<1> DEFINE g == [w \in Running |-> task[w]]
<1>1. g \in Surjection(Running, active)
  BY DEF Surjection, active
<1> HIDE DEF g
<1>2. IsFiniteSet(active) /\ Cardinality(active) <= Cardinality(Running)
  BY <1>1, FS_Surjection
<1> QED
  BY <1>2, FS_CardinalityType

\* A worker begins the oldest task while fewer than NumThreads are active, and ends
\* one that is.
LEMMA WorkerMaps ==
  ASSUME Known, NEW w \in Workers, WorkerStep(w) PROVE Queue!Next \/ UNCHANGED abstract
<1> USE DEF Known, TypeOK, Threads, Goto
<1>1. CASE WorkerSleep(w) \/ WorkerExit(w)
  <2> USE <1>1 DEF WorkerSleep, WorkerExit
  <2>1. Running' = Running /\ waiters' = waiters
    BY DEF Running, waiters
  <2>2. open' = open /\ done' = done /\ dropped' = dropped /\ tasks' = tasks /\ task' = task
    BY DEF open, done, dropped
  <2> QED
    BY <2>1, <2>2, Stutter
<1>2. CASE WorkerTake(w)
  <2> USE <1>2 DEF WorkerTake
  <2> DEFINE k == Head(tasks)
  <2>1. k \in Tasks /\ k = tasks[1] /\ 1 \in DOMAIN tasks /\ tasks' = Tail(tasks) /\ tasks # <<>>
    OBVIOUS
  <2>2. state[k] = "queued" /\ state' = [state EXCEPT ![k] = "taken"]
    BY <2>1 DEF OwnInv, QueueOwns
  <2>3. open /\ open' = open
    BY DEF open, WorkersInsidePool
  <2>4. done' = done /\ dropped' = dropped /\ waiters' = waiters
    <3> HIDE DEF k
    <3> QED
      BY <2>1, <2>2 DEF done, dropped, waiters
  <2>5. Running' = Running \cup {w} /\ w \notin Running
    BY DEF Running
  <2>6. task'[w] = k /\ \A v \in Running : task'[v] = task[v]
    BY <2>5 DEF Running
  <2>7. active' = active \cup {k}
    <3> HIDE DEF k
    <3> QED
      BY <2>5, <2>6 DEF active
  <2>8. Cardinality(active) < NumThreads
    <3>1. IsFiniteSet(Running) /\ Cardinality(Running) < Cardinality(Workers)
      <4>1. Running \subseteq Workers /\ Running # Workers
        BY <2>5 DEF Running
      <4> QED
        BY <4>1, SomeWorkersLeft
    <3>2. Cardinality(Running) \in Nat
      BY <3>1, FS_CardinalityType
    <3>3. Cardinality(active) \in Nat /\ Cardinality(active) <= Cardinality(Running)
      BY <3>1, ActiveTasks
    <3> QED
      BY <3>1, <3>2, <3>3, WorkersFinite
  <2>9. Queue!Begin
    <3> HIDE DEF k
    <3>1. active' = active \cup {Head(tasks)}
      BY <2>7 DEF k
    <3> QED
      BY <2>1, <2>3, <2>4, <2>8, <3>1
         DEF Queue!Begin, Queue!Cardinality, Cardinality, open, done, dropped, active, waiters
  <2> QED
    BY <2>9 DEF Queue!Next
<1>3. CASE TaskReturn(w)
  <2> USE <1>3 DEF TaskReturn
  <2> DEFINE k == task[w]
  <2>1. w \in Running /\ k \in Tasks /\ state[k] = "taken" /\ state' = [state EXCEPT ![k] = "done"]
    BY DEF Running, Busy, OwnInv, WorkersOwn
  <2>2. Running' = Running \ {w} /\ waiters' = waiters
    BY DEF Running, waiters
  <2>3. \A v \in Running : v # w => task[v] # k
    BY <2>1 DEF OwnInv, WorkersOwn
  <2>4. k \in active /\ active' = active \ {k}
    BY <2>1, <2>2, <2>3 DEF active
  <2>5. open' = open /\ done' = done \cup {k} /\ dropped' = dropped
    BY <2>1 DEF open, done, dropped
  <2>6. Queue!End(k)
    BY <2>2, <2>4, <2>5 DEF Queue!End, open, done, dropped, active, waiters
  <2>7. \E j \in Tasks : Queue!End(j)
    BY <2>1, <2>6 DEF Queue!End
  <2> QED
    BY <2>7 DEF Queue!Next
<1>4. CASE WorkerFinish(w)
  <2> USE <1>4 DEF WorkerFinish, SignalOne, Waiting
  <2>1. w \notin Running /\ Running' = Running
    BY DEF Running
  <2>2. waiters' = waiters
    BY DEF waiters
  <2>3. \A v \in Running : task'[v] = task[v]
    BY <2>1 DEF Running
  <2>4. active' = active
    BY <2>1, <2>3 DEF active
  <2>5. open' = open /\ done' = done /\ dropped' = dropped /\ tasks' = tasks
    BY DEF open, done, dropped
  <2> QED
    BY <2>2, <2>4, <2>5 DEF abstract
<1> QED
  BY <1>1, <1>2, <1>3, <1>4 DEF WorkerStep

\* ccpool_submit puts a task behind the others that was never there before.
LEMMA SubmitMaps ==
  ASSUME Known, ClientsInsidePool', NEW t \in Threads, SubmitStep(t) \/ SpuriousWakeup(t)
  PROVE  Queue!Next \/ UNCHANGED abstract
<1> USE DEF Known, TypeOK, Threads, Goto
<1>1. CASE SubmitInsert(t)
  <2> USE <1>1 DEF SubmitInsert
  <2> DEFINE k == arg[t]
  <2>1. k \in Tasks /\ state[k] = "allocated"
    BY DEF OwnInv, CallersOwn
  <2>2. /\ \A u \in Threads : \/ u = t
                              \/ pc'[u] = pc[u]
                              \/ pc[u] = "asleep" /\ pc'[u] = "check"
        /\ pc'[t] = Caller(t)
    BY DEF SignalOne, Asleep, Caller
  <2>3. Running' = Running /\ waiters' = waiters
    <3>1. \A w \in Workers : w \in Running' <=> w \in Running
      BY <2>2 DEF Running, Caller
    <3>2. \A c \in Clients : c \in waiters' <=> c \in waiters
      BY <2>2 DEF waiters, Caller
    <3> QED
      BY <3>1, <3>2 DEF Running, waiters
  <2>4. active' = active
    BY <2>3 DEF active
  <2>5. open' = open /\ done' = done /\ dropped' = dropped
    BY <2>1 DEF open, done, dropped
  <2>6. k \notin Range(tasks) /\ k \notin active /\ k \notin done /\ k \notin dropped
    BY <2>1 DEF OwnInv, QueueOwns, WorkersOwn, Range, active, done, dropped
  <2>7. Queue!Submit(k)
    BY <2>3, <2>4, <2>5, <2>6
       DEF Queue!Submit, Queue!Range, Range, open, done, dropped, active, waiters
  <2> QED
    BY <2>1, <2>7 DEF Queue!Next
<1>2. CASE SubmitFault(t)
  BY <1>2 DEF SubmitFault, ClientsInsidePool
<1>3. CASE SpuriousWakeup(t)
  <2> USE <1>3 DEF SpuriousWakeup
  <2>1. Running' = Running /\ waiters' = waiters
    BY DEF Running, waiters
  <2>2. open' = open /\ done' = done /\ dropped' = dropped /\ tasks' = tasks /\ task' = task
    BY DEF open, done, dropped
  <2> QED
    BY <2>1, <2>2, Stutter
<1> QED
  BY <1>1, <1>2, <1>3 DEF SubmitStep

\* Every step of the pool is one of the queue or nothing to it.
LEMMA StepMaps ==
  ASSUME Known, ClientsInsidePool', [Next]_vars PROVE [Queue!Next]_(Queue!vars)
<1>1. UNCHANGED abstract => UNCHANGED Queue!vars
  BY DEF abstract, Queue!vars, open, active, done, dropped, waiters
<1>2. ASSUME UNCHANGED vars PROVE UNCHANGED abstract
  BY <1>2 DEF vars, abstract, open, active, done, dropped, waiters, Running
<1> QED
  BY <1>1, <1>2, CallMaps, ClientMaps, WorkerMaps, SubmitMaps DEF Next

\* The pool that is not there yet is a closed and empty queue.
LEMMA InitMaps == Init => Queue!Init
<1> SUFFICES ASSUME Init PROVE Queue!Init
  OBVIOUS
<1>1. \A t \in Threads : pc[t] \in {"idle", "exited"}
  BY DEF Init, Threads
<1>2. Running = {}
  BY <1>1 DEF Running, Threads
<1> QED
  BY <1>1, <1>2 DEF Init, Queue!Init, Threads

\* The thread pool keeps the promise of TaskQueue: tasks start in the order of their
\* submission, each at most once and at most NumThreads together; what ccpool_stop
\* finds is discarded, and ccpool_wait returns only when nothing is pending or active.
THEOREM PoolIsQueue == ASSUME FitsCounter, Disciplined PROVE Spec => ImplementsTaskQueue
<1>1. Known /\ Known' /\ [Next]_vars => [Queue!Next]_(Queue!vars)
  BY StepMaps DEF Known, ContractInv
<1> QED
  BY InitMaps, <1>1, AllKnown, PTL DEF Spec, ImplementsTaskQueue, Queue!Spec
=============================================================================
