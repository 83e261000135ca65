-------------------------- MODULE PoolOnListProofs --------------------------
(***************************************************************************)
(* Proofs about PoolOnList, for any number of clients, workers and tasks:   *)
(* the pool on a ring is a ThreadPool, and its ring is the queue.           *)
(***************************************************************************)
EXTENDS PoolOnList, ThreadPoolProofs

USE ConstantsAssumption, ListHeadAssumption

-----------------------------------------------------------------------------
(* The pool on a ring makes the steps of ThreadPool *)

\* A step under pool->mt, or of the clear, is a section of ThreadPool or nothing to it.
LEMMA PoolStep == ASSUME [PoolNext]_poolVars PROVE [Next]_vars
<1>1. ASSUME UNCHANGED poolVars PROVE UNCHANGED vars
  BY <1>1 DEF poolVars
<1>2. ASSUME NEW c \in Clients, PoolClient(c) PROVE [Next]_vars
  <2>1. CASE ClientSection(c) \/ PoolCreate(c) \/ StopCleared(c)
    BY <2>1 DEF ClientSection, Locked, PoolCreate, StopCleared, ClientStep, Next
  <2>2. CASE StopClear(c) \/ StopDestroy(c)
    BY <2>2 DEF StopClear, StopDestroy
  <2> QED
    BY <1>2, <2>1, <2>2 DEF PoolClient
<1>3. ASSUME NEW w \in Workers, PoolWorker(w) PROVE Next
  BY <1>3 DEF PoolWorker, WorkerSection, PoolTake, Locked, WorkerStep, Next
<1>4. ASSUME NEW t \in Threads, PoolInsert(t) PROVE Next
  BY <1>4 DEF PoolInsert, Locked, SubmitStep, Next
<1>5. CASE Unlocked
  BY <1>5 DEF Unlocked, WorkerStep, Next
<1> QED
  BY <1>1, <1>2, <1>3, <1>4, <1>5 DEF PoolNext

\* tpool.c with its queue on the ring of list.c does nothing that it would not do
\* with a sequence: what is proved of ThreadPool holds of it.
THEOREM RingIsPool == PoolSpec => Spec
<1>1. PoolInit => Init
  BY DEF PoolInit
<1>2. [PoolNext]_poolVars => [Next]_vars
  BY PoolStep
<1> QED
  BY <1>1, <1>2, PTL DEF PoolSpec, Spec

-----------------------------------------------------------------------------
(* The inductive invariant of the ring *)

Nodes == Tasks \cup {ListHead}

RingTypes ==
  /\ next \in [Nodes -> Nodes \cup {NoTask}]
  /\ prev \in [Nodes -> Nodes \cup {NoTask}]
  /\ mt \in Clients \cup {Nobody}

\* The ring leads through the queue and back.
Spelled ==
  /\ \A i \in 0 .. Len(tasks) : next[Node(i)] = Node(i + 1) /\ prev[Node(i + 1)] = Node(i)
  /\ size = Len(tasks)
  /\ members = Range(tasks)

\* cclist_clear is at the node j of the ring, behind which all is as it was.
ClearingAt(j) ==
  /\ item = Node(j)
  /\ \A i \in j .. Len(tasks) : next[Node(i)] = Node(i + 1)
  /\ members = {tasks[i] : i \in j .. Len(tasks)}

ListInv ==
  /\ RingTypes
  /\ mt = Nobody => item = NoTask
  /\ mt = Nobody /\ pool = "live" => Spelled
  /\ mt # Nobody => pool = "live" /\ \E j \in 1 .. Len(tasks) + 1 : ClearingAt(j)

\* A pool that was never started has no queue.
LEMMA RingInit == PoolInit => ListInv
  BY DEF PoolInit, Init, List!Init, List!EmptyRing, List!Nodes, Nodes, ListInv, RingTypes

\* cclist_init leaves the ring of the empty queue.
LEMMA RingCreate ==
  ASSUME TypeOK, CreateInv, ListInv, NEW c \in Clients, PoolCreate(c) PROVE ListInv'
<1> USE DEF PoolCreate, StartCreate, ListInv, List!EmptyRing, List!Nodes, Nodes
<1>1. mt = Nobody
  BY DEF CreateInv
<1>2. RingTypes'
  BY DEF RingTypes
<1>3. Len(tasks') = 0 /\ Range(tasks') = {} /\ DOMAIN tasks' = {}
  BY DEF Range
<1>4. Spelled'
  BY <1>3 DEF Spelled, Node
<1> QED
  BY <1>1, <1>2, <1>4

\* cclist_insert_last links a task in behind the last one.
LEMMA RingInsert ==
  ASSUME TypeOK, OwnInv, ListInv, NEW t \in Threads, PoolInsert(t) PROVE ListInv'
<1> USE DEF PoolInsert, Locked, SubmitInsert, ListInv, Nodes
<1> DEFINE n == Len(tasks)
           o == arg[t]
<1>1. o \in Tasks /\ \A i \in DOMAIN tasks : tasks[i] # o
  BY DEF TypeOK, OwnInv, QueueOwns, CallersOwn, Threads
<1>2. /\ n \in Nat /\ DOMAIN tasks = 1 .. n /\ \A i \in 1 .. n : tasks[i] \in Tasks
      /\ tasks' = Append(tasks, o) /\ Len(tasks') = n + 1 /\ DOMAIN tasks' = 1 .. n + 1
      /\ \A i \in 1 .. n + 1 : tasks'[i] = IF i = n + 1 THEN o ELSE tasks[i]
  BY <1>1 DEF TypeOK
<1>3. /\ Spelled
      /\ next' = [next EXCEPT ![o] = ListHead, ![prev[ListHead]] = o]
      /\ prev' = [prev EXCEPT ![o] = prev[ListHead], ![ListHead] = o]
      /\ size' = size + 1 /\ members' = members \cup {o} /\ item' = item /\ mt' = Nobody
  BY DEF List!InsertLast, List!DoInsertBefore
<1>4. /\ Node(n + 1) = ListHead /\ prev[ListHead] = Node(n) /\ next[Node(n)] = ListHead
      /\ \A i \in 0 .. n + 1 : Node(i) \in Nodes /\ Node(i) # o
  BY <1>1, <1>2, <1>3 DEF Spelled, Node
<1>5. \A i \in 0 .. n + 2 :
        Node(i)' = IF i <= n THEN Node(i) ELSE IF i = n + 1 THEN o ELSE ListHead
  BY <1>2 DEF Node
<1>6. \A i, j \in 0 .. n : Node(i) = Node(j) => i = j
  BY <1>1, <1>2 DEF Node, OwnInv, QueueOwns
<1>7. RingTypes'
  BY <1>1, <1>3, <1>4 DEF RingTypes
<1>8. \A i \in 0 .. n : /\ next'[Node(i)] = IF i = n THEN o ELSE Node(i + 1)
                        /\ i # 0 => prev'[Node(i)] = Node(i - 1)
  <2> TAKE i \in 0 .. n
  <2> HIDE DEF n, o
  <2>1. next[Node(i)] = Node(i + 1) /\ (i # 0 => prev[Node(i)] = Node(i - 1))
    <3>1. \A j \in 0 .. n : next[Node(j)] = Node(j + 1) /\ prev[Node(j + 1)] = Node(j)
      BY <1>3 DEF Spelled, n
    <3>2. i # 0 => i - 1 \in 0 .. n /\ (i - 1) + 1 = i
      BY <1>2
    <3> QED
      BY <3>1, <3>2
  <2>2. i # 0 => Node(i) # ListHead
    BY <1>2 DEF Node, n
  <2>3. Node(i) \in Nodes /\ Node(i) # o /\ (i = n <=> Node(i) = Node(n))
    BY <1>2, <1>4, <1>6
  <2>4. next' = [next EXCEPT ![o] = ListHead, ![Node(n)] = o]
    BY <1>3, <1>4
  <2>5. next'[Node(i)] = IF i = n THEN o ELSE next[Node(i)]
    BY <2>3, <2>4 DEF RingTypes
  <2>6. i # 0 => prev'[Node(i)] = prev[Node(i)]
    BY <1>3, <2>2, <2>3 DEF RingTypes
  <2> QED
    BY <2>1, <2>5, <2>6
<1>9. next'[o] = ListHead /\ prev'[o] = Node(n) /\ prev'[ListHead] = o
  BY <1>1, <1>3, <1>4 DEF RingTypes
<1>10. Spelled'
  <2> HIDE DEF n, o
  <2>1. ASSUME NEW i \in 0 .. n + 1
        PROVE  next'[Node(i)'] = Node(i + 1)' /\ prev'[Node(i + 1)'] = Node(i)'
    <3>1. i + 1 \in 0 .. n + 2 /\ i \in 0 .. n + 2
      BY <1>2
    <3>2. CASE i = n + 1
      <4>1. Node(i)' = o /\ Node(i + 1)' = ListHead
        BY <3>1, <3>2, <1>2, <1>5
      <4> QED
        BY <4>1, <1>9
    <3>3. CASE i = n
      <4>1. Node(i)' = Node(n) /\ Node(i + 1)' = o
        BY <3>1, <3>3, <1>2, <1>5
      <4> QED
        BY <4>1, <3>3, <1>2, <1>8, <1>9
    <3>4. CASE i < n
      <4>1. Node(i)' = Node(i) /\ Node(i + 1)' = Node(i + 1)
        BY <3>1, <3>4, <1>2, <1>5
      <4>2. i \in 0 .. n /\ i + 1 \in 0 .. n /\ i # n /\ i + 1 # 0 /\ (i + 1) - 1 = i
        BY <3>4, <1>2
      <4> QED
        BY <4>1, <4>2, <1>8
    <3> QED
      BY <1>2, <2>1, <3>2, <3>3, <3>4
  <2>2. size' = Len(tasks')
    BY <1>2, <1>3 DEF Spelled, n
  <2>3. members' = Range(tasks')
    BY <1>2, <1>3 DEF Spelled, Range
  <2>4. 0 .. Len(tasks') = 0 .. n + 1
    BY <1>2
  <2> QED
    BY <2>1, <2>2, <2>3, <2>4, Zenon DEF Spelled
<1> QED
  BY <1>3, <1>7, <1>10

\* cclist_remove_first takes out the oldest task and closes the ring behind it.
LEMMA RingTake ==
  ASSUME TypeOK, WorkersInsidePool, OwnInv, ListInv, NEW w \in Workers, PoolTake(w)
  PROVE  ListInv'
<1> USE DEF PoolTake, Locked, WorkerTake, TakeTask, WithoutFirst, ListInv, Nodes
<1> DEFINE n == Len(tasks)
           oldest == tasks[1]
<1>1. /\ n \in Nat \ {0} /\ DOMAIN tasks = 1 .. n /\ \A i \in 1 .. n : tasks[i] \in Tasks
      /\ tasks' = Tail(tasks) /\ Len(tasks') = n - 1 /\ DOMAIN tasks' = 1 .. n - 1
      /\ \A i \in 1 .. n - 1 : tasks'[i] = tasks[i + 1]
  BY DEF TypeOK
<1>2. /\ Spelled
      /\ next' = [next EXCEPT ![ListHead] = next[next[ListHead]]]
      /\ prev' = [prev EXCEPT ![next[next[ListHead]]] = ListHead]
      /\ size' = size - 1 /\ members' = members \ {next[ListHead]} /\ item' = item /\ mt' = Nobody
  BY DEF List!RemoveFirst, WorkersInsidePool
<1>3. /\ Node(0) = ListHead /\ Node(1) = oldest
      /\ \A i \in 0 .. n + 1 : Node(i) \in Nodes
      /\ \A i \in 1 .. n : Node(i) # ListHead
  BY <1>1 DEF Node
<1>4. next[ListHead] = oldest /\ next[oldest] = Node(2)
  <2>1. 0 \in 0 .. n /\ 1 \in 0 .. n
    BY <1>1
  <2>2. next[Node(0)] = Node(0 + 1) /\ next[Node(1)] = Node(1 + 1)
    BY <1>2, <2>1 DEF Spelled
  <2> QED
    BY <1>3, <2>2
<1>5. \A i \in 0 .. n : Node(i)' = IF i = 0 THEN ListHead ELSE Node(i + 1)
  BY <1>1 DEF Node
<1>6. \A i, j \in 1 .. n + 1 : Node(i) = Node(j) => i = j
  BY <1>1 DEF Node, OwnInv, QueueOwns
<1>7. RingTypes'
  BY <1>1, <1>2, <1>3, <1>4 DEF RingTypes
<1>8. next'[ListHead] = Node(2) /\ prev'[Node(2)] = ListHead
  BY <1>1, <1>2, <1>3, <1>4 DEF RingTypes
<1>9. \A i \in 2 .. n : next'[Node(i)] = Node(i + 1) /\ prev'[Node(i + 1)] = Node(i)
  <2> TAKE i \in 2 .. n
  <2> HIDE DEF n, oldest
  <2>1. i \in 0 .. n /\ i \in 1 .. n + 1 /\ i + 1 \in 1 .. n + 1 /\ 2 \in 1 .. n + 1 /\ i + 1 # 2
    BY <1>1
  <2>2. next[Node(i)] = Node(i + 1) /\ prev[Node(i + 1)] = Node(i)
    BY <1>2, <2>1 DEF Spelled, n
  <2>3. Node(i) # ListHead /\ Node(i + 1) # Node(2) /\ Node(i) \in Nodes /\ Node(i + 1) \in Nodes
    BY <1>1, <1>3, <1>6, <2>1
  <2> QED
    BY <1>2, <1>4, <2>2, <2>3 DEF RingTypes
<1>10. Spelled'
  <2> HIDE DEF n, oldest
  <2>1. ASSUME NEW i \in 0 .. n - 1
        PROVE  next'[Node(i)'] = Node(i + 1)' /\ prev'[Node(i + 1)'] = Node(i)'
    <3>1. i \in 0 .. n /\ i + 1 \in 0 .. n /\ i + 1 # 0
      BY <1>1
    <3>2. Node(i + 1)' = Node((i + 1) + 1)
      BY <3>1, <1>5
    <3>3. CASE i = 0
      BY <3>1, <3>2, <3>3, <1>5, <1>8
    <3>4. CASE i # 0
      <4>1. Node(i)' = Node(i + 1) /\ i + 1 \in 2 .. n
        BY <3>1, <3>4, <1>5
      <4> QED
        BY <4>1, <3>2, <1>9
    <3> QED
      BY <3>3, <3>4
  <2>2. size' = Len(tasks')
    BY <1>1, <1>2 DEF Spelled, n
  <2>3. members' = Range(tasks')
    <3>1. \A i \in 2 .. n : tasks[i] # oldest
      BY <1>1 DEF OwnInv, QueueOwns, oldest
    <3>2. \A i \in 2 .. n : i - 1 \in 1 .. n - 1 /\ (i - 1) + 1 = i /\ i \in 1 .. n
      BY <1>1
    <3>3. \A i \in 1 .. n - 1 : i + 1 \in 2 .. n
      BY <1>1
    <3>4. Range(tasks') = {tasks[i] : i \in 2 .. n}
      <4>1. Range(tasks') = {tasks'[i] : i \in 1 .. n - 1}
        BY <1>1 DEF Range
      <4>2. ASSUME NEW i \in 2 .. n PROVE tasks'[i - 1] = tasks[i]
        BY <1>1, <3>2
      <4>3. ASSUME NEW i \in 1 .. n - 1 PROVE tasks'[i] \in {tasks[m] : m \in 2 .. n}
        BY <1>1, <3>3
      <4>4. ASSUME NEW i \in 2 .. n PROVE tasks[i] \in Range(tasks')
        BY <3>2, <4>1, <4>2
      <4> QED
        BY <4>1, <4>3, <4>4
    <3>5. Range(tasks) = {oldest} \cup {tasks[i] : i \in 2 .. n}
      <4>1. Range(tasks) = {tasks[i] : i \in 1 .. n}
        BY <1>1 DEF Range
      <4>2. \A i \in 1 .. n : i = 1 \/ i \in 2 .. n
        BY <1>1
      <4>3. 1 \in 1 .. n
        BY <1>1
      <4> QED
        BY <3>2, <4>1, <4>2, <4>3 DEF oldest
    <3> QED
      BY <1>2, <1>4, <3>1, <3>4, <3>5 DEF Spelled
  <2> QED
    BY <1>1, <2>1, <2>2, <2>3 DEF Spelled
<1> QED
  BY <1>2, <1>7, <1>10

\* cclist_clear begins at the oldest node.
LEMMA RingClear ==
  ASSUME TypeOK, ListInv, NEW c \in Clients, StopClear(c) PROVE ListInv'
<1> USE DEF StopClear, ListInv, vars
<1>1. Spelled /\ item' = next[ListHead] /\ mt' = c /\ UNCHANGED <<next, prev, members, tasks, pool>>
  BY DEF List!ClearBegin
<1>2. Len(tasks) \in Nat /\ DOMAIN tasks = 1 .. Len(tasks)
  BY DEF TypeOK
<1>3. next[ListHead] = Node(1)
  BY <1>1, <1>2 DEF Spelled, Node
<1>4. members = {tasks[i] : i \in 1 .. Len(tasks)}
  BY <1>1, <1>2 DEF Spelled, Range
<1>5. \A i \in 1 .. Len(tasks) : next[Node(i)] = Node(i + 1)
  BY <1>1, <1>2 DEF Spelled
<1>6. \A i : Node(i)' = Node(i)
  BY <1>1 DEF Node
<1>7. ClearingAt(1)'
  BY <1>1, <1>3, <1>4, <1>5, <1>6 DEF ClearingAt
<1>8. 1 \in 1 .. Len(tasks') + 1 /\ pool' = "live" /\ mt' # Nobody
  BY <1>1, <1>2
<1> QED
  BY <1>1, <1>7, <1>8 DEF RingTypes

\* One turn of cclist_clear: the links behind the node are not those it frees.
LEMMA RingDestroy ==
  ASSUME TypeOK, OwnInv, ListInv, NEW c \in Clients, StopDestroy(c) PROVE ListInv'
<1> USE DEF StopDestroy, ListInv, vars, Nodes
<1> DEFINE n == Len(tasks)
<1>1. n \in Nat /\ DOMAIN tasks = 1 .. n /\ \A i \in 1 .. n : tasks[i] \in Tasks
  BY DEF TypeOK
<1>2. /\ item \in Tasks /\ item' = next[item] /\ members' = members \ {item}
      /\ next' = [next EXCEPT ![item] = NoTask] /\ prev' = [prev EXCEPT ![item] = NoTask]
      /\ mt # Nobody /\ UNCHANGED <<mt, tasks, pool>>
  BY DEF List!ClearStep
<1>3. PICK j \in 1 .. n + 1 : ClearingAt(j)
  BY <1>2
<1>4. j \in 1 .. n /\ item = tasks[j] /\ Node(j) = item
  BY <1>1, <1>2, <1>3 DEF ClearingAt, Node
<1>5. \A i \in j + 1 .. n : i \in DOMAIN tasks /\ tasks[i] # item /\ Node(i) = tasks[i]
  BY <1>1, <1>4 DEF OwnInv, QueueOwns, Node
<1>6. \A i : Node(i)' = Node(i)
  BY <1>2 DEF Node
<1>7. item' = Node(j + 1)
  <2>1. j \in j .. n
    BY <1>1, <1>4
  <2>2. next[Node(j)] = Node(j + 1)
    BY <1>3, <2>1 DEF ClearingAt
  <2> QED
    BY <1>2, <1>4, <2>2
<1>8. \A i \in j + 1 .. n : next'[Node(i)] = Node(i + 1)
  BY <1>1, <1>2, <1>3, <1>4, <1>5 DEF ClearingAt, RingTypes
<1>9. members' = {tasks[i] : i \in j + 1 .. n}
  BY <1>1, <1>2, <1>3, <1>4, <1>5 DEF ClearingAt
<1>10. ClearingAt(j + 1)'
  BY <1>2, <1>6, <1>7, <1>8, <1>9 DEF ClearingAt
<1>11. j + 1 \in 1 .. Len(tasks') + 1
  BY <1>1, <1>2, <1>4
<1>12. RingTypes'
  BY <1>2 DEF RingTypes
<1> QED
  BY <1>2, <1>10, <1>11, <1>12

\* The clear ends when it is back at the head, with no task left on the ring.
LEMMA RingCleared ==
  ASSUME TypeOK, ListInv, NEW c \in Clients, StopCleared(c) PROVE ListInv'
<1> USE DEF StopCleared, StopBroadcast, ClearTasks, Discard, ListInv, Nodes
<1> DEFINE n == Len(tasks)
<1>1. n \in Nat /\ DOMAIN tasks = 1 .. n /\ \A i \in 1 .. n : tasks[i] \in Tasks
  BY DEF TypeOK
<1>2. /\ item = ListHead /\ members' = members /\ size' = 0 /\ item' = NoTask
      /\ next' = [next EXCEPT ![ListHead] = ListHead]
      /\ prev' = [prev EXCEPT ![ListHead] = ListHead]
      /\ mt # Nobody /\ mt' = Nobody
  BY DEF List!ClearEnd
<1>3. PICK j \in 1 .. n + 1 : ClearingAt(j)
  BY <1>2
<1>4. j = n + 1
  BY <1>1, <1>2, <1>3 DEF ClearingAt, Node
<1>5. members' = {}
  BY <1>1, <1>2, <1>3, <1>4 DEF ClearingAt
<1>6. Len(tasks') = 0 /\ Range(tasks') = {} /\ DOMAIN tasks' = {}
  BY DEF Range
<1>7. RingTypes'
  BY <1>2 DEF RingTypes
<1>8. Spelled'
  BY <1>2, <1>5, <1>6 DEF Spelled, Node, RingTypes
<1> QED
  BY <1>2, <1>7, <1>8

\* The other sections leave the queue alone, or free the pool with it.
LEMMA RingSection ==
  ASSUME TypeOK, ListInv,
         \/ \E c \in Clients : ClientSection(c)
         \/ \E w \in Workers : WorkerSection(w)
         \/ Unlocked
  PROVE  ListInv'
<1> USE DEF ListInv
<1>1. UNCHANGED <<ring, mt>>
  BY DEF ClientSection, WorkerSection, Unlocked, Locked
<1>2. RingTypes'
  BY <1>1 DEF ring, RingTypes
<1>3. ASSUME UNCHANGED <<pool, tasks>> PROVE ListInv'
  <2>1. \A i : Node(i)' = Node(i)
    BY <1>3 DEF Node
  <2>2. Spelled => Spelled'
    BY <1>1, <1>3, <2>1 DEF ring, Spelled
  <2>3. \A j \in 1 .. Len(tasks) + 1 : ClearingAt(j) => ClearingAt(j)'
    BY <1>1, <1>3, <2>1 DEF ring, ClearingAt
  <2> QED
    BY <1>1, <1>2, <1>3, <2>2, <2>3 DEF ring
<1>4. ASSUME NEW c \in Clients, ClientSection(c) PROVE ListInv'
  <2>1. CASE StartAlloc(c) \/ StopFree(c)
    <3>1. mt = Nobody /\ pool' # "live"
      BY <1>4, <2>1 DEF ClientSection, Locked, StartAlloc, StopFree
    <3> QED
      BY <1>1, <1>2, <3>1 DEF ring
  <2>2. CASE StartAgain(c) \/ StopNoPool(c) \/ WaitSleep(c) \/ WaitReturn(c)
    BY <1>3, <2>2 DEF StartAgain, StopNoPool, WaitSleep, WaitReturn
  <2> QED
    BY <1>4, <2>1, <2>2 DEF ClientSection, Locked
<1>5. ASSUME NEW w \in Workers, WorkerSection(w) PROVE ListInv'
  BY <1>3, <1>5 DEF WorkerSection, Locked, WorkerSleep, WorkerExit, WorkerFinish
<1>6. CASE Unlocked
  BY <1>3, <1>6 DEF Unlocked, Call, CallStart, CallStop, CallWait, CallSubmit, TaskReturn,
                    SpuriousWakeup
<1> QED
  BY <1>4, <1>5, <1>6

\* Every step keeps the ring in step with the queue.
LEMMA RingStep ==
  ASSUME TypeOK, WorkersInsidePool, OwnInv, CreateInv, ListInv, [PoolNext]_poolVars
  PROVE  ListInv'
<1>1. ASSUME UNCHANGED poolVars PROVE ListInv'
  <2>1. UNCHANGED <<next, prev, size, members, item, mt, pool, tasks>>
    BY <1>1 DEF poolVars, vars, ring
  <2>2. \A i : Node(i)' = Node(i)
    BY <2>1 DEF Node
  <2>3. \A j \in 1 .. Len(tasks) + 1 : ClearingAt(j) => ClearingAt(j)'
    BY <2>1, <2>2 DEF ClearingAt
  <2>4. (Spelled => Spelled') /\ (RingTypes => RingTypes')
    BY <2>1, <2>2 DEF Spelled, RingTypes
  <2> QED
    BY <2>1, <2>3, <2>4 DEF ListInv
<1>2. ASSUME NEW c \in Clients, PoolClient(c) PROVE ListInv'
  BY <1>2, RingSection, RingCreate, RingClear, RingDestroy, RingCleared DEF PoolClient
<1>3. ASSUME NEW w \in Workers, PoolWorker(w) PROVE ListInv'
  BY <1>3, RingSection, RingTake DEF PoolWorker
<1> QED
  BY <1>1, <1>2, <1>3, RingInsert, RingSection DEF PoolNext

\* Whenever a thread gets pool->mt in tpool.c, the ring of list.c holds the tasks in
\* the order of their submission, in both directions, and tasks.size, by which it
\* sleeps or goes on, is their number; it takes that the workers fit thread_count,
\* as otherwise one may take from a pool that is gone.
THEOREM RingHoldsQueue == ASSUME FitsCounter PROVE PoolSpec => []QueueOnRing
<1>1. Init => LockInv /\ CreateInv
  BY DEF Init, LockInv, CreateInv, Threads
<1>2. TypeOK /\ LockInv /\ CreateInv /\ [Next]_vars => LockInv' /\ CreateInv'
  BY LockStep
<1>3. Spec => []CreateInv
  BY <1>1, <1>2, TypeCorrect, PTL DEF Spec
<1>4. TypeOK /\ WorkersInsidePool /\ OwnInv /\ CreateInv /\ ListInv /\ [PoolNext]_poolVars => ListInv'
  BY RingStep
<1>5. OwnInv /\ ListInv => QueueOnRing
  BY DEF OwnInv, QueueOwns, ListInv, Spelled, QueueOnRing
<1> QED
  BY <1>3, <1>4, <1>5, RingInit, RingIsPool, TypeCorrect, WorkersStayInside, OwnersKnown, PTL DEF PoolSpec
=============================================================================
