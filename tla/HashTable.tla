----------------------------- MODULE HashTable -----------------------------
(***************************************************************************)
(* The hash table of src/table.c: a power of two of buckets, each a list of *)
(* nodes, each with a key and one value or a list of values.  A table is    *)
(* used by one thread; what happens between the steps of cctable_iter is    *)
(* its callback, which may insert into the table that is being walked.      *)
(***************************************************************************)
EXTENDS Integers, Sequences, FiniteSets, FiniteSetsExt, SequencesExt

CONSTANTS
  Keys,      \* the strings used as keys
  Values,    \* the objects stored, each inserted at most once
  Hashes,    \* the values of hash_string
  Counts,    \* the arguments count of cctable_init
  Width,     \* bits of a size_t
  Shifts,    \* the shifts of next_power_of_2: half of the bits of a size_t
  None       \* a null pointer

ASSUME TableAssumption ==
  /\ None \notin Keys \cup Values \cup Seq(Values)
  /\ None \notin [bucket : Nat, key : Keys, value : Values]
  /\ IsFiniteSet(Keys)
  /\ Hashes \subseteq Nat

\* The powers of two, up to the one that is behind a word.
Power[i \in 0 .. Width] == IF i = 0 THEN 1 ELSE 2 * Power[i - 1]

\* The shifts are doubled up to a quarter of the word, and no count needs more than half of it.
ASSUME WordAssumption ==
  /\ Width \in Nat
  /\ Shifts \in Seq(1 .. Width) /\ Len(Shifts) <= Width
  /\ \A i \in DOMAIN Shifts : Shifts[i] = Power[i - 1]
  /\ Width = 2 * Power[Len(Shifts)]
  /\ Counts \subseteq 1 .. Power[Width \div 2]

VARIABLES
  hash,      \* hash_string, any function of the keys
  count,     \* the argument of cctable_init
  buckets,   \* table->buckets, or <<>> when there is none
  capacity, size, allow_multiple,   \* the other fields of the table
  clearing,  \* the bucket that cctable_deinit is at, or 0
  des,       \* TRUE if that has a destructor, FALSE if it was given NULL
  mapped,    \* the keys inserted since cctable_init
  fate,      \* what the caller may expect of each value
  calls,     \* how often the destructor was called with each value
  found,     \* what the last lookup returned
  at,        \* the node and value that cctable_iter is at, or None
  visited,   \* the values given to the callback of the last cctable_iter
  present    \* those that were in the table when it began

walk == <<at, visited, present>>
table == <<count, buckets, capacity, size, allow_multiple>>
deinit == <<clearing, des>>
expected == <<mapped, fate, calls>>
vars == <<hash, table, deinit, expected, found, walk>>

-----------------------------------------------------------------------------
(* next_power_of_2 *)

\* Bit i of n, and the bitwise or of two words.
Bit(n, i) == (n \div Power[i]) % 2

Or(m, n) ==
  LET low[i \in 0 .. Width] ==
        IF i = 0 THEN 0
        ELSE low[i - 1] + (IF Bit(m, i - 1) + Bit(n, i - 1) = 0 THEN 0 ELSE Power[i - 1])
  IN  low[Width]

\* The bits of v and, below each of them, those that the shifts reach.
Smeared(v) ==
  LET w[i \in 0 .. Len(Shifts)] ==
        IF i = 0 THEN v ELSE Or(w[i - 1], w[i - 1] \div Power[Shifts[i]])
  IN  w[Len(Shifts)]

\* Fault: a power of two is taken to the next one.
next_power_above(v) == (Smeared(v % Power[Width]) + 1) % Power[Width]

next_power_of_2(v) == (Smeared((v - 1) % Power[Width]) + 1) % Power[Width]

-----------------------------------------------------------------------------
\* The mask of the hash, for a capacity that is a power of two.
BucketOf(k) == (hash[k] % capacity) + 1

\* The place in a bucket of the first node with the key k, or 0.
NodeIn(bucket, k) ==
  LET hits == {i \in DOMAIN bucket : bucket[i].key = k}
  IN  IF hits = {} THEN 0 ELSE Min(hits)

\* Fault: the search leaves out the first node.
FindBehind(k) == LET bucket == buckets[BucketOf(k)]
                     i == NodeIn(bucket, k)
                 IN  IF i \in {0, 1} THEN None ELSE bucket[i].values

\* Every loop over a bucket that looks for a key.
Find(k) == LET bucket == buckets[BucketOf(k)]
               i == NodeIn(bucket, k)
           IN  IF i = 0 THEN None ELSE bucket[i].values

Stored == UNION {UNION {ToSet(b[j].values) : j \in DOMAIN b} : b \in ToSet(buckets)}

\* Fault: the new value goes behind the others.
InFrontNot(v, values) == Append(values, v)

InFront(v, values) == <<v>> \o values

\* The table has buckets.
Ready == capacity # 0

\* Outside cctable_iter, and in its callback: the destructor leaves the table alone.
Usable == Ready /\ clearing = 0

cctable_init(n, multiple) ==
  /\ ~Ready
  /\ count' = n
  /\ capacity' = next_power_of_2(n)
  /\ buckets' = [i \in 1 .. capacity' |-> <<>>]
  /\ size' = 0
  /\ allow_multiple' = multiple
  /\ mapped' = {}
  /\ UNCHANGED <<hash, deinit, fate, calls, found, walk>>

\* A key that is new gets a node at the front of its bucket.
NewNode(k, v) ==
  /\ Find(k) = None
  /\ buckets' = [buckets EXCEPT ![BucketOf(k)] = <<[key |-> k, values |-> <<v>>]>> \o @]
  /\ size' = size + 1

\* A key that is there keeps its value in a table of single values.
insert_single(k, v) ==
  \/ NewNode(k, v)
  \/ /\ Find(k) # None
     /\ UNCHANGED <<buckets, size>>

\* It gets the new value in front of the others in a table of many.
insert_many(k, v) ==
  \/ NewNode(k, v)
  \/ /\ Find(k) # None
     /\ LET b == BucketOf(k)
            i == NodeIn(buckets[b], k)
        IN  buckets' = [buckets EXCEPT ![b][i].values = InFront(v, @)]
     /\ size' = size + 1

\* The caller may expect the table to keep a value, but for one under a key that
\* a table of single values was given before.
cctable_insert(k, v) ==
  /\ Usable
  /\ fate[v] = "out"
  /\ IF allow_multiple THEN insert_many(k, v) ELSE insert_single(k, v)
  /\ mapped' = mapped \cup {k}
  /\ fate' = [fate EXCEPT ![v] = IF allow_multiple \/ k \notin mapped THEN "stored" ELSE "refused"]
  /\ UNCHANGED <<hash, count, capacity, allow_multiple, deinit, calls, found, walk>>

\* cctable_get_one and cctable_get_many, each asserted to be for its kind.
cctable_get(k) == /\ Usable
                  /\ found' = Find(k)
                  /\ UNCHANGED <<hash, table, deinit, expected, walk>>

-----------------------------------------------------------------------------
(* cctable_deinit: a loop over the buckets, that clears each node by node with *)
(* the node destructor of the kind of the table, which calls the destructor.   *)

\* What node_destructor_single leaves of a bucket after one call of the destructor.
node_destructor_single(bucket) == Tail(bucket)

\* What node_destructor_many leaves: it clears the values of a node one by one, then frees it.
node_destructor_many(bucket) ==
  IF Len(bucket[1].values) = 1 THEN Tail(bucket) ELSE [bucket EXCEPT ![1].values = Tail(bucket[1].values)]

\* Fault: node_destructor_single for either kind of table.
SingleDestructor(bucket) == node_destructor_single(bucket)

node_destructor(bucket) ==
  IF allow_multiple THEN node_destructor_many(bucket) ELSE node_destructor_single(bucket)

\* The caller expects a destructor to be called with all that the table has kept.
DeinitBegin(destructor) ==
  /\ Usable
  /\ at = None
  /\ clearing' = 1
  /\ des' = destructor
  /\ fate' = [v \in Values |-> IF fate[v] # "stored" THEN fate[v]
                              ELSE IF destructor THEN "due" ELSE "left"]
  /\ UNCHANGED <<hash, table, mapped, calls, found, walk>>

\* Calls the destructor, if there is one, on one value.
DeinitValue ==
  /\ clearing \in DOMAIN buckets
  /\ buckets[clearing] # <<>>
  /\ LET v == buckets[clearing][1].values[1]
     IN  calls' = IF des THEN [calls EXCEPT ![v] = @ + 1] ELSE calls
  /\ buckets' = [buckets EXCEPT ![clearing] = node_destructor(buckets[clearing])]
  /\ UNCHANGED <<hash, count, capacity, size, allow_multiple, deinit, mapped, fate, found, walk>>

DeinitBucket ==
  /\ clearing \in DOMAIN buckets
  /\ buckets[clearing] = <<>>
  /\ clearing' = clearing + 1
  /\ UNCHANGED <<hash, table, des, expected, found, walk>>

DeinitEnd ==
  /\ clearing = capacity + 1
  /\ buckets' = <<>>
  /\ capacity' = 0
  /\ size' = 0
  /\ clearing' = 0
  /\ des' = FALSE
  /\ UNCHANGED <<hash, count, allow_multiple, expected, found, walk>>

cctable_deinit == \/ \E destructor \in BOOLEAN : DeinitBegin(destructor)
                  \/ DeinitValue \/ DeinitBucket \/ DeinitEnd

-----------------------------------------------------------------------------
(* cctable_iter: a walk over the buckets, the nodes of each and the values of *)
(* each node.  A position is a bucket, the key of a node and a value.         *)

\* The first value at or after the node number j of the bucket i, or None.
Position(i, j) ==
  LET places == {p \in (i .. capacity) \X (1 .. Cardinality(Keys)) :
                   p[2] \in DOMAIN buckets[p[1]] /\ (p[1] = i => p[2] >= j)}
      first == CHOOSE p \in places :
                 \A q \in places : p[1] < q[1] \/ (p[1] = q[1] /\ p[2] <= q[2])
  IN  IF places = {} THEN None
      ELSE LET node == buckets[first[1]][first[2]]
           IN  [bucket |-> first[1], key |-> node.key, value |-> node.values[1]]

\* Fault: the walk leaves a node after its first value.
AfterFirst(p) == Position(p.bucket, NodeIn(buckets[p.bucket], p.key) + 1)

\* The value after the one at p, by the links as they are now.
After(p) ==
  LET j == NodeIn(buckets[p.bucket], p.key)
      values == buckets[p.bucket][j].values
      n == CHOOSE i \in DOMAIN values : values[i] = p.value
  IN  IF n < Len(values) THEN [p EXCEPT !.value = values[n + 1]]
      ELSE Position(p.bucket, j + 1)

IterBegin == /\ Usable
             /\ at = None
             /\ at' = Position(1, 1)
             /\ present' = Stored
             /\ visited' = <<>>
             /\ UNCHANGED <<hash, table, deinit, expected, found>>

\* Calls the callback on the value it is at, and moves on when that returns:
\* what the callback inserts comes between two of these steps.
IterVisit == /\ at # None
             /\ visited' = Append(visited, at.value)
             /\ at' = After(at)
             /\ UNCHANGED <<hash, table, deinit, expected, found, present>>

-----------------------------------------------------------------------------
Init == /\ hash \in [Keys -> Hashes]
        /\ count = 0
        /\ buckets = <<>>
        /\ capacity = 0
        /\ size = 0
        /\ allow_multiple \in BOOLEAN
        /\ clearing = 0
        /\ des = FALSE
        /\ mapped = {}
        /\ fate = [v \in Values |-> "out"]
        /\ calls = [v \in Values |-> 0]
        /\ found = None
        /\ at = None
        /\ visited = <<>>
        /\ present = {}

Next == \/ \E n \in Counts, multiple \in BOOLEAN : cctable_init(n, multiple)
        \/ \E k \in Keys, v \in Values : cctable_insert(k, v)
        \/ \E k \in Keys : cctable_get(k)
        \/ IterBegin \/ IterVisit \/ cctable_deinit

Spec == Init /\ [][Next]_vars

-----------------------------------------------------------------------------
(* Properties *)

\* The nodes are well formed, in the bucket of their key and one for each key:
\* what every lookup relies on.
NodesPlaced ==
  \A i \in DOMAIN buckets : \A j \in DOMAIN buckets[i] :
    /\ buckets[i][j].values # <<>>
    /\ BucketOf(buckets[i][j].key) = i
    /\ NodeIn(buckets[i], buckets[i][j].key) = j

\* The capacity is the least power of two that is at least count: the bits of
\* count - 1 smeared to the right, although by half the width of the word.
CapacityFits ==
  Ready => LET powers == {Power[i] : i \in 0 .. Width - 1}
           IN  capacity = Min({p \in powers : p >= count})

\* table->size counts the values, of all keys together, until they are destroyed.
SizeCounts == clearing = 0 => size = Cardinality(Stored)

\* What lookups and users rely on after any insertions into either kind of table:
\* one node for each key, in its bucket, and a size that is the number of values.
TableInv == NodesPlaced /\ SizeCounts

\* The table keeps every value but those under a key that a table of single values had,
\* and cctable_deinit calls the destructor once with each of them, when there is one, and
\* with no other: not with one that was refused, nor again with those of an earlier table.
DestroyedOnce ==
  \A v \in Values :
    /\ fate[v] = "stored" <=> clearing = 0 /\ v \in Stored
    /\ calls[v] = IF fate[v] = "due" /\ v \notin Stored THEN 1 ELSE 0

\* As the header says, cctable_insert maps the key to the object: a lookup of the key
\* finds it.  It does not for a key that a table of single values has.
InsertedIsFound ==
  [][\A k \in Keys, v \in Values : cctable_insert(k, v) => v \in ToSet(Find(k)')]_vars

\* A walk gives every value that was there when it began to the callback, and
\* no value twice, whatever the callback inserts meanwhile.
WalkVisitsAll ==
  [][IterVisit /\ at' = None => present \subseteq ToSet(visited') /\ IsInjective(visited')]_vars

-----------------------------------------------------------------------------
(* Refinement: the table is a map *)

Map == INSTANCE TableMap WITH
  ready    <- Usable,
  multiple <- allow_multiple,
  map      <- [k \in Keys |-> IF Usable /\ Find(k) # None THEN Find(k) ELSE <<>>]

ImplementsTableMap == Map!Spec
=============================================================================
