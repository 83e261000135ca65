-------------------------- MODULE LinkedListProofs --------------------------
(***************************************************************************)
(* Proofs about LinkedList, for any finite set of objects, with assertions  *)
(* and without: the ring stays closed and counted, and it is a sequence.    *)
(***************************************************************************)
EXTENDS LinkedList, WellFoundedInduction, FiniteSetTheorems, SequenceTheorems, TLAPS

USE NodesAssumption DEF NodesAssumption

-----------------------------------------------------------------------------
(* The inductive invariant: a sequence that the ring spells.                 *)

Distinct(q) == q \in Seq(Objects) /\ \A i, j \in 1 .. Len(q) : q[i] = q[j] => i = j

\* The node at a place of the ring; the head is before the first and after the last.
Node(q, i) == IF i \in 1 .. Len(q) THEN q[i] ELSE ListHead

Spelled(q) == \A i \in 0 .. Len(q) : /\ next[Node(q, i)] = Node(q, i + 1)
                                     /\ prev[Node(q, i + 1)] = Node(q, i)

Holds(q) == members = {q[i] : i \in 1 .. Len(q)}

RingOf(q) == Distinct(q) /\ Spelled(q) /\ Holds(q)

\* No clear is in progress: the ring is the sequence q.
AtRest(q) == RingOf(q) /\ item = Null /\ size = Len(q)

\* A clear has q left to destroy, from item on.
Clearing(q) == /\ Distinct(q)
               /\ item = Node(q, 1)
               /\ \A i \in 1 .. Len(q) : next[q[i]] = Node(q, i + 1)
               /\ Holds(q)

ListInv == TypeOK /\ \E q : AtRest(q) \/ Clearing(q)

-----------------------------------------------------------------------------
(* Induction, and the lengths of sequences without repetition.               *)

\* Induction on a set of numbers.
LEMMA SetInduction ==
  ASSUME NEW S \in SUBSET Nat, 0 \in S, \A n \in S : n + 1 \in S
  PROVE  S = Nat
<1> SUFFICES ASSUME Nat \ S # {} PROVE FALSE
  BY Zenon
<1>1. \E x \in Nat \ S : \A y \in Nat \ S : ~(<<y, x>> \in OpToRel(<, Nat))
  BY NatLessThanWellFounded, WFMin, Zenon
<1>2. PICK x \in Nat \ S : \A y \in Nat \ S : ~(<<y, x>> \in OpToRel(<, Nat))
  BY <1>1, Zenon
<1>3. \A y \in Nat : y < x => y \in S
  BY <1>2, Zenon DEF OpToRel
<1>4. x # 0 /\ x \in Nat
  OBVIOUS
<1>5. x - 1 \in Nat /\ x - 1 < x /\ x - 1 + 1 = x
  BY <1>4
<1> QED
  BY <1>2, <1>3, <1>5

\* A sequence of distinct objects has as many as its set, and no more than there are.
LEMMA DistinctCounts ==
  ASSUME NEW q, Distinct(q)
  PROVE  /\ Cardinality({q[i] : i \in 1 .. Len(q)}) = Len(q)
         /\ Len(q) <= Cardinality(Objects)
         /\ Len(q) \in Nat /\ Cardinality(Objects) \in Nat
<1> DEFINE n == Len(q)
           M == {q[i] : i \in 1 .. n}
           f == [i \in 1 .. n |-> q[i]]
<1>1. /\ n \in Nat /\ \A i \in 1 .. n : q[i] \in Objects
      /\ \A i, j \in 1 .. n : q[i] = q[j] => i = j
  BY DEF Distinct
<1> HIDE DEF n
<1>2. f \in Bijection(1 .. n, M)
  BY <1>1 DEF Bijection, Injection, Surjection, IsInjective
<1>3. ExistsBijection(1 .. n, M)
  BY <1>2, Zenon DEF ExistsBijection
<1>4. Cardinality(M) = n
  BY <1>1, <1>3, FS_CountingElements
<1>5. M \subseteq Objects
  BY <1>1
<1>6. Cardinality(M) <= Cardinality(Objects) /\ Cardinality(Objects) \in Nat
  BY <1>5, FS_Subset, FS_CardinalityType
<1> QED
  BY <1>1, <1>4, <1>6, Zenon DEF n

\* The nodes of the ring, and where one can be.
LEMMA NodesOf ==
  ASSUME NEW q, Distinct(q)
  PROVE  /\ Len(q) \in Nat
         /\ \A i \in 1 .. Len(q) : q[i] \in Objects /\ Node(q, i) = q[i]
         /\ Node(q, 0) = ListHead /\ Node(q, Len(q) + 1) = ListHead
         /\ \A i \in 0 .. Len(q) + 1 : Node(q, i) \in Nodes
         /\ \A i, j \in 0 .. Len(q) : Node(q, i) = Node(q, j) => i = j
         /\ \A i, j \in 1 .. Len(q) + 1 : Node(q, i) = Node(q, j) => i = j
<1>1. /\ Len(q) \in Nat /\ \A i \in 1 .. Len(q) : q[i] \in Objects
      /\ \A i, j \in 1 .. Len(q) : q[i] = q[j] => i = j
  BY DEF Distinct
<1>2. \A i : Node(q, i) = IF i \in 1 .. Len(q) THEN q[i] ELSE ListHead
  BY DEF Node
<1>3. \A i \in 0 .. Len(q) + 1 : Node(q, i) \in Nodes
  BY <1>1, <1>2 DEF Nodes
<1>4. \A i \in 0 .. Len(q) : i \in 1 .. Len(q) \/ (i = 0 /\ i \notin 1 .. Len(q))
  BY <1>1
<1>5. \A i \in 1 .. Len(q) + 1 : i \in 1 .. Len(q) \/ (i = Len(q) + 1 /\ i \notin 1 .. Len(q))
  BY <1>1
<1>6. \A i, j \in 0 .. Len(q) : Node(q, i) = Node(q, j) => i = j
  BY <1>1, <1>2, <1>4
<1>7. \A i, j \in 1 .. Len(q) + 1 : Node(q, i) = Node(q, j) => i = j
  BY <1>1, <1>2, <1>5
<1>8. 0 \notin 1 .. Len(q) /\ Len(q) + 1 \notin 1 .. Len(q)
  BY <1>1
<1> QED
  BY <1>1, <1>2, <1>3, <1>6, <1>7, <1>8

-----------------------------------------------------------------------------
(* What Path finds.                                                          *)

\* The links followed from n along q to a node that is no object find q.
LEMMA PathEnds ==
  ASSUME NEW q, Distinct(q), NEW f, NEW e, e \notin Objects, NEW n,
         n = IF Len(q) = 0 THEN e ELSE q[1],
         \A i \in 1 .. Len(q) : f[q[i]] = IF i = Len(q) THEN e ELSE q[i + 1]
  PROVE  Path(f, n) = q
<1> DEFINE Count == Cardinality(Objects)
           Walks(h) == h = [i \in 0 .. Count |-> IF i = 0 THEN n
                                                 ELSE IF h[i - 1] \in Objects THEN f[h[i - 1]]
                                                                              ELSE h[i - 1]]
           at == CHOOSE h : Walks(h)
           w == [i \in 0 .. Count |-> IF i < Len(q) THEN q[i + 1] ELSE e]
<1>1. Path(f, n) = [i \in 1 .. Cardinality({j \in 0 .. Count : at[j] \in Objects}) |-> at[i - 1]]
  BY DEF Path
<1>2a. Len(q) \in Nat /\ Count \in Nat /\ Len(q) <= Count
  BY DistinctCounts
<1>2b. \A i \in 1 .. Len(q) : q[i] \in Objects
  BY DEF Distinct
<1>2. Len(q) \in Nat /\ Count \in Nat /\ Len(q) <= Count /\ \A i \in 1 .. Len(q) : q[i] \in Objects
  BY <1>2a, <1>2b
<1> HIDE DEF Count
<1>3. \A i \in 1 .. Count : w[i] = IF w[i - 1] \in Objects THEN f[w[i - 1]] ELSE w[i - 1]
  <2> SUFFICES ASSUME NEW i \in 1 .. Count
               PROVE  w[i] = IF w[i - 1] \in Objects THEN f[w[i - 1]] ELSE w[i - 1]
    OBVIOUS
  <2>1. i - 1 \in 0 .. Count /\ i \in 0 .. Count /\ i - 1 + 1 = i
    BY <1>2
  <2>2. CASE i < Len(q)
    <3>1. w[i - 1] = q[i] /\ w[i] = q[i + 1] /\ i \in 1 .. Len(q) /\ i + 1 \in 1 .. Len(q)
      BY <1>2, <2>1, <2>2
    <3> QED
      BY <1>2, <3>1
  <2>3. CASE i = Len(q)
    <3>1. i \in 1 .. Len(q) /\ i - 1 < Len(q) /\ ~(i < Len(q))
      BY <1>2, <2>3
    <3>2. w[i - 1] = q[i] /\ w[i] = e
      BY <2>1, <3>1
    <3> QED
      BY <1>2, <2>3, <3>1, <3>2
  <2>4. CASE i > Len(q)
    <3>1. w[i - 1] = e /\ w[i] = e
      BY <1>2, <2>1, <2>4
    <3> QED
      BY <3>1
  <2> QED
    BY <1>2, <2>2, <2>3, <2>4
<1>4. w[0] = n
  <2>1. 0 \in 0 .. Count
    BY <1>2
  <2>2. CASE Len(q) = 0
    BY <1>2, <2>1, <2>2
  <2>3. CASE Len(q) # 0
    BY <1>2, <2>1, <2>3
  <2> QED
    BY <2>2, <2>3
<1>5. Walks(w)
  <2> DEFINE v == [i \in 0 .. Count |-> IF i = 0 THEN n
                                        ELSE IF w[i - 1] \in Objects THEN f[w[i - 1]] ELSE w[i - 1]]
  <2>1. \A i \in 0 .. Count : w[i] = IF i = 0 THEN n
                                     ELSE IF w[i - 1] \in Objects THEN f[w[i - 1]] ELSE w[i - 1]
    <3>1. \A i \in 0 .. Count : i = 0 \/ i \in 1 .. Count
      BY <1>2
    <3> HIDE DEF w
    <3> QED
      BY <1>3, <1>4, <3>1
  <2>2. DOMAIN w = 0 .. Count /\ w = [i \in 0 .. Count |-> w[i]]
    OBVIOUS
  <2> HIDE DEF w
  <2>3. w = v
    BY <2>1, <2>2
  <2> QED
    BY <2>3
<1>6. Walks(at)
  BY <1>5
<1> HIDE DEF at
<1>8. \A i \in 0 .. Count : at[i] = IF i = 0 THEN n
                                    ELSE IF at[i - 1] \in Objects THEN f[at[i - 1]] ELSE at[i - 1]
  BY <1>6
<1> HIDE DEF w, Walks
<1>9. \A i \in 0 .. Count : at[i] = w[i]
  <2> DEFINE S == {i \in Nat : i \in 0 .. Count => at[i] = w[i]}
  <2>1. 0 \in S
    BY <1>2, <1>4, <1>8
  <2>2. ASSUME NEW i \in S PROVE i + 1 \in S
    <3> SUFFICES ASSUME i + 1 \in 0 .. Count PROVE at[i + 1] = w[i + 1]
      OBVIOUS
    <3>1. i \in 0 .. Count /\ i + 1 \in 1 .. Count /\ i + 1 - 1 = i /\ i + 1 # 0
      BY <1>2
    <3>2. at[i] = w[i]
      BY <3>1
    <3> QED
      BY <1>3, <1>8, <3>1, <3>2
  <2>3. S = Nat
    <3> HIDE DEF S
    <3>1. S \in SUBSET Nat
      BY DEF S
    <3> QED
      BY <2>1, <2>2, <3>1, SetInduction
  <2> QED
    BY <2>3
<1>10. \A j \in 0 .. Count : at[j] = IF j < Len(q) THEN q[j + 1] ELSE e
  BY <1>9 DEF w
<1>11. {j \in 0 .. Count : at[j] \in Objects} = 0 .. Len(q) - 1
  <2>1. \A j \in 0 .. Count : j < Len(q) => j + 1 \in 1 .. Len(q)
    BY <1>2
  <2>2. \A j \in 0 .. Count : at[j] \in Objects <=> j < Len(q)
    BY <1>2, <1>10, <2>1
  <2> QED
    BY <1>2, <2>2
<1>12. Cardinality(0 .. Len(q) - 1) = Len(q)
  <2> DEFINE m == Len(q) - 1
  <2>1. 0 \in Int /\ m \in Int
    BY <1>2
  <2> HIDE DEF m
  <2>2. Cardinality(0 .. m) = IF 0 > m THEN 0 ELSE m - 0 + 1
    BY <2>1, FS_Interval
  <2> QED
    BY <1>2, <2>2 DEF m
<1>13. \A i \in 1 .. Len(q) : at[i - 1] = q[i]
  <2> SUFFICES ASSUME NEW i \in 1 .. Len(q) PROVE at[i - 1] = q[i]
    OBVIOUS
  <2>1. i - 1 \in 0 .. Count /\ i - 1 < Len(q) /\ i - 1 + 1 = i
    BY <1>2
  <2> QED
    BY <1>10, <2>1
<1>14. Path(f, n) = [i \in 1 .. Len(q) |-> q[i]]
  BY <1>1, <1>11, <1>12, <1>13
<1>15. q = [i \in 1 .. Len(q) |-> q[i]]
  BY DEF Distinct
<1> QED
  BY <1>14, <1>15

\* The links from the first node of q on are q.
LEMMA PathIs ==
  ASSUME NEW q, Distinct(q), NEW f, NEW n, n = Node(q, 1),
         \A i \in 1 .. Len(q) : f[q[i]] = Node(q, i + 1)
  PROVE  Path(f, n) = q
<1>1. /\ Len(q) \in Nat
      /\ n = IF Len(q) = 0 THEN ListHead ELSE q[1]
      /\ \A i \in 1 .. Len(q) : f[q[i]] = IF i = Len(q) THEN ListHead ELSE q[i + 1]
  BY DEF Distinct, Node
<1> QED
  BY <1>1, PathEnds

\* No object is on a path from a node that is none.
LEMMA PathEmpty ==
  ASSUME NEW f, NEW n, n \notin Objects
  PROVE  Path(f, n) = <<>>
<1> DEFINE q == <<>>
<1>1. Distinct(q) /\ Len(q) = 0
  BY DEF Distinct
<1>2. \A i \in 1 .. Len(q) : f[q[i]] = IF i = Len(q) THEN n ELSE q[i + 1]
  BY <1>1
<1> HIDE DEF q
<1>3. n = IF Len(q) = 0 THEN n ELSE q[1]
  BY <1>1
<1>4. Path(f, n) = q
  BY <1>1, <1>2, <1>3, PathEnds
<1> QED
  BY <1>4 DEF q

-----------------------------------------------------------------------------
(* An object more, an object less.                                           *)

\* r is q with o behind its first k.
Inserted(r, q, k, o) ==
  /\ r \in Seq(Objects)
  /\ Len(r) = Len(q) + 1
  /\ \A j \in 1 .. Len(q) + 1 :
       r[j] = IF j <= k THEN q[j] ELSE IF j = k + 1 THEN o ELSE q[j - 1]

\* r is q without its k-th.
Removed(r, q, k) == /\ r \in Seq(Objects)
                    /\ Len(r) = Len(q) - 1
                    /\ \A j \in 1 .. Len(q) - 1 : r[j] = IF j < k THEN q[j] ELSE q[j + 1]

\* What InsertAt of the community modules makes of a sequence.
LEMMA InsertAtIs ==
  ASSUME NEW q \in Seq(Objects), NEW k \in 0 .. Len(q), NEW o \in Objects,
         NEW r, r = Abstract!InsertAt(q, k + 1, o)
  PROVE  Inserted(r, q, k, o)
<1> DEFINE a == SubSeq(q, 1, k)
           c == SubSeq(q, k + 1, Len(q))
<1>1. Len(q) \in Nat /\ k \in Nat /\ k <= Len(q) /\ (k + 1) - 1 = k
  OBVIOUS
<1>2. a \in Seq(Objects) /\ Len(a) = k /\ \A j \in 1 .. k : a[j] = q[j]
  BY <1>1
<1>3. c \in Seq(Objects) /\ Len(c) = Len(q) - k /\ \A j \in 1 .. Len(q) - k : c[j] = q[j + k]
  BY <1>1
<1> DEFINE b == a \o <<o>>
<1>4. r = b \o c
  <2>1. r = SubSeq(q, 1, (k + 1) - 1) \o <<o>> \o c
    BY Zenon DEF Abstract!InsertAt
  <2> QED
    BY <1>1, <2>1, Zenon
<1> HIDE DEF a, c
<1>5. b \in Seq(Objects) /\ Len(b) = k + 1 /\ \A j \in 1 .. k + 1 : b[j] = IF j <= k THEN q[j] ELSE o
  BY <1>1, <1>2
<1> HIDE DEF b
<1>6. /\ r \in Seq(Objects)
      /\ Len(r) = Len(b) + Len(c)
      /\ \A j \in 1 .. Len(b) + Len(c) : r[j] = IF j <= Len(b) THEN b[j] ELSE c[j - Len(b)]
  <2>1. b \in Seq(Objects) /\ c \in Seq(Objects)
    BY <1>3, <1>5
  <2> QED
    BY <1>4, <2>1, ConcatProperties
<1>7. Len(b) + Len(c) = Len(q) + 1
  BY <1>1, <1>3, <1>5
<1>8. ASSUME NEW j \in 1 .. Len(q) + 1
      PROVE  r[j] = IF j <= k THEN q[j] ELSE IF j = k + 1 THEN o ELSE q[j - 1]
  <2>1. r[j] = IF j <= k + 1 THEN b[j] ELSE c[j - (k + 1)]
    BY <1>5, <1>6, <1>7
  <2>2. CASE j <= k + 1
    BY <1>1, <1>5, <2>1, <2>2
  <2>3. CASE ~(j <= k + 1)
    <3> DEFINE i == j - (k + 1)
    <3>1. i \in 1 .. Len(q) - k /\ i + k = j - 1
      BY <1>1, <2>3
    <3> HIDE DEF i
    <3>2. c[i] = q[j - 1]
      BY <1>3, <3>1
    <3> QED
      BY <1>1, <2>1, <2>3, <3>2 DEF i
  <2> QED
    BY <2>2, <2>3
<1> QED
  BY <1>6, <1>7, <1>8 DEF Inserted

\* What RemoveAt of the community modules makes of a sequence.
LEMMA RemoveAtIs ==
  ASSUME NEW q \in Seq(Objects), NEW k \in 1 .. Len(q),
         NEW r, r = Abstract!RemoveAt(q, k)
  PROVE  Removed(r, q, k)
<1> DEFINE a == SubSeq(q, 1, k - 1)
           c == SubSeq(q, k + 1, Len(q))
<1>1. Len(q) \in Nat /\ k \in Nat /\ 1 <= k /\ k <= Len(q) /\ k - 1 \in Nat
  OBVIOUS
<1>2. a \in Seq(Objects) /\ Len(a) = k - 1 /\ \A j \in 1 .. k - 1 : a[j] = q[j]
  BY <1>1
<1>3. c \in Seq(Objects) /\ Len(c) = Len(q) - k /\ \A j \in 1 .. Len(q) - k : c[j] = q[j + k]
  BY <1>1
<1>4. r = a \o c
  BY DEF Abstract!RemoveAt
<1> HIDE DEF a, c
<1>5. /\ r \in Seq(Objects)
      /\ Len(r) = Len(a) + Len(c)
      /\ \A j \in 1 .. Len(a) + Len(c) : r[j] = IF j <= Len(a) THEN a[j] ELSE c[j - Len(a)]
  <2>1. a \in Seq(Objects) /\ c \in Seq(Objects)
    BY <1>2, <1>3
  <2> QED
    BY <1>4, <2>1, ConcatProperties
<1>6. Len(a) + Len(c) = Len(q) - 1
  BY <1>1, <1>2, <1>3
<1>7. ASSUME NEW j \in 1 .. Len(q) - 1
      PROVE  r[j] = IF j < k THEN q[j] ELSE q[j + 1]
  <2>1. r[j] = IF j <= k - 1 THEN a[j] ELSE c[j - (k - 1)]
    BY <1>2, <1>5, <1>6
  <2>2. CASE j < k
    BY <1>1, <1>2, <2>1, <2>2
  <2>3. CASE ~(j < k)
    <3> DEFINE i == j - (k - 1)
    <3>1. i \in 1 .. Len(q) - k /\ i + k = j + 1
      BY <1>1, <2>3
    <3> HIDE DEF i
    <3>2. c[i] = q[j + 1]
      BY <1>3, <3>1
    <3> QED
      BY <1>1, <2>1, <2>3, <3>2 DEF i
  <2> QED
    BY <2>2, <2>3
<1> QED
  BY <1>5, <1>6, <1>7 DEF Removed

\* An object linked in between two neighbours is in the sequence between them.
LEMMA InsertRing ==
  ASSUME NEW q, RingOf(q), NEW k \in 0 .. Len(q), NEW o \in Objects, o \notin members,
         NEW r, r = Abstract!InsertAt(q, k + 1, o),
         \A n \in Nodes : next'[n] = IF n = o THEN Node(q, k + 1)
                                     ELSE IF n = Node(q, k) THEN o ELSE next[n],
         \A n \in Nodes : prev'[n] = IF n = o THEN Node(q, k)
                                     ELSE IF n = Node(q, k + 1) THEN o ELSE prev[n],
         members' = members \cup {o}
  PROVE  RingOf(r)' /\ Len(r) = Len(q) + 1
<1>1. /\ q \in Seq(Objects) /\ Len(q) \in Nat
      /\ \A i, j \in 1 .. Len(q) : q[i] = q[j] => i = j
      /\ \A i \in 1 .. Len(q) : q[i] \in Objects /\ q[i] # o
      /\ k \in Nat /\ k <= Len(q)
  BY DEF RingOf, Distinct, Holds
<1>2. /\ r \in Seq(Objects)
      /\ Len(r) = Len(q) + 1
      /\ \A j \in 1 .. Len(q) + 1 :
           r[j] = IF j <= k THEN q[j] ELSE IF j = k + 1 THEN o ELSE q[j - 1]
  <2>1. Inserted(r, q, k, o)
    BY <1>1, InsertAtIs, Zenon
  <2> QED
    BY <2>1 DEF Inserted
<1>3. \A j \in 0 .. Len(q) + 2 :
        Node(r, j) = IF j <= k THEN Node(q, j) ELSE IF j = k + 1 THEN o ELSE Node(q, j - 1)
  BY <1>1, <1>2 DEF Node
<1>4. /\ \A i \in 0 .. Len(q) + 1 : Node(q, i) \in Nodes /\ Node(q, i) # o
      /\ \A i, j \in 0 .. Len(q) : Node(q, i) = Node(q, j) => i = j
      /\ \A i, j \in 1 .. Len(q) + 1 : Node(q, i) = Node(q, j) => i = j
      /\ o \in Nodes
  <2>1. Distinct(q)
    BY DEF RingOf
  <2>2. \A i \in 0 .. Len(q) + 1 : Node(q, i) # o
    BY <1>1 DEF Node
  <2> QED
    BY <2>1, <2>2, NodesOf DEF Nodes
<1>5. \A i \in 0 .. Len(q) : next[Node(q, i)] = Node(q, i + 1) /\ prev[Node(q, i + 1)] = Node(q, i)
  BY DEF RingOf, Spelled
<1>6. Distinct(r)
  <2>1. ASSUME NEW i \in 1 .. Len(q) + 1, NEW j \in 1 .. Len(q) + 1, r[i] = r[j], i < j PROVE FALSE
    <3>1. CASE i <= k /\ j <= k
      BY <1>1, <1>2, <2>1, <3>1
    <3>2. CASE i <= k /\ j = k + 1
      <4>1. i \in 1 .. Len(q) /\ i <= k /\ ~(j <= k)
        BY <1>1, <3>2
      <4>2. r[i] = q[i] /\ r[j] = o
        BY <1>2, <3>2, <4>1
      <4> QED
        BY <1>1, <2>1, <4>1, <4>2
    <3>3. CASE i = k + 1
      BY <1>1, <1>2, <2>1, <3>3
    <3>4. CASE j > k + 1 /\ i # k + 1
      <4>1. j - 1 \in 1 .. Len(q) /\ r[j] = q[j - 1]
        BY <1>1, <1>2, <3>4
      <4>2. \E m \in 1 .. Len(q) : r[i] = q[m] /\ m < j - 1
        <5>1. CASE i <= k
          BY <1>1, <1>2, <2>1, <3>4, <5>1
        <5>2. CASE i > k
          BY <1>1, <1>2, <2>1, <3>4, <5>2
        <5> QED
          BY <1>1, <5>1, <5>2
      <4> QED
        BY <1>1, <2>1, <4>1, <4>2
    <3> QED
      BY <1>1, <2>1, <3>1, <3>2, <3>3, <3>4
  <2>2. ASSUME NEW i \in 1 .. Len(r), NEW j \in 1 .. Len(r), r[i] = r[j] PROVE i = j
    <3>1. i \in 1 .. Len(q) + 1 /\ j \in 1 .. Len(q) + 1 /\ (i < j \/ j < i \/ i = j)
      BY <1>1, <1>2
    <3> QED
      BY <2>1, <2>2, <3>1
  <2> QED
    BY <1>2, <2>2 DEF Distinct
<1>7. ASSUME NEW i \in 0 .. Len(q) + 1
      PROVE  next'[Node(r, i)] = Node(r, i + 1) /\ prev'[Node(r, i + 1)] = Node(r, i)
  <2>1. CASE i < k
    <3>1. i \in 0 .. Len(q) /\ k + 1 \in 1 .. Len(q) + 1 /\ i + 1 \in 1 .. Len(q) + 1 /\ i + 1 # k + 1 /\ k \in 0 .. Len(q)
      BY <1>1, <2>1
    <3>2. Node(r, i) = Node(q, i) /\ Node(r, i + 1) = Node(q, i + 1)
      BY <1>1, <1>3, <2>1
    <3>3. Node(q, i) # Node(q, k) /\ Node(q, i + 1) # Node(q, k + 1)
      BY <1>4, <2>1, <3>1
    <3> QED
      BY <1>4, <1>5, <3>1, <3>2, <3>3
  <2>2. CASE i = k
    <3>1. Node(r, i) = Node(q, k) /\ Node(r, i + 1) = o
      BY <1>1, <1>3, <2>2
    <3>2. k \in 0 .. Len(q) + 1
      BY <1>1
    <3> QED
      BY <1>4, <3>1, <3>2
  <2>3. CASE i = k + 1
    <3>1. Node(r, i) = o /\ Node(r, i + 1) = Node(q, k + 1)
      BY <1>1, <1>3, <2>3
    <3>2. k + 1 \in 0 .. Len(q) + 1
      BY <1>1
    <3> QED
      BY <1>4, <3>1, <3>2
  <2>4. CASE i > k + 1
    <3>1. /\ i - 1 \in 0 .. Len(q) /\ k \in 0 .. Len(q) /\ i - 1 # k
          /\ i \in 1 .. Len(q) + 1 /\ k + 1 \in 1 .. Len(q) + 1 /\ i # k + 1
          /\ i - 1 + 1 = i /\ i + 1 \in 0 .. Len(q) + 2 /\ (i + 1) - 1 = i
          /\ i - 1 \in 0 .. Len(q) + 1 /\ i \in 0 .. Len(q) + 1
      BY <1>1, <2>4
    <3>2. Node(r, i) = Node(q, i - 1) /\ Node(r, i + 1) = Node(q, i)
      BY <1>1, <1>3, <2>4, <3>1
    <3>3. Node(q, i - 1) # Node(q, k) /\ Node(q, i) # Node(q, k + 1)
      BY <1>4, <3>1
    <3>4. next[Node(q, i - 1)] = Node(q, i) /\ prev[Node(q, i)] = Node(q, i - 1)
      BY <1>5, <3>1
    <3> QED
      BY <1>4, <3>1, <3>2, <3>3, <3>4
  <2> QED
    BY <1>1, <2>1, <2>2, <2>3, <2>4
<1>8. {r[i] : i \in 1 .. Len(r)} = {q[i] : i \in 1 .. Len(q)} \cup {o}
  <2>1. ASSUME NEW i \in 1 .. Len(q) PROVE \E j \in 1 .. Len(r) : r[j] = q[i]
    <3>1. CASE i <= k
      <4>1. i \in 1 .. Len(r) /\ r[i] = q[i]
        BY <1>1, <1>2, <3>1
      <4> QED
        BY <4>1
    <3>2. CASE i > k
      <4>1. i + 1 \in 1 .. Len(r) /\ r[i + 1] = q[i]
        BY <1>1, <1>2, <3>2
      <4> QED
        BY <4>1
    <3> QED
      BY <1>1, <3>1, <3>2
  <2>2. k + 1 \in 1 .. Len(r) /\ r[k + 1] = o
    BY <1>1, <1>2
  <2>3. ASSUME NEW j \in 1 .. Len(r) PROVE r[j] = o \/ \E i \in 1 .. Len(q) : q[i] = r[j]
    BY <1>1, <1>2
  <2>4. \A x \in {r[i] : i \in 1 .. Len(r)} : x \in {q[i] : i \in 1 .. Len(q)} \cup {o}
    BY <2>3
  <2>5. \A x \in {q[i] : i \in 1 .. Len(q)} \cup {o} : x \in {r[i] : i \in 1 .. Len(r)}
    BY <2>1, <2>2
  <2> QED
    BY <2>4, <2>5
<1>9. Spelled(r)'
  BY <1>2, <1>7 DEF Spelled
<1>10. Holds(r)'
  BY <1>8 DEF Holds, RingOf
<1>11. Distinct(r)'
  BY <1>6
<1> QED
  BY <1>2, <1>9, <1>10, <1>11 DEF RingOf

\* An object whose neighbours are linked to each other is out of the sequence.
LEMMA RemoveRing ==
  ASSUME NEW q, RingOf(q), NEW k \in 1 .. Len(q),
         NEW r, r = Abstract!RemoveAt(q, k),
         \A n \in Nodes \ {q[k]} : next'[n] = IF n = Node(q, k - 1) THEN Node(q, k + 1) ELSE next[n],
         \A n \in Nodes \ {q[k]} : prev'[n] = IF n = Node(q, k + 1) THEN Node(q, k - 1) ELSE prev[n],
         members' = members \ {q[k]}
  PROVE  RingOf(r)' /\ Len(r) = Len(q) - 1
<1>1. /\ q \in Seq(Objects) /\ Len(q) \in Nat
      /\ \A i, j \in 1 .. Len(q) : q[i] = q[j] => i = j
      /\ k \in Nat /\ 1 <= k /\ k <= Len(q)
  BY DEF RingOf, Distinct
<1>2. /\ r \in Seq(Objects)
      /\ Len(r) = Len(q) - 1
      /\ \A j \in 1 .. Len(q) - 1 : r[j] = IF j < k THEN q[j] ELSE q[j + 1]
  <2>1. Removed(r, q, k)
    BY <1>1, RemoveAtIs, Zenon
  <2> QED
    BY <2>1 DEF Removed
<1>3. \A j \in 0 .. Len(q) : Node(r, j) = IF j < k THEN Node(q, j) ELSE Node(q, j + 1)
  BY <1>1, <1>2 DEF Node
<1>4. /\ \A i \in 0 .. Len(q) + 1 : Node(q, i) \in Nodes
      /\ \A i, j \in 0 .. Len(q) : Node(q, i) = Node(q, j) => i = j
      /\ \A i, j \in 1 .. Len(q) + 1 : Node(q, i) = Node(q, j) => i = j
      /\ Node(q, k) = q[k]
  <2>1. Distinct(q)
    BY DEF RingOf
  <2> QED
    BY <2>1, NodesOf
<1>5. \A i \in 0 .. Len(q) : next[Node(q, i)] = Node(q, i + 1) /\ prev[Node(q, i + 1)] = Node(q, i)
  BY DEF RingOf, Spelled
<1>6. Distinct(r)
  <2>1. ASSUME NEW i \in 1 .. Len(r), NEW j \in 1 .. Len(r), r[i] = r[j] PROVE i = j
    <3>1. /\ i \in 1 .. Len(q) /\ i + 1 \in 1 .. Len(q) /\ j \in 1 .. Len(q) /\ j + 1 \in 1 .. Len(q)
          /\ r[i] = (IF i < k THEN q[i] ELSE q[i + 1]) /\ r[j] = (IF j < k THEN q[j] ELSE q[j + 1])
      BY <1>1, <1>2
    <3>2. CASE i < k /\ j < k
      BY <1>1, <2>1, <3>1, <3>2
    <3>3. CASE i < k /\ ~(j < k)
      <4>1. i # j + 1
        BY <1>1, <3>1, <3>3
      <4> QED
        BY <1>1, <2>1, <3>1, <3>3, <4>1
    <3>4. CASE ~(i < k) /\ j < k
      <4>1. j # i + 1
        BY <1>1, <3>1, <3>4
      <4> QED
        BY <1>1, <2>1, <3>1, <3>4, <4>1
    <3>5. CASE ~(i < k) /\ ~(j < k)
      <4>1. i + 1 = j + 1
        BY <1>1, <2>1, <3>1, <3>5
      <4> QED
        BY <3>1, <4>1
    <3> QED
      BY <3>2, <3>3, <3>4, <3>5
  <2> QED
    BY <1>2, <2>1 DEF Distinct
<1>7. ASSUME NEW i \in 0 .. Len(q) - 1
      PROVE  next'[Node(r, i)] = Node(r, i + 1) /\ prev'[Node(r, i + 1)] = Node(r, i)
  <2>1. CASE i < k - 1
    <3>1. /\ i \in 0 .. Len(q) /\ k \in 0 .. Len(q) /\ i # k /\ k - 1 \in 0 .. Len(q) /\ i # k - 1
          /\ i + 1 \in 1 .. Len(q) + 1 /\ k \in 1 .. Len(q) + 1 /\ k + 1 \in 1 .. Len(q) + 1
          /\ i + 1 # k /\ i + 1 # k + 1 /\ i \in 0 .. Len(q) + 1 /\ i + 1 \in 0 .. Len(q) + 1
      BY <1>1, <2>1
    <3>2. Node(r, i) = Node(q, i) /\ Node(r, i + 1) = Node(q, i + 1)
      BY <1>1, <1>3, <2>1
    <3>3. /\ Node(q, i) # q[k] /\ Node(q, i) # Node(q, k - 1)
          /\ Node(q, i + 1) # q[k] /\ Node(q, i + 1) # Node(q, k + 1)
      BY <1>4, <3>1
    <3>4. Node(q, i) \in Nodes /\ Node(q, i + 1) \in Nodes
      BY <1>4, <3>1
    <3>5. next[Node(q, i)] = Node(q, i + 1) /\ prev[Node(q, i + 1)] = Node(q, i)
      BY <1>5, <3>1
    <3> QED
      BY <3>2, <3>3, <3>4, <3>5
  <2>2. CASE i = k - 1
    <3>1. /\ Node(r, i) = Node(q, k - 1) /\ Node(r, i + 1) = Node(q, k + 1)
      BY <1>1, <1>3, <2>2
    <3>2. /\ k - 1 \in 0 .. Len(q) /\ k \in 0 .. Len(q) /\ k - 1 # k
          /\ k + 1 \in 1 .. Len(q) + 1 /\ k \in 1 .. Len(q) + 1 /\ k # k + 1
          /\ k - 1 \in 0 .. Len(q) + 1 /\ k + 1 \in 0 .. Len(q) + 1
      BY <1>1
    <3>3. Node(q, k - 1) # q[k] /\ Node(q, k + 1) # q[k]
      BY <1>4, <3>2
    <3> QED
      BY <1>4, <3>1, <3>2, <3>3
  <2>3. CASE i > k - 1
    <3> DEFINE m == i + 1
    <3>1. /\ m \in 0 .. Len(q) /\ k \in 0 .. Len(q) /\ m # k /\ k - 1 \in 0 .. Len(q) /\ m # k - 1
          /\ m + 1 \in 1 .. Len(q) + 1 /\ k \in 1 .. Len(q) + 1 /\ k + 1 \in 1 .. Len(q) + 1
          /\ m + 1 # k /\ m + 1 # k + 1 /\ m \in 0 .. Len(q) + 1 /\ m + 1 \in 0 .. Len(q) + 1
      BY <1>1, <2>3
    <3>2. Node(r, i) = Node(q, m) /\ Node(r, i + 1) = Node(q, m + 1)
      <4>1. i \in 0 .. Len(q) /\ i + 1 \in 0 .. Len(q) /\ ~(i < k) /\ ~(i + 1 < k)
        BY <1>1, <2>3
      <4> QED
        BY <1>3, <4>1
    <3> HIDE DEF m
    <3>3. /\ Node(q, m) # q[k] /\ Node(q, m) # Node(q, k - 1)
          /\ Node(q, m + 1) # q[k] /\ Node(q, m + 1) # Node(q, k + 1)
      BY <1>4, <3>1
    <3>4. Node(q, m) \in Nodes /\ Node(q, m + 1) \in Nodes
      BY <1>4, <3>1
    <3>5. next[Node(q, m)] = Node(q, m + 1) /\ prev[Node(q, m + 1)] = Node(q, m)
      BY <1>5, <3>1
    <3> QED
      BY <3>2, <3>3, <3>4, <3>5
  <2> QED
    BY <1>1, <2>1, <2>2, <2>3
<1>8. {r[i] : i \in 1 .. Len(r)} = {q[i] : i \in 1 .. Len(q)} \ {q[k]}
  <2>1. ASSUME NEW i \in 1 .. Len(q), q[i] # q[k] PROVE \E j \in 1 .. Len(r) : r[j] = q[i]
    <3>1. CASE i < k
      BY <1>1, <1>2, <3>1
    <3>2. CASE i > k
      <4>1. i - 1 \in 1 .. Len(r) /\ r[i - 1] = q[i]
        BY <1>1, <1>2, <3>2
      <4> QED
        BY <4>1
    <3> QED
      BY <1>1, <2>1, <3>1, <3>2
  <2>2. ASSUME NEW j \in 1 .. Len(r) PROVE r[j] # q[k] /\ \E i \in 1 .. Len(q) : q[i] = r[j]
    <3>1. /\ j \in 1 .. Len(q) /\ j + 1 \in 1 .. Len(q)
          /\ r[j] = IF j < k THEN q[j] ELSE q[j + 1]
      BY <1>1, <1>2
    <3>2. CASE j < k
      BY <1>1, <3>1, <3>2
    <3>3. CASE ~(j < k)
      <4>1. j + 1 # k
        BY <1>1, <3>1, <3>3
      <4> QED
        BY <1>1, <3>1, <3>3, <4>1
    <3> QED
      BY <3>2, <3>3
  <2>3. \A x \in {r[i] : i \in 1 .. Len(r)} : x \in {q[i] : i \in 1 .. Len(q)} \ {q[k]}
    BY <2>2
  <2>4. \A x \in {q[i] : i \in 1 .. Len(q)} \ {q[k]} : x \in {r[i] : i \in 1 .. Len(r)}
    BY <2>1
  <2> QED
    BY <2>3, <2>4
<1>9. Spelled(r)'
  BY <1>2, <1>7 DEF Spelled
<1>10. Holds(r)'
  BY <1>8 DEF Holds, RingOf
<1>11. Distinct(r)'
  BY <1>6
<1> QED
  BY <1>2, <1>9, <1>10, <1>11 DEF RingOf

-----------------------------------------------------------------------------
(* What ListSeq sees of a ring.                                              *)

\* The expressions that LinkedList gives for the variables of ListSeq.
Items == IF item = Null THEN Path(next, next[ListHead]) ELSE <<>>

Doomed == Path(next, item)

\* A ring at rest is its sequence.
LEMMA RestIs == ASSUME NEW q, AtRest(q) PROVE Items = q /\ Doomed = <<>>
<1>1. Distinct(q) /\ Spelled(q) /\ item = Null
  BY DEF AtRest, RingOf
<1>2. /\ Node(q, 0) = ListHead /\ 0 \in 0 .. Len(q) /\ 0 + 1 = 1
      /\ \A i \in 1 .. Len(q) : i \in 0 .. Len(q) /\ Node(q, i) = q[i]
  BY <1>1, NodesOf
<1>3. next[ListHead] = Node(q, 1) /\ \A i \in 1 .. Len(q) : next[q[i]] = Node(q, i + 1)
  BY <1>1, <1>2 DEF Spelled
<1> QED
  BY <1>1, <1>3, PathIs, PathEmpty DEF Items, Doomed

\* So it is after a step.
LEMMA RestWillBe == ASSUME NEW q, AtRest(q)' PROVE Items' = q /\ Doomed' = <<>>
<1>1. Distinct(q) /\ Spelled(q)' /\ item' = Null
  BY DEF AtRest, RingOf, Distinct
<1>2. /\ Node(q, 0) = ListHead /\ 0 \in 0 .. Len(q) /\ 0 + 1 = 1
      /\ \A i \in 1 .. Len(q) : i \in 0 .. Len(q) /\ Node(q, i) = q[i]
  BY <1>1, NodesOf
<1>3. next'[ListHead] = Node(q, 1) /\ \A i \in 1 .. Len(q) : next'[q[i]] = Node(q, i + 1)
  BY <1>1, <1>2 DEF Spelled
<1>4. Path(next', next'[ListHead]) = q
  BY <1>1, <1>3, PathIs
<1>5. Path(next', item') = <<>>
  BY <1>1, PathEmpty
<1> QED
  BY <1>1, <1>4, <1>5 DEF Items, Doomed

\* A ring that is cleared is empty, and what is left is doomed.
LEMMA ClearingIs == ASSUME NEW q, Clearing(q) PROVE item # Null /\ Items = <<>> /\ Doomed = q
<1>1. Node(q, 1) \in Nodes
  BY NodesOf DEF Clearing
<1>2. item # Null
  BY <1>1 DEF Clearing, Nodes
<1> QED
  BY <1>2, PathIs DEF Items, Doomed, Clearing

\* So it is after a step.
LEMMA ClearingWillBe ==
  ASSUME NEW q, Clearing(q)' PROVE item' # Null /\ Items' = <<>> /\ Doomed' = q
<1>1. /\ Distinct(q) /\ item' = Node(q, 1)
      /\ \A i \in 1 .. Len(q) : next'[q[i]] = Node(q, i + 1)
  BY DEF Clearing, Distinct
<1>2. Node(q, 1) \in Nodes
  BY <1>1, NodesOf
<1>3. item' # Null
  BY <1>1, <1>2 DEF Nodes
<1>4. Path(next', item') = q
  BY <1>1, PathIs
<1> QED
  BY <1>3, <1>4 DEF Items, Doomed

-----------------------------------------------------------------------------
(* One step of the ring, one step of the sequence.                           *)

\* What an unmoving ring has of each place.
LEMMA RestFacts ==
  ASSUME TypeOK, NEW q, AtRest(q)
  PROVE  /\ q \in Seq(Objects) /\ Len(q) \in Nat /\ item = Null /\ size = Len(q)
         /\ \A i \in 1 .. Len(q) : q[i] \in Objects /\ Node(q, i) = q[i]
         /\ Node(q, 0) = ListHead /\ Node(q, Len(q) + 1) = ListHead
         /\ \A i \in 0 .. Len(q) + 1 : Node(q, i) \in Nodes
         /\ \A i, j \in 1 .. Len(q) : q[i] = q[j] => i = j
         /\ \A i \in 0 .. Len(q) : next[Node(q, i)] = Node(q, i + 1)
         /\ \A i \in 1 .. Len(q) + 1 : prev[Node(q, i)] = Node(q, i - 1)
         /\ members = {q[i] : i \in 1 .. Len(q)}
         /\ next \in [Nodes -> Links] /\ prev \in [Nodes -> Links]
<1>1. Distinct(q) /\ Spelled(q) /\ Holds(q)
  BY DEF AtRest, RingOf
<1>2. /\ Len(q) \in Nat
      /\ \A i \in 1 .. Len(q) : q[i] \in Objects /\ Node(q, i) = q[i]
      /\ Node(q, 0) = ListHead /\ Node(q, Len(q) + 1) = ListHead
      /\ \A i \in 0 .. Len(q) + 1 : Node(q, i) \in Nodes
  BY <1>1, NodesOf
<1>3. ASSUME NEW i \in 1 .. Len(q) + 1 PROVE prev[Node(q, i)] = Node(q, i - 1)
  <2>1. i - 1 \in 0 .. Len(q) /\ (i - 1) + 1 = i
    BY <1>2
  <2> QED
    BY <1>1, <2>1 DEF Spelled
<1> QED
  BY <1>1, <1>2, <1>3 DEF AtRest, Distinct, Spelled, Holds, TypeOK

\* cclist_do_insert_after and cclist_do_insert_before put the object in its place.
LEMMA InsertStep ==
  ASSUME TypeOK, NEW q, AtRest(q), NEW p \in 1 .. Len(q) + 1, NEW o \in Objects, o \notin members,
         DoInsertAfter(o, Node(q, p - 1)) \/ DoInsertBefore(o, Node(q, p))
  PROVE  TypeOK' /\ (\E r : AtRest(r)') /\ Abstract!Put(o, p)
<1> DEFINE a == Node(q, p - 1)
           b == Node(q, p)
           r == Abstract!InsertAt(q, p, o)
<1>1. /\ Len(q) \in Nat /\ item = Null /\ size = Len(q)
      /\ p - 1 \in 0 .. Len(q) /\ (p - 1) + 1 = p /\ p \in 0 .. Len(q) + 1 /\ p - 1 \in 0 .. Len(q) + 1
      /\ q \in Seq(Objects) /\ next \in [Nodes -> Links] /\ prev \in [Nodes -> Links]
  BY RestFacts
<1>2. a \in Nodes /\ b \in Nodes /\ next[a] = b /\ prev[b] = a
  BY <1>1, RestFacts
<1>3. a # o /\ b # o
  BY RestFacts, <1>1 DEF Node
<1> HIDE DEF a, b
<1>4. /\ next' = [next EXCEPT ![o] = b, ![a] = o]
      /\ prev' = [prev EXCEPT ![o] = a, ![b] = o]
      /\ size' = size + 1
      /\ members' = members \cup {o}
      /\ UNCHANGED <<item, cur, aborted>>
  BY <1>2 DEF DoInsertAfter, DoInsertBefore, a, b
<1>5. /\ \A n \in Nodes : next'[n] = IF n = o THEN b ELSE IF n = a THEN o ELSE next[n]
      /\ \A n \in Nodes : prev'[n] = IF n = o THEN a ELSE IF n = b THEN o ELSE prev[n]
  BY <1>1, <1>2, <1>3, <1>4 DEF Nodes
<1>6. RingOf(r)' /\ Len(r) = Len(q) + 1
  <2>1. RingOf(q)
    BY DEF AtRest
  <2> DEFINE k == p - 1
  <2>2. k \in 0 .. Len(q) /\ k + 1 = p
    BY <1>1
  <2> HIDE DEF k
  <2>3. /\ \A n \in Nodes : next'[n] = IF n = o THEN Node(q, k + 1)
                                     ELSE IF n = Node(q, k) THEN o ELSE next[n]
        /\ \A n \in Nodes : prev'[n] = IF n = o THEN Node(q, k)
                                     ELSE IF n = Node(q, k + 1) THEN o ELSE prev[n]
    BY <1>5, <2>2 DEF a, b, k
  <2> HIDE DEF r
  <2>4. r = Abstract!InsertAt(q, k + 1, o)
    BY <2>2 DEF r
  <2>5. members' = members \cup {o}
    BY <1>4
  <2> QED
    BY <2>1, <2>2, <2>3, <2>4, <2>5, InsertRing
<1> HIDE DEF r
<1>7. AtRest(r)'
  BY <1>1, <1>4, <1>6 DEF AtRest
<1>8. TypeOK'
  <2>1. next' \in [Nodes -> Links] /\ prev' \in [Nodes -> Links]
    BY <1>1, <1>2, <1>4 DEF Nodes, Links
  <2> QED
    BY <1>4, <2>1 DEF TypeOK
<1>9. Abstract!Put(o, p)
  <2>1. Items = q /\ Doomed = <<>> /\ Items' = r /\ Doomed' = <<>>
    BY <1>7, RestIs, RestWillBe
  <2>2. \A i \in DOMAIN q : q[i] # o
    BY <1>1, RestFacts
  <2>3. cur' = cur
    BY <1>4
  <2> QED
    BY <2>1, <2>2, <2>3 DEF Abstract!Put, Abstract!Members, Items, Doomed, r
<1> QED
  BY <1>7, <1>8, <1>9

\* cclist_remove, cclist_remove_first and cclist_remove_last take the object from its place.
LEMMA RemoveStep ==
  ASSUME TypeOK, NEW q, AtRest(q), NEW p \in 1 .. Len(q),
         Remove(q[p]) \/ (p = 1 /\ RemoveFirst) \/ (p = Len(q) /\ RemoveLast)
  PROVE  TypeOK' /\ (\E r : AtRest(r)') /\ Abstract!Take(p)
<1> DEFINE o == q[p]
           a == Node(q, p - 1)
           b == Node(q, p + 1)
           r == Abstract!RemoveAt(q, p)
<1>1. /\ Len(q) \in Nat /\ item = Null /\ size = Len(q)
      /\ p - 1 \in 0 .. Len(q) /\ (p - 1) + 1 = p /\ p \in 0 .. Len(q) /\ p \in 1 .. Len(q) + 1
      /\ p - 1 \in 0 .. Len(q) + 1 /\ p + 1 \in 0 .. Len(q) + 1
      /\ q \in Seq(Objects) /\ next \in [Nodes -> Links] /\ prev \in [Nodes -> Links]
  BY RestFacts
<1>2. /\ o \in Objects /\ Node(q, p) = o /\ o \in members
      /\ a \in Nodes /\ b \in Nodes /\ next[o] = b /\ prev[o] = a
  BY <1>1, RestFacts
<1>3. /\ p = 1 => a = ListHead /\ next[ListHead] = o
      /\ p = Len(q) => b = ListHead /\ prev[ListHead] = o
  <2>1. next[a] = o /\ prev[b] = o
    <3>1. next[a] = Node(q, (p - 1) + 1)
      BY <1>1, RestFacts
    <3>2. prev[b] = Node(q, (p + 1) - 1)
      BY <1>1, RestFacts
    <3>3. (p - 1) + 1 = p /\ (p + 1) - 1 = p
      BY <1>1
    <3> QED
      BY <1>2, <3>1, <3>2, <3>3
  <2>2. p = 1 => a = ListHead
    BY RestFacts
  <2>3. p = Len(q) => b = ListHead
    BY RestFacts
  <2> QED
    BY <2>1, <2>2, <2>3
<1> HIDE DEF a, b, o
<1>4. /\ \A n \in Nodes \ {o} : next'[n] = IF n = a THEN b ELSE next[n]
      /\ \A n \in Nodes \ {o} : prev'[n] = IF n = b THEN a ELSE prev[n]
      /\ next' \in [Nodes -> Links] /\ prev' \in [Nodes -> Links]
      /\ size' = size - 1 /\ members' = members \ {o}
      /\ UNCHANGED <<item, cur, aborted>>
  <2> USE DEF Nodes, Links
  <2>1. CASE Remove(o)
    <3>1. /\ next' = [[next EXCEPT ![a] = b] EXCEPT ![o] = Null]
          /\ prev' = [[prev EXCEPT ![b] = a] EXCEPT ![o] = Null]
      BY <1>2, <2>1 DEF Remove
    <3>2. size' = size - 1 /\ members' = members \ {o} /\ UNCHANGED <<item, cur, aborted>>
      BY <2>1 DEF Remove
    <3> QED
      BY <1>1, <1>2, <3>1, <3>2
  <2>2. CASE p = 1 /\ RemoveFirst
    <3>1. next' = [next EXCEPT ![a] = b] /\ prev' = [prev EXCEPT ![b] = a]
      BY <1>2, <1>3, <2>2 DEF RemoveFirst
    <3>2. size' = size - 1 /\ members' = members \ {o} /\ UNCHANGED <<item, cur, aborted>>
      BY <1>3, <2>2 DEF RemoveFirst
    <3> QED
      BY <1>1, <1>2, <3>1, <3>2
  <2>3. CASE p = Len(q) /\ RemoveLast
    <3>1. next' = [next EXCEPT ![a] = b] /\ prev' = [prev EXCEPT ![b] = a]
      BY <1>2, <1>3, <2>3 DEF RemoveLast
    <3>2. size' = size - 1 /\ members' = members \ {o} /\ UNCHANGED <<item, cur, aborted>>
      BY <1>3, <2>3 DEF RemoveLast
    <3> QED
      BY <1>1, <1>2, <3>1, <3>2
  <2> QED
    BY <2>1, <2>2, <2>3 DEF o
<1>5. RingOf(r)' /\ Len(r) = Len(q) - 1
  <2>1. RingOf(q)
    BY DEF AtRest
  <2> HIDE DEF r
  <2>2. r = Abstract!RemoveAt(q, p)
    BY DEF r
  <2>3. /\ \A n \in Nodes \ {q[p]} : next'[n] = IF n = Node(q, p - 1) THEN Node(q, p + 1) ELSE next[n]
        /\ \A n \in Nodes \ {q[p]} : prev'[n] = IF n = Node(q, p + 1) THEN Node(q, p - 1) ELSE prev[n]
        /\ members' = members \ {q[p]}
    BY <1>4 DEF a, b, o
  <2> QED
    BY <2>1, <2>2, <2>3, RemoveRing
<1> HIDE DEF r
<1>6. AtRest(r)'
  BY <1>1, <1>4, <1>5 DEF AtRest
<1>7. TypeOK'
  BY <1>1, <1>4 DEF TypeOK
<1>8. Abstract!Take(p)
  <2>1. Items = q /\ Doomed = <<>> /\ Items' = r /\ Doomed' = <<>>
    BY <1>6, RestIs, RestWillBe
  <2>2. p \in DOMAIN q
    BY <1>1
  <2>3. cur' = cur
    BY <1>4
  <2> QED
    BY <2>1, <2>2, <2>3 DEF Abstract!Take, Items, Doomed, r
<1> QED
  BY <1>6, <1>7, <1>8

\* cclist_clear takes the ring down from its first object.
LEMMA ClearSteps ==
  ASSUME TypeOK, NEW q
  PROVE  /\ AtRest(q) /\ ClearBegin => TypeOK' /\ (\E r : Clearing(r)') /\ Abstract!Clear
         /\ Clearing(q) /\ ClearStep => TypeOK' /\ (\E r : Clearing(r)') /\ Abstract!Destroy
         /\ Clearing(q) /\ ClearEnd => TypeOK' /\ (\E r : AtRest(r)') /\ UNCHANGED Abstract!vars
<1>1. ASSUME AtRest(q), ClearBegin
      PROVE  TypeOK' /\ (\E r : Clearing(r)') /\ Abstract!Clear
  <2>1. /\ item' = next[ListHead] /\ next' = next /\ prev' = prev /\ size' = size
        /\ members' = members /\ cur' = cur /\ aborted' = aborted
    BY <1>1 DEF ClearBegin
  <2>2. 0 \in 0 .. Len(q) /\ 0 + 1 = 1 /\ \A i \in 1 .. Len(q) : i \in 0 .. Len(q)
    BY <1>1, RestFacts
  <2>3. /\ item' = Node(q, 1)
        /\ \A i \in 1 .. Len(q) : next'[q[i]] = Node(q, i + 1)
    BY <1>1, <2>1, <2>2, RestFacts
  <2>4. Clearing(q)'
    BY <1>1, <2>1, <2>3 DEF Clearing, AtRest, RingOf, Holds, Distinct
  <2>5. TypeOK'
    <3>1. next[ListHead] \in Links
      BY <1>1, RestFacts DEF Nodes
    <3> QED
      BY <2>1, <3>1 DEF TypeOK
  <2>6. Items = q /\ Doomed = <<>> /\ Items' = <<>> /\ Doomed' = q
    BY <1>1, <2>4, RestIs, ClearingWillBe
  <2>7. Abstract!Clear
    BY <2>1, <2>6 DEF Abstract!Clear, Items, Doomed
  <2> QED
    BY <2>4, <2>5, <2>7
<1>2. ASSUME Clearing(q), ClearStep
      PROVE  TypeOK' /\ (\E r : Clearing(r)') /\ Abstract!Destroy
  <2> DEFINE r == Tail(q)
  <2>1. /\ item \in Objects /\ item' = next[item]
        /\ next' = [next EXCEPT ![item] = Null] /\ prev' = [prev EXCEPT ![item] = Null]
        /\ members' = members \ {item} /\ size' = size /\ cur' = cur /\ aborted' = aborted
    BY <1>2 DEF ClearStep
  <2>2. /\ q \in Seq(Objects) /\ Len(q) \in Nat
        /\ \A i, j \in 1 .. Len(q) : q[i] = q[j] => i = j
        /\ item = Node(q, 1)
        /\ \A i \in 1 .. Len(q) : next[q[i]] = Node(q, i + 1)
        /\ members = {q[i] : i \in 1 .. Len(q)}
    BY <1>2 DEF Clearing, Distinct, Holds
  <2>3. 1 \in 1 .. Len(q) /\ item = q[1] /\ item' = Node(q, 2)
    BY <2>1, <2>2 DEF Node
  <2>4. /\ r \in Seq(Objects) /\ Len(r) = Len(q) - 1
        /\ \A i \in 1 .. Len(r) : r[i] = q[i + 1] /\ i + 1 \in 1 .. Len(q) /\ i + 1 # 1
    BY <2>2, <2>3
  <2>5. \A i \in 1 .. Len(r) + 1 : Node(r, i) = Node(q, i + 1)
    BY <2>2, <2>3, <2>4 DEF Node
  <2> HIDE DEF r
  <2>6. Distinct(r)
    <3>1. ASSUME NEW i \in 1 .. Len(r), NEW j \in 1 .. Len(r), r[i] = r[j] PROVE i = j
      <4>1. i + 1 = j + 1
        BY <2>2, <2>4, <3>1
      <4> QED
        BY <4>1
    <3> QED
      BY <2>4, <3>1 DEF Distinct
  <2>7. ASSUME NEW i \in 1 .. Len(r) PROVE next'[r[i]] = Node(r, i + 1)
    <3>1. r[i] = q[i + 1] /\ q[i + 1] # item /\ i + 1 \in 1 .. Len(q) /\ q[i + 1] \in Nodes
      BY <2>2, <2>3, <2>4 DEF Nodes
    <3>2. next'[r[i]] = Node(q, (i + 1) + 1)
      BY <2>1, <2>2, <3>1 DEF TypeOK
    <3>3. i + 1 \in 1 .. Len(r) + 1
      BY <2>2, <2>4
    <3> QED
      BY <2>5, <3>2, <3>3
  <2>8. members' = {r[i] : i \in 1 .. Len(r)}
    <3>1. ASSUME NEW i \in 1 .. Len(q), q[i] # item PROVE \E j \in 1 .. Len(r) : r[j] = q[i]
      <4>1. i - 1 \in 1 .. Len(r) /\ (i - 1) + 1 = i
        BY <2>2, <2>3, <2>4, <3>1
      <4> QED
        BY <2>4, <4>1
    <3>2. ASSUME NEW j \in 1 .. Len(r) PROVE r[j] # item /\ \E i \in 1 .. Len(q) : q[i] = r[j]
      BY <2>2, <2>3, <2>4
    <3>3. \A x \in members' : x \in {r[i] : i \in 1 .. Len(r)}
      BY <2>1, <2>2, <3>1
    <3>4. \A x \in {r[i] : i \in 1 .. Len(r)} : x \in members'
      BY <2>1, <2>2, <3>2
    <3> QED
      BY <3>3, <3>4
  <2>9. item' = Node(r, 1)
    BY <2>2, <2>3, <2>4, <2>5
  <2>10. Clearing(r)'
    BY <2>6, <2>7, <2>8, <2>9 DEF Clearing, Distinct, Holds
  <2>11. TypeOK'
    <3>1. item' \in Links
      <4>1. 2 \in 0 .. Len(q) + 1
        BY <2>2, <2>3
      <4> QED
        BY <1>2, <2>3, <4>1, NodesOf DEF Nodes, Links, Clearing
    <3> QED
      BY <2>1, <3>1 DEF TypeOK, Nodes, Links
  <2>12. Items = <<>> /\ Doomed = q /\ Items' = <<>> /\ Doomed' = r
    BY <1>2, <2>10, ClearingIs, ClearingWillBe
  <2>13. q # <<>>
    BY <2>3
  <2>14. Abstract!Destroy
    BY <2>1, <2>12, <2>13 DEF Abstract!Destroy, Items, Doomed, r
  <2> QED
    BY <2>10, <2>11, <2>14
<1>3. ASSUME Clearing(q), ClearEnd
      PROVE  TypeOK' /\ (\E r : AtRest(r)') /\ UNCHANGED Abstract!vars
  <2> DEFINE r == <<>>
  <2>1. /\ item = ListHead /\ item' = Null
        /\ next' = [next EXCEPT ![ListHead] = ListHead] /\ prev' = [prev EXCEPT ![ListHead] = ListHead]
        /\ size' = 0 /\ members' = members /\ cur' = cur /\ aborted' = aborted
    BY <1>3 DEF ClearEnd
  <2>2. q \in Seq(Objects) /\ Len(q) = 0 /\ members = {}
    BY <1>3, <2>1 DEF Clearing, Distinct, Holds, Node
  <2>3. q = <<>>
    BY <2>2
  <2>4. Distinct(r) /\ Len(r) = 0
    BY DEF Distinct
  <2>5. TypeOK'
    BY <2>1 DEF TypeOK, Nodes, Links
  <2>6. next'[ListHead] = ListHead /\ prev'[ListHead] = ListHead
    BY <2>1 DEF TypeOK, Nodes
  <2>7. AtRest(r)'
    <3> HIDE DEF r
    <3>1. Spelled(r)'
      BY <2>4, <2>6 DEF Spelled, Node
    <3>2. Holds(r)'
      BY <2>1, <2>2, <2>4 DEF Holds
    <3>3. Distinct(r)'
      BY <2>4 DEF Distinct
    <3> QED
      BY <2>1, <2>4, <3>1, <3>2, <3>3 DEF AtRest, RingOf
  <2>8. Items = <<>> /\ Doomed = q /\ Items' = r /\ Doomed' = <<>>
    BY <1>3, <2>7, ClearingIs, RestWillBe
  <2>9. UNCHANGED Abstract!vars
    BY <2>1, <2>3, <2>8 DEF Abstract!vars, Items, Doomed
  <2> QED
    BY <2>5, <2>7, <2>9
<1> QED
  BY <1>1, <1>2, <1>3

\* A query moves the cursor and nothing else.
LEMMA PointStep ==
  ASSUME TypeOK, NEW q, AtRest(q), NEW i \in 0 .. Len(q) + 1, Point(Node(q, i))
  PROVE  TypeOK' /\ (\E r : AtRest(r)') /\ Abstract!Point(Abstract!ItemOrNull(i))
<1>1. /\ cur' = ObjectOrNull(Node(q, i))
      /\ next' = next /\ prev' = prev /\ size' = size /\ members' = members
      /\ item' = item /\ aborted' = aborted
  BY DEF Point
<1>2. AtRest(q)'
  BY <1>1 DEF AtRest, RingOf, Distinct, Spelled, Holds
<1>3. cur' = IF i \in 1 .. Len(q) THEN q[i] ELSE Null
  BY <1>1, RestFacts DEF ObjectOrNull, Node
<1>4. TypeOK'
  BY <1>1, <1>3, RestFacts DEF TypeOK
<1>5. Items = q /\ Doomed = <<>> /\ Items' = q /\ Doomed' = <<>> /\ DOMAIN q = 1 .. Len(q)
  BY <1>2, RestIs, RestWillBe, RestFacts
<1>6. Abstract!Point(Abstract!ItemOrNull(i))
  BY <1>3, <1>5 DEF Abstract!Point, Abstract!ItemOrNull, Items, Doomed
<1> QED
  BY <1>2, <1>4, <1>6

\* Where ListSeq finds an object of the list.
LEMMA PlaceIs ==
  ASSUME TypeOK, NEW q, AtRest(q), NEW o \in members
  PROVE  \E p \in 1 .. Len(q) : q[p] = o /\ Abstract!Place(o) = p /\ o \in Abstract!Members
<1>1. PICK p \in 1 .. Len(q) : q[p] = o
  BY RestFacts
<1>2. Items = q /\ DOMAIN q = 1 .. Len(q) /\ \A i, j \in 1 .. Len(q) : q[i] = q[j] => i = j
  BY RestIs, RestFacts
<1>3. \A i \in DOMAIN q : q[i] = o => i = p
  BY <1>1, <1>2
<1>4. Abstract!Place(o) = CHOOSE i \in DOMAIN q : q[i] = o
  BY <1>2 DEF Abstract!Place, Items
<1>5. Abstract!Place(o) = p
  BY <1>1, <1>2, <1>3, <1>4
<1>6. o \in Abstract!Members
  BY <1>1, <1>2 DEF Abstract!Members, Items
<1> QED
  BY <1>1, <1>5, <1>6

\* Each insertion is one of ListSeq, or a failed assertion.
LEMMA InsertSteps ==
  ASSUME TypeOK, NEW q, AtRest(q), NEW o \in Objects, Insert(o)
  PROVE  TypeOK' /\ (\E r : AtRest(r)') /\ [Abstract!Next]_(Abstract!vars)
<1> USE RestFacts
<1>0. Items = q
  BY RestIs
<1>1. CASE InsertFirst(o)
  <2>1. 1 \in 1 .. Len(q) + 1 /\ Node(q, 1 - 1) = ListHead
    OBVIOUS
  <2>2. o \notin members /\ DoInsertAfter(o, Node(q, 1 - 1))
    BY <1>1, <2>1 DEF InsertFirst
  <2>3. TypeOK' /\ (\E r : AtRest(r)') /\ Abstract!Put(o, 1)
    BY <2>1, <2>2, InsertStep
  <2> QED
    BY <2>3 DEF Abstract!Next, Abstract!PutFirst
<1>2. CASE InsertLast(o)
  <2>1. Len(q) + 1 \in 1 .. Len(q) + 1 /\ Node(q, Len(q) + 1) = ListHead
    OBVIOUS
  <2>2. o \notin members /\ DoInsertBefore(o, Node(q, Len(q) + 1))
    BY <1>2, <2>1 DEF InsertLast
  <2>3. TypeOK' /\ (\E r : AtRest(r)') /\ Abstract!Put(o, Len(q) + 1)
    BY <2>1, <2>2, InsertStep
  <2>4. Abstract!PutLast(o)
    BY <1>0, <2>3 DEF Abstract!PutLast, Items
  <2> QED
    BY <2>3, <2>4 DEF Abstract!Next
<1>3. ASSUME NEW i \in Objects, InsertAfter(o, i)
      PROVE  TypeOK' /\ (\E r : AtRest(r)') /\ Abstract!Next
  <2>1. o \notin members /\ i \in members /\ DoInsertAfter(o, i)
    BY <1>3 DEF InsertAfter
  <2>2. PICK p \in 1 .. Len(q) : q[p] = i /\ Abstract!Place(i) = p /\ i \in Abstract!Members
    BY <2>1, PlaceIs
  <2> DEFINE k == p + 1
  <2>3. k \in 1 .. Len(q) + 1 /\ k - 1 = p /\ Node(q, p) = i
    BY <2>2
  <2> HIDE DEF k
  <2>4. TypeOK' /\ (\E r : AtRest(r)') /\ Abstract!Put(o, k)
    BY <2>1, <2>3, InsertStep
  <2>5. Abstract!PutAfter(o, i)
    BY <2>2, <2>4 DEF Abstract!PutAfter, k
  <2> QED
    BY <2>4, <2>5 DEF Abstract!Next
<1>4. ASSUME NEW i \in Objects, InsertBefore(o, i)
      PROVE  TypeOK' /\ (\E r : AtRest(r)') /\ Abstract!Next
  <2>1. o \notin members /\ i \in members /\ DoInsertBefore(o, i)
    BY <1>4 DEF InsertBefore
  <2>2. PICK p \in 1 .. Len(q) : q[p] = i /\ Abstract!Place(i) = p /\ i \in Abstract!Members
    BY <2>1, PlaceIs
  <2>3. p \in 1 .. Len(q) + 1 /\ Node(q, p) = i
    BY <2>2
  <2>4. TypeOK' /\ (\E r : AtRest(r)') /\ Abstract!Put(o, p)
    BY <2>1, <2>3, InsertStep
  <2>5. Abstract!PutBefore(o, i)
    BY <2>2, <2>4 DEF Abstract!PutBefore
  <2> QED
    BY <2>4, <2>5 DEF Abstract!Next
<1>5. ASSUME NEW n \in 0 .. Cardinality(Objects), InsertAt(o, n)
      PROVE  TypeOK' /\ (\E r : AtRest(r)') /\ [Abstract!Next]_(Abstract!vars)
  <2>1. CASE Asserts /\ ~NthItemLeft(n)
    <3>1. /\ aborted' = TRUE /\ next' = next /\ prev' = prev /\ size' = size
          /\ members' = members /\ item' = item /\ cur' = cur
      BY <1>5, <2>1 DEF InsertAt
    <3>2. AtRest(q)'
      BY <3>1 DEF AtRest, RingOf, Distinct, Spelled, Holds
    <3>3. TypeOK'
      BY <3>1 DEF TypeOK
    <3>4. UNCHANGED Abstract!vars
      BY <3>1 DEF Abstract!vars
    <3> QED
      BY <3>2, <3>3, <3>4
  <2>2. CASE ~(Asserts /\ ~NthItemLeft(n))
    <3> DEFINE k == IF n < Len(q) THEN n + 1 ELSE Len(q) + 1
               m == IF n < Len(q) THEN n ELSE Len(q)
    <3>1. o \notin members /\ DoInsertBefore(o, NthItem(n))
      BY <1>5, <2>2 DEF InsertAt
    <3>2. Path(next, next[ListHead]) = q
      BY <1>0 DEF Items
    <3>3. /\ n \in Nat /\ k \in 1 .. Len(q) + 1 /\ m \in 0 .. Len(q)
          /\ k = IF m < Len(q) THEN m + 1 ELSE Len(q) + 1
      BY FS_CardinalityType
    <3>4. NthItem(n) = Node(q, k)
      <4>1. NthItem(n) = IF n < Len(q) THEN q[n + 1] ELSE ListHead
        BY <3>2 DEF NthItem
      <4> QED
        BY <3>3, <4>1
    <3> HIDE DEF k, m
    <3>5. TypeOK' /\ (\E r : AtRest(r)') /\ Abstract!Put(o, k)
      BY <3>1, <3>3, <3>4, InsertStep
    <3>6. Abstract!PutNth(o, m)
      BY <1>0, <3>3, <3>5 DEF Abstract!PutNth, Items
    <3>7. Abstract!Next
      BY <1>0, <3>3, <3>6 DEF Abstract!Next, Items
    <3> QED
      BY <3>5, <3>7
  <2> QED
    BY <2>1, <2>2
<1> QED
  BY <1>1, <1>2, <1>3, <1>4, <1>5 DEF Insert

\* The ring keeps being a sequence, and each of its steps is one of ListSeq or none to it.
LEMMA RingStep == ASSUME ListInv, Next PROVE ListInv' /\ [Abstract!Next]_(Abstract!vars)
<1>1. PICK q : AtRest(q) \/ Clearing(q)
  BY DEF ListInv
<1>2. TypeOK
  BY DEF ListInv
<1>3. (item = Null <=> AtRest(q)) /\ (item # Null <=> Clearing(q))
  <2>1. Clearing(q) => item # Null
    BY ClearingIs
  <2> QED
    BY <1>1, <2>1 DEF AtRest
<1>4. ASSUME NEW o \in Objects, Insert(o) PROVE ListInv' /\ [Abstract!Next]_(Abstract!vars)
  <2>1. AtRest(q)
    BY <1>3, <1>4 DEF Insert, InsertFirst, InsertLast, InsertAfter, InsertBefore, InsertAt, Idle
  <2> QED
    BY <1>2, <1>4, <2>1, InsertSteps DEF ListInv
<1>5. ASSUME NEW o \in Objects, Remove(o) PROVE ListInv' /\ Abstract!Next
  <2>1. AtRest(q) /\ o \in members
    BY <1>3, <1>5 DEF Remove, Idle
  <2>2. PICK p \in 1 .. Len(q) : q[p] = o /\ Abstract!Place(o) = p /\ o \in Abstract!Members
    BY <1>2, <2>1, PlaceIs
  <2>3. TypeOK' /\ (\E r : AtRest(r)') /\ Abstract!Take(p)
    BY <1>2, <1>5, <2>1, <2>2, RemoveStep
  <2>4. Abstract!TakeObject(o)
    BY <2>2, <2>3 DEF Abstract!TakeObject
  <2> QED
    BY <2>3, <2>4 DEF ListInv, Abstract!Next
<1>6. CASE RemoveFirst
  <2>1. AtRest(q) /\ size # 0
    BY <1>3, <1>6 DEF RemoveFirst, Idle
  <2>2. 1 \in 1 .. Len(q)
    BY <1>2, <2>1, RestFacts
  <2>3. TypeOK' /\ (\E r : AtRest(r)') /\ Abstract!Take(1)
    BY <1>2, <1>6, <2>1, <2>2, RemoveStep
  <2> QED
    BY <2>3 DEF ListInv, Abstract!Next, Abstract!TakeFirst
<1>7. CASE RemoveLast
  <2>1. AtRest(q) /\ size # 0
    BY <1>3, <1>7 DEF RemoveLast, Idle
  <2>2. Len(q) \in 1 .. Len(q) /\ Items = q
    BY <1>2, <2>1, RestFacts, RestIs
  <2>3. TypeOK' /\ (\E r : AtRest(r)') /\ Abstract!Take(Len(q))
    BY <1>2, <1>7, <2>1, <2>2, RemoveStep
  <2>4. Abstract!TakeLast
    BY <2>2, <2>3 DEF Abstract!TakeLast, Items
  <2> QED
    BY <2>3, <2>4 DEF ListInv, Abstract!Next
<1>8. CASE ClearBegin
  <2>1. AtRest(q)
    BY <1>3, <1>8 DEF ClearBegin, Idle
  <2>2. TypeOK' /\ (\E r : Clearing(r)') /\ Abstract!Clear
    BY <1>2, <1>8, <2>1, ClearSteps
  <2> QED
    BY <2>2 DEF ListInv, Abstract!Next
<1>9. CASE ClearStep
  <2>1. Clearing(q)
    BY <1>3, <1>9 DEF ClearStep
  <2>2. TypeOK' /\ (\E r : Clearing(r)') /\ Abstract!Destroy
    BY <1>2, <1>9, <2>1, ClearSteps
  <2> QED
    BY <2>2 DEF ListInv, Abstract!Next
<1>10. CASE ClearEnd
  <2>1. Clearing(q)
    BY <1>3, <1>10 DEF ClearEnd
  <2>2. TypeOK' /\ (\E r : AtRest(r)') /\ UNCHANGED Abstract!vars
    BY <1>2, <1>10, <2>1, ClearSteps
  <2> QED
    BY <2>2 DEF ListInv
<1>11. ASSUME CursorFirst \/ CursorLast \/ CursorNext \/ CursorPrev
       PROVE  ListInv' /\ Abstract!Next
  <2>1. AtRest(q)
    BY <1>3, <1>11 DEF CursorFirst, CursorLast, CursorNext, CursorPrev, Point, Idle
  <2>2. Items = q /\ Len(q) \in Nat
    BY <1>2, <2>1, RestIs, RestFacts
  <2>3. ASSUME NEW i \in 0 .. Len(q) + 1, Point(Node(q, i))
        PROVE  ListInv' /\ Abstract!Point(Abstract!ItemOrNull(i))
    BY <1>2, <2>1, <2>3, PointStep DEF ListInv
  <2>4. CASE CursorFirst
    <3>1. 1 \in 0 .. Len(q) + 1 /\ next[ListHead] = Node(q, 1)
      <4>1. 0 \in 0 .. Len(q) /\ Node(q, 0) = ListHead /\ next[Node(q, 0)] = Node(q, 0 + 1)
        BY <1>2, <2>1, RestFacts
      <4> QED
        BY <2>2, <4>1
    <3>2. ListInv' /\ Abstract!PointFirst
      BY <2>3, <2>4, <3>1 DEF CursorFirst, Abstract!PointFirst
    <3> QED
      BY <3>2 DEF Abstract!Next
  <2>5. CASE CursorLast
    <3>1. Len(q) \in 0 .. Len(q) + 1 /\ prev[ListHead] = Node(q, Len(q))
      <4>1. Len(q) + 1 \in 1 .. Len(q) + 1 /\ (Len(q) + 1) - 1 = Len(q)
        BY <2>2
      <4> QED
        BY <1>2, <2>1, <2>2, <4>1, RestFacts
    <3>2. ListInv' /\ Abstract!Point(Abstract!ItemOrNull(Len(q)))
      BY <2>3, <2>5, <3>1 DEF CursorLast
    <3>3. Abstract!PointLast
      BY <2>2, <3>2 DEF Abstract!PointLast, Items
    <3> QED
      BY <3>2, <3>3 DEF Abstract!Next
  <2>6. CASE CursorNext
    <3>1. cur \in members /\ Point(next[cur])
      BY <2>6 DEF CursorNext
    <3>2. PICK p \in 1 .. Len(q) : q[p] = cur /\ Abstract!Place(cur) = p /\ cur \in Abstract!Members
      BY <1>2, <2>1, <3>1, PlaceIs
    <3>3. p + 1 \in 0 .. Len(q) + 1 /\ next[cur] = Node(q, p + 1)
      <4>1. p \in 0 .. Len(q) /\ Node(q, p) = cur
        BY <1>2, <2>1, <3>2, RestFacts
      <4> QED
        BY <1>2, <2>1, <2>2, <4>1, RestFacts
    <3>4. ListInv' /\ Abstract!Point(Abstract!ItemOrNull(p + 1))
      BY <2>3, <3>1, <3>3
    <3>5. Abstract!PointNext
      BY <3>2, <3>4 DEF Abstract!PointNext
    <3> QED
      BY <3>4, <3>5 DEF Abstract!Next
  <2>7. CASE CursorPrev
    <3>1. cur \in members /\ Point(prev[cur])
      BY <2>7 DEF CursorPrev
    <3>2. PICK p \in 1 .. Len(q) : q[p] = cur /\ Abstract!Place(cur) = p /\ cur \in Abstract!Members
      BY <1>2, <2>1, <3>1, PlaceIs
    <3>3. p - 1 \in 0 .. Len(q) + 1 /\ prev[cur] = Node(q, p - 1)
      <4>1. p \in 1 .. Len(q) + 1 /\ Node(q, p) = cur
        BY <1>2, <2>1, <2>2, <3>2, RestFacts
      <4> QED
        BY <1>2, <2>1, <2>2, <4>1, RestFacts
    <3>4. ListInv' /\ Abstract!Point(Abstract!ItemOrNull(p - 1))
      BY <2>3, <3>1, <3>3
    <3>5. Abstract!PointPrev
      BY <3>2, <3>4 DEF Abstract!PointPrev
    <3> QED
      BY <3>4, <3>5 DEF Abstract!Next
  <2> QED
    BY <1>11, <2>4, <2>5, <2>6, <2>7
<1> QED
  BY <1>4, <1>5, <1>6, <1>7, <1>8, <1>9, <1>10, <1>11 DEF Next

\* cclist_init leaves the ring of the empty sequence.
LEMMA RingInit == Init => ListInv /\ Abstract!Init
<1> SUFFICES ASSUME Init PROVE ListInv /\ Abstract!Init
  OBVIOUS
<1> DEFINE q == <<>>
<1>1. Distinct(q) /\ Len(q) = 0
  BY DEF Distinct
<1>2. TypeOK /\ next[ListHead] = ListHead /\ prev[ListHead] = ListHead /\ members = {} /\ item = Null /\ size = 0
  BY DEF Init, EmptyRing, TypeOK, Nodes, Links
<1> HIDE DEF q
<1>3. Spelled(q) /\ Holds(q)
  BY <1>1, <1>2 DEF Spelled, Holds, Node
<1>4. AtRest(q)
  BY <1>1, <1>2, <1>3 DEF AtRest, RingOf
<1>5. Items = <<>> /\ Doomed = <<>>
  BY <1>4, RestIs DEF q
<1>6. Abstract!Init
  BY <1>5 DEF Abstract!Init, Items, Doomed, Init
<1> QED
  BY <1>2, <1>4, <1>6 DEF ListInv

-----------------------------------------------------------------------------
(* The theorems.                                                             *)

\* Through every order of legal calls the inductive invariant holds.
LEMMA ListSafety == Spec => []ListInv
<1>1. ListInv /\ UNCHANGED vars => ListInv'
  BY DEF ListInv, TypeOK, AtRest, Clearing, RingOf, Distinct, Spelled, Holds, vars
<1>2. ListInv /\ [Next]_vars => ListInv'
  BY <1>1, RingStep
<1> QED
  BY <1>2, RingInit, PTL DEF Spec

\* After any number of insertions, removals and clears, at the ends and in the
\* middle, the links of list.c form a closed ring of the members, each link undone
\* by its opposite, and list->size is their number.
THEOREM RingIsClosed == Spec => []RingInv
<1>1. ListInv => RingInv
  <2> SUFFICES ASSUME ListInv PROVE RingInv
    OBVIOUS
  <2>1. PICK q : AtRest(q) \/ Clearing(q)
    BY DEF ListInv
  <2>2. TypeOK
    BY DEF ListInv
  <2>3. CASE Clearing(q)
    BY <2>2, <2>3, ClearingIs DEF RingInv, RingLinked, SizeCounts
  <2>4. CASE AtRest(q)
    <3> USE <2>2, <2>4
    <3>1. Cardinality(members) = Len(q) /\ size = Len(q)
      BY DistinctCounts, RestFacts DEF AtRest, RingOf
    <3>2. ASSUME NEW n \in members \cup {ListHead}
          PROVE  /\ next[n] \in members \cup {ListHead} /\ prev[next[n]] = n
                 /\ prev[n] \in members \cup {ListHead} /\ next[prev[n]] = n
      <4>1. \A i \in 0 .. Len(q) + 1 : Node(q, i) \in members \cup {ListHead}
        BY RestFacts DEF Node
      <4>2. (\E i \in 0 .. Len(q) : n = Node(q, i)) /\ (\E j \in 1 .. Len(q) + 1 : n = Node(q, j))
        <5>1. CASE n = ListHead
          <6>1. 0 \in 0 .. Len(q) /\ Len(q) + 1 \in 1 .. Len(q) + 1
            BY RestFacts
          <6> QED
            BY <5>1, <6>1, RestFacts
        <5>2. CASE n \in members
          <6>1. PICK p \in 1 .. Len(q) : n = q[p]
            BY <5>2, RestFacts
          <6>2. p \in 0 .. Len(q) /\ p \in 1 .. Len(q) + 1 /\ Node(q, p) = n
            BY <6>1, RestFacts
          <6> QED
            BY <6>2
        <5> QED
          BY <5>1, <5>2
      <4>3. PICK i \in 0 .. Len(q), j \in 1 .. Len(q) + 1 : n = Node(q, i) /\ n = Node(q, j)
        BY <4>2, Zenon
      <4>4. /\ Len(q) \in Nat /\ i + 1 \in 1 .. Len(q) + 1 /\ (i + 1) - 1 = i /\ i + 1 \in 0 .. Len(q) + 1
            /\ j - 1 \in 0 .. Len(q) /\ (j - 1) + 1 = j /\ j - 1 \in 0 .. Len(q) + 1
        BY RestFacts
      <4>5. next[n] = Node(q, i + 1) /\ prev[Node(q, i + 1)] = n
        <5>1. prev[Node(q, i + 1)] = Node(q, (i + 1) - 1)
          BY <4>4, RestFacts
        <5>2. next[Node(q, i)] = Node(q, i + 1)
          BY RestFacts
        <5> QED
          BY <4>3, <4>4, <5>1, <5>2
      <4>6. prev[n] = Node(q, j - 1) /\ next[Node(q, j - 1)] = n
        <5>1. next[Node(q, j - 1)] = Node(q, (j - 1) + 1)
          BY <4>4, RestFacts
        <5>2. prev[Node(q, j)] = Node(q, j - 1)
          BY RestFacts
        <5> QED
          BY <4>3, <4>4, <5>1, <5>2
      <4> QED
        BY <4>1, <4>4, <4>5, <4>6
    <3> QED
      BY <3>1, <3>2 DEF RingInv, RingLinked, SizeCounts
  <2> QED
    BY <2>1, <2>3, <2>4
<1> QED
  BY <1>1, ListSafety, PTL

\* list.c implements the list that list.h promises: each call does to the sequence
\* of the members what its name says, and a clear destroys them first to last.
THEOREM RingIsSequence == Spec => ImplementsListSeq
<1>1. UNCHANGED vars => UNCHANGED Abstract!vars
  BY DEF vars, Abstract!vars
<1>2. ListInv /\ [Next]_vars => [Abstract!Next]_(Abstract!vars)
  BY <1>1, RingStep
<1> QED
  BY <1>2, RingInit, ListSafety, PTL DEF Spec, ImplementsListSeq, Abstract!Spec
=============================================================================
