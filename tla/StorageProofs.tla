--------------------------- MODULE StorageProofs ---------------------------
(***************************************************************************)
(* Proofs about Storage, for any blocks, allocators, components of paths    *)
(* and lengths of files: what a read returns is whole, each block has one   *)
(* owner, and a path holds what was joined, down to the names trimmed.      *)
(***************************************************************************)
EXTENDS Storage, WellFoundedInduction, FiniteSetTheorems, SequenceTheorems, TLAPS

\* Null is no block, and there are finitely many of those.
LEMMA BlocksAre == Null \notin Blocks /\ IsFiniteSet(Blocks)
BY MemoryAssumption DEF MemoryAssumption

USE BlocksAre, FileSystemAssumption DEF FileSystemAssumption

-----------------------------------------------------------------------------
(* What a read returns.                                                      *)

\* A block that was read ends in a null, behind all that is sure to be from the file.
Whole(d) ==
  \E n \in Nat : /\ DOMAIN d.cells = 1 .. n + 1 /\ Len(d.cells) = n + 1
                 /\ d.cells[n + 1] = "null"
                 /\ \A i \in 1 .. d.whole : d.cells[i] = "byte"

\* The file exists while it is read, and is never shorter than the least length seen.
ReadInv ==
  /\ place \in {"idle", "opened", "measured"}
  /\ file \in 0 .. MaxLength \/ (file = Null /\ place = "idle")
  /\ place = "measured" => least \in Nat /\ least <= file /\ (size # Null => size \in Nat)
  /\ \A b \in DOMAIN data : Whole(data[b])

\* What ccfs_path_read makes of a file that was measured.
LEMMA CellsAreWhole ==
  ASSUME NEW n \in Nat, NEW m \in Nat, NEW l \in Nat, l <= m, NEW d,
         d = [cells |-> [i \in 1 .. n + 1 |-> IF i = n + 1 THEN "null"
                                              ELSE IF i <= Lesser(n, m) THEN "byte" ELSE Wild],
              whole |-> Lesser(n, l)]
  PROVE  Whole(d)
<1>1. PICK cells, w : /\ d.cells = cells /\ d.whole = w
                      /\ cells = [i \in 1 .. n + 1 |-> IF i = n + 1 THEN "null"
                                                       ELSE IF i <= Lesser(n, m) THEN "byte" ELSE Wild]
                      /\ w = Lesser(n, l)
  OBVIOUS
<1>2. w \in Nat /\ w <= n /\ w <= Lesser(n, m) /\ Lesser(n, m) \in Nat
  BY <1>1 DEF Lesser
<1>3. DOMAIN cells = 1 .. n + 1 /\ cells[n + 1] = "null" /\ n + 1 \in Nat
  BY <1>1
<1>4. Len(cells) = n + 1
  BY <1>1, <1>3
<1>5. \A i \in 1 .. w : cells[i] = "byte"
  <2> TAKE i \in 1 .. w
  <2>1. i \in 1 .. n + 1 /\ i # n + 1 /\ i <= Lesser(n, m)
    BY <1>2
  <2> QED
    BY <1>1, <2>1
<1> QED
  BY <1>1, <1>3, <1>4, <1>5 DEF Whole

\* A program and the other process keep what was read, and what is being read, whole.
LEMMA ReadStep == ReadInv /\ [Next]_vars => ReadInv'
<1> SUFFICES ASSUME ReadInv, [Next]_vars PROVE ReadInv'
  OBVIOUS
<1>1. CASE UNCHANGED files
  BY <1>1 DEF files, reader, ReadInv
<1>2. CASE MakePath
  BY <1>2 DEF MakePath, ccfs_path_concat, ccfs_path_rtrim_i, reader, ReadInv
<1>3. CASE ccfs_file_open
  BY <1>3 DEF ccfs_file_open, ReadInv
<1>4. CASE Measure
  BY <1>4 DEF Measure, ReadInv
<1>5. ASSUME NEW b \in Blocks, ReadAll(b) PROVE ReadInv'
  <2>1. size \in Nat /\ least \in Nat /\ file \in Nat /\ least <= file
    BY <1>5 DEF ReadAll, ReadInv
  <2> DEFINE d == [cells |-> [i \in 1 .. size + 1 |-> IF i = size + 1 THEN "null"
                                              ELSE IF i <= Lesser(size, file) THEN "byte" ELSE Wild],
                   whole |-> Lesser(size, least)]
  <2>2. data' = [c \in DOMAIN data \cup {b} |-> IF c = b THEN d ELSE data[c]]
    BY <1>5 DEF ReadAll, NullAt
  <2>3. Whole(d)
    BY <2>1, CellsAreWhole
  <2> HIDE DEF d
  <2>4. \A c \in DOMAIN data' : Whole(data'[c])
    BY <2>2, <2>3 DEF ReadInv
  <2> QED
    BY <1>5, <2>4 DEF ReadAll, ReadInv
<1>6. ASSUME NEW b \in Blocks, FreeData(b) PROVE ReadInv'
  BY <1>6 DEF FreeData, reader, ReadInv
<1>7. ASSUME NEW length \in 0 .. MaxLength, OtherWrites(length) PROVE ReadInv'
  BY <1>7 DEF OtherWrites, Lesser, ReadInv
<1>8. CASE ReadFails
  BY <1>1, <1>8 DEF ReadFails
<1> QED
  BY <1>1, <1>2, <1>3, <1>4, <1>5, <1>6, <1>7, <1>8 DEF Next, vars, UseFiles, UseObjects, UseMemory

\* ccfs_path_read (filesystem.c) gives back a string that ends where it says, and whose
\* first bytes were in the file all the time from its measuring to its reading.
THEOREM ReadsAreWhole == Spec => []ReadWhole
<1>1. Init => ReadInv
  BY DEF Init, FileInit, ReadInv
<1>2. ReadInv => ReadWhole
  BY DEF ReadInv, Whole, ReadWhole
<1> QED
  BY <1>1, <1>2, ReadStep, PTL DEF Spec

-----------------------------------------------------------------------------
(* The chain of objects.                                                     *)

\* The blocks of q are all objects that are left, each once, linked in this order.
Linked(q) ==
  /\ q \in Seq(Blocks) /\ Len(q) \in Nat
  /\ \A i, j \in 1 .. Len(q) : q[i] = q[j] => i = j
  /\ {q[i] : i \in 1 .. Len(q)} = DOMAIN link
  /\ First = IF Len(q) = 0 THEN Null ELSE q[1]
  /\ \A i \in 1 .. Len(q) : link[q[i]] = IF i = Len(q) THEN Null ELSE q[i + 1]

\* Every block is of the allocator in use, and an object or what a file held.
Owned ==
  /\ maker = [b \in Allocated |-> allocator] /\ Allocated \subseteq Blocks
  /\ ~misfreed /\ ~strayed
  /\ Allocated = DOMAIN link \cup DOMAIN data
  /\ DOMAIN link \cap DOMAIN data = {}

StoreInv ==
  /\ Owned
  /\ gc = "raw" => DOMAIN link = {}
  /\ \E q : Linked(q) /\ (gc # "deleting" => allocated = Len(q))

\* Induction on a set of numbers.
LEMMA SetInduction ==
  ASSUME NEW S \in SUBSET Nat, 0 \in S, \A n \in S : n + 1 \in S
  PROVE  S = Nat
<1> SUFFICES ASSUME Nat \ S # {} PROVE FALSE
  BY Zenon
<1>1. \E x \in Nat \ S : \A y \in Nat \ S : ~(<<y, x>> \in OpToRel(<, Nat))
  BY NatLessThanWellFounded, WFMin, Zenon
<1>2. PICK x \in Nat \ S : \A y \in Nat \ S : ~(<<y, x>> \in OpToRel(<, Nat))
  BY <1>1, Zenon
<1>3. \A y \in Nat : y < x => y \in S
  BY <1>2, Zenon DEF OpToRel
<1>4. x # 0 /\ x \in Nat
  OBVIOUS
<1>5. x - 1 \in Nat /\ x - 1 < x /\ x - 1 + 1 = x
  BY <1>4
<1> QED
  BY <1>2, <1>3, <1>5

\* There are no more objects than blocks.
LEMMA ChainFits ==
  ASSUME NEW q, Linked(q)
  PROVE  Len(q) \in Nat /\ Cardinality(Blocks) \in Nat /\ Len(q) <= Cardinality(Blocks)
<1> DEFINE n == Len(q)
           M == {q[i] : i \in 1 .. n}
           f == [i \in 1 .. n |-> q[i]]
<1>1. /\ n \in Nat /\ \A i \in 1 .. n : q[i] \in Blocks
      /\ \A i, j \in 1 .. n : q[i] = q[j] => i = j
  BY DEF Linked
<1> HIDE DEF n
<1>2. f \in Bijection(1 .. n, M)
  BY <1>1 DEF Bijection, Injection, Surjection, IsInjective
<1>3. ExistsBijection(1 .. n, M)
  BY <1>2, Zenon DEF ExistsBijection
<1>4. Cardinality(M) = n
  BY <1>1, <1>3, FS_CountingElements
<1>5. M \subseteq Blocks
  BY <1>1
<1>6. Cardinality(M) <= Cardinality(Blocks) /\ Cardinality(Blocks) \in Nat
  BY <1>5, FS_Subset, FS_CardinalityType
<1> QED
  BY <1>1, <1>4, <1>6, Zenon DEF n

\* The links from the first lead through the objects in their order.
LEMMA ChainIs == ASSUME NEW q, Linked(q) PROVE Chain(First) = q
<1> DEFINE Count == Cardinality(Blocks)
           Walks(h) == h = [i \in 0 .. Count |-> IF i = 0 THEN First
                                                 ELSE IF h[i - 1] \in DOMAIN link THEN link[h[i - 1]]
                                                                                  ELSE h[i - 1]]
           at == CHOOSE h : Walks(h)
           w == [i \in 0 .. Count |-> IF i < Len(q) THEN q[i + 1] ELSE Null]
<1>1. Chain(First) = [i \in 1 .. Cardinality({j \in 0 .. Count - 1 : at[j] \in DOMAIN link}) |-> at[i - 1]]
  BY DEF Chain
<1>2. /\ Len(q) \in Nat /\ Count \in Nat /\ Len(q) <= Count
      /\ \A i \in 1 .. Len(q) : q[i] \in DOMAIN link
      /\ DOMAIN link \subseteq Blocks /\ Null \notin DOMAIN link
  <2>1. Len(q) \in Nat /\ Count \in Nat /\ Len(q) <= Count
    BY ChainFits
  <2>2. DOMAIN link \subseteq Blocks /\ \A i \in 1 .. Len(q) : q[i] \in DOMAIN link
    BY DEF Linked
  <2> QED
    BY <2>1, <2>2
<1>3. /\ First = IF Len(q) = 0 THEN Null ELSE q[1]
      /\ \A i \in 1 .. Len(q) : link[q[i]] = IF i = Len(q) THEN Null ELSE q[i + 1]
  BY DEF Linked
<1> HIDE DEF Count
<1>4. \A i \in 1 .. Count : w[i] = IF w[i - 1] \in DOMAIN link THEN link[w[i - 1]] ELSE w[i - 1]
  <2> SUFFICES ASSUME NEW i \in 1 .. Count
               PROVE  w[i] = IF w[i - 1] \in DOMAIN link THEN link[w[i - 1]] ELSE w[i - 1]
    OBVIOUS
  <2>1. i - 1 \in 0 .. Count /\ i \in 0 .. Count /\ i - 1 + 1 = i
    BY <1>2
  <2>2. CASE i < Len(q)
    <3>1. w[i - 1] = q[i] /\ w[i] = q[i + 1] /\ i \in 1 .. Len(q)
      BY <1>2, <2>1, <2>2
    <3> QED
      BY <1>2, <1>3, <2>2, <3>1
  <2>3. CASE i = Len(q)
    <3>1. i \in 1 .. Len(q) /\ i - 1 < Len(q) /\ ~(i < Len(q))
      BY <1>2, <2>3
    <3>2. w[i - 1] = q[i] /\ w[i] = Null
      BY <2>1, <3>1
    <3> QED
      BY <1>2, <1>3, <2>3, <3>1, <3>2
  <2>4. CASE i > Len(q)
    <3>1. w[i - 1] = Null /\ w[i] = Null
      BY <1>2, <2>1, <2>4
    <3> QED
      BY <1>2, <3>1
  <2> QED
    BY <1>2, <2>2, <2>3, <2>4
<1>5. w[0] = First
  <2>1. 0 \in 0 .. Count
    BY <1>2
  <2>2. CASE Len(q) = 0
    BY <1>2, <1>3, <2>1, <2>2
  <2>3. CASE Len(q) # 0
    BY <1>2, <1>3, <2>1, <2>3
  <2> QED
    BY <2>2, <2>3
<1>6. Walks(w)
  <2> DEFINE v == [i \in 0 .. Count |-> IF i = 0 THEN First
                                        ELSE IF w[i - 1] \in DOMAIN link THEN link[w[i - 1]] ELSE w[i - 1]]
  <2>1. \A i \in 0 .. Count : w[i] = IF i = 0 THEN First
                                     ELSE IF w[i - 1] \in DOMAIN link THEN link[w[i - 1]] ELSE w[i - 1]
    <3>1. \A i \in 0 .. Count : i = 0 \/ i \in 1 .. Count
      BY <1>2
    <3> HIDE DEF w
    <3> QED
      BY <1>4, <1>5, <3>1
  <2>2. DOMAIN w = 0 .. Count /\ w = [i \in 0 .. Count |-> w[i]]
    OBVIOUS
  <2> HIDE DEF w
  <2>3. w = v
    BY <2>1, <2>2
  <2> QED
    BY <2>3
<1>7. Walks(at)
  BY <1>6
<1> HIDE DEF at
<1>8. \A i \in 0 .. Count : at[i] = IF i = 0 THEN First
                                    ELSE IF at[i - 1] \in DOMAIN link THEN link[at[i - 1]] ELSE at[i - 1]
  BY <1>7
<1> HIDE DEF w, Walks
<1>9. \A i \in 0 .. Count : at[i] = w[i]
  <2> DEFINE S == {i \in Nat : i \in 0 .. Count => at[i] = w[i]}
  <2>1. 0 \in S
    BY <1>2, <1>5, <1>8
  <2>2. ASSUME NEW i \in S PROVE i + 1 \in S
    <3> SUFFICES ASSUME i + 1 \in 0 .. Count PROVE at[i + 1] = w[i + 1]
      OBVIOUS
    <3>1. i \in 0 .. Count /\ i + 1 \in 1 .. Count /\ i + 1 - 1 = i /\ i + 1 # 0
      BY <1>2
    <3>2. at[i] = w[i]
      BY <3>1
    <3> QED
      BY <1>4, <1>8, <3>1, <3>2
  <2>3. S = Nat
    <3> HIDE DEF S
    <3>1. S \in SUBSET Nat
      BY DEF S
    <3> QED
      BY <2>1, <2>2, <3>1, SetInduction
  <2> QED
    BY <2>3
<1>10. \A j \in 0 .. Count : at[j] = IF j < Len(q) THEN q[j + 1] ELSE Null
  BY <1>9 DEF w
<1>11. {j \in 0 .. Count - 1 : at[j] \in DOMAIN link} = 0 .. Len(q) - 1
  <2>1. \A j \in 0 .. Count : j < Len(q) => j + 1 \in 1 .. Len(q)
    BY <1>2
  <2>2. \A j \in 0 .. Count : at[j] \in DOMAIN link <=> j < Len(q)
    BY <1>2, <1>10, <2>1
  <2> QED
    BY <1>2, <2>2
<1>12. Cardinality(0 .. Len(q) - 1) = Len(q)
  <2> DEFINE m == Len(q) - 1
  <2>1. 0 \in Int /\ m \in Int
    BY <1>2
  <2> HIDE DEF m
  <2>2. Cardinality(0 .. m) = IF 0 > m THEN 0 ELSE m - 0 + 1
    BY <2>1, FS_Interval
  <2> QED
    BY <1>2, <2>2 DEF m
<1>13. \A i \in 1 .. Len(q) : at[i - 1] = q[i]
  <2> SUFFICES ASSUME NEW i \in 1 .. Len(q) PROVE at[i - 1] = q[i]
    OBVIOUS
  <2>1. i - 1 \in 0 .. Count /\ i - 1 < Len(q) /\ i - 1 + 1 = i
    BY <1>2
  <2> QED
    BY <1>10, <2>1
<1>14. Chain(First) = [i \in 1 .. Len(q) |-> q[i]]
  BY <1>1, <1>11, <1>12, <1>13
<1>15. q = [i \in 1 .. Len(q) |-> q[i]]
  BY DEF Linked
<1> QED
  BY <1>14, <1>15

\* So they are the blocks in the chain.
LEMMA InChainIs == StoreInv => InChain = DOMAIN link /\ InChain \subseteq Allocated
<1> SUFFICES ASSUME StoreInv PROVE InChain = DOMAIN link /\ InChain \subseteq Allocated
  OBVIOUS
<1>1. PICK q : Linked(q)
  BY DEF StoreInv
<1>2. Chain(First) = q
  BY <1>1, ChainIs
<1>3. InChain = {q[i] : i \in 1 .. Len(q)}
  BY <1>1, <1>2 DEF InChain, Linked
<1> QED
  BY <1>1, <1>3 DEF Linked, StoreInv, Owned

-----------------------------------------------------------------------------
(* The steps.                                                                *)

\* An allocation gives a new block, of the allocator in use.
LEMMA AllocIs ==
  ASSUME Owned, NEW b \in Blocks, cc_alloc(b)
  PROVE  /\ b \notin Allocated /\ Allocated' = Allocated \cup {b} /\ Allocated' \subseteq Blocks
         /\ maker' = [c \in Allocated' |-> allocator'] /\ UNCHANGED misfreed
<1>1. /\ b \notin Allocated /\ UNCHANGED <<allocator, misfreed>>
      /\ maker' = [d \in Allocated \cup {b} |-> IF d = b THEN allocator ELSE maker[d]]
      /\ maker = [c \in Allocated |-> allocator]
  BY DEF cc_alloc, Owned
<1>2. Allocated' = Allocated \cup {b}
  BY <1>1, Zenon DEF Allocated
<1>3. \A c \in Allocated : maker[c] = allocator
  BY <1>1, Zenon
<1>4. maker' = [d \in Allocated \cup {b} |-> allocator]
  BY <1>1, <1>3
<1> QED
  BY <1>1, <1>2, <1>4 DEF Owned

\* What is freed was allocated, by the allocator in use.
LEMMA FreeIs ==
  ASSUME Owned, NEW b \in Allocated, cc_free(b)
  PROVE  /\ Allocated' = Allocated \ {b} /\ maker' = [c \in Allocated' |-> allocator']
         /\ ~misfreed'
<1>1. /\ maker' = [d \in Allocated \ {b} |-> maker[d]] /\ UNCHANGED allocator
      /\ misfreed' = (misfreed \/ b \notin Allocated \/ maker[b] # allocator)
      /\ maker = [c \in Allocated |-> allocator] /\ ~misfreed
  BY DEF cc_free, Owned
<1>2. Allocated' = Allocated \ {b}
  BY <1>1, Zenon DEF Allocated
<1>3. \A c \in Allocated : maker[c] = allocator
  BY <1>1, Zenon
<1>4. maker' = [d \in Allocated \ {b} |-> allocator]
  BY <1>1, <1>3
<1>5. ~misfreed'
  BY <1>1, <1>3
<1> QED
  BY <1>1, <1>2, <1>4, <1>5

\* A step that leaves the objects alone leaves their chain.
LEMMA ChainStays ==
  ASSUME StoreInv, UNCHANGED objects, Owned'
  PROVE  StoreInv'
BY DEF objects, StoreInv, Linked, First

\* A new object is in front of the chain.
LEMMA NewInv ==
  ASSUME StoreInv, NEW b \in Blocks, gc_new(b), UNCHANGED files
  PROVE  StoreInv'
<1>1. /\ Owned /\ gc = "live" /\ gc' = gc /\ UNCHANGED data /\ cc_alloc(b)
      /\ First = head /\ First' = head'
  BY DEF StoreInv, gc_new, files, First
<1>2. /\ b \notin Allocated /\ Allocated' = Allocated \cup {b} /\ Allocated' \subseteq Blocks
      /\ maker' = [c \in Allocated' |-> allocator'] /\ UNCHANGED misfreed
  BY <1>1, AllocIs
<1>3. /\ link' = [d \in DOMAIN link \cup {b} |-> IF d = b THEN head ELSE link[d]]
      /\ head' = b /\ allocated' = allocated + 1
      /\ strayed' = (strayed \/ (allocated' > Threshold /\ ~(InChain \subseteq Allocated)))
  BY DEF gc_new
<1>4. ~strayed'
  BY <1>1, <1>3, InChainIs DEF Owned
<1>5. DOMAIN link' = DOMAIN link \cup {b} /\ b \notin DOMAIN link /\ b \notin DOMAIN data
  BY <1>1, <1>2, <1>3 DEF Owned
<1>6. Owned'
  BY <1>1, <1>2, <1>4, <1>5 DEF Owned
<1>7. PICK q : Linked(q) /\ allocated = Len(q)
  BY <1>1 DEF StoreInv
<1>8. /\ q \in Seq(Blocks) /\ Len(q) \in Nat
      /\ \A i, j \in 1 .. Len(q) : q[i] = q[j] => i = j
      /\ {q[i] : i \in 1 .. Len(q)} = DOMAIN link
      /\ head = IF Len(q) = 0 THEN Null ELSE q[1]
      /\ \A i \in 1 .. Len(q) : link[q[i]] = IF i = Len(q) THEN Null ELSE q[i + 1]
  BY <1>1, <1>7 DEF Linked
<1> DEFINE r == <<b>> \o q
<1>9. /\ r \in Seq(Blocks) /\ Len(r) = Len(q) + 1 /\ r[1] = b
      /\ \A i \in 1 .. Len(q) : r[i + 1] = q[i]
  BY <1>8
<1> HIDE DEF r
<1>10. \A i \in 1 .. Len(r) : i = 1 \/ (i - 1 \in 1 .. Len(q) /\ r[i] = q[i - 1] /\ i - 1 + 1 = i)
  <2> TAKE i \in 1 .. Len(r)
  <2>1. i = 1 \/ (i - 1 \in 1 .. Len(q) /\ i - 1 + 1 = i)
    BY <1>8, <1>9
  <2> QED
    BY <1>9, <2>1
<1>11. \A i \in 1 .. Len(q) : q[i] # b /\ q[i] \in DOMAIN link
  BY <1>5, <1>8
<1>12. \A i, j \in 1 .. Len(r) : r[i] = r[j] => i = j
  <2>1. ASSUME NEW i \in 1 .. Len(r), NEW j \in 1 .. Len(r), r[i] = r[j], i # 1, j # 1 PROVE i = j
    <3>1. PICK k \in 1 .. Len(q) : i = k + 1 /\ r[i] = q[k]
      BY <1>10, <2>1
    <3>2. PICK l \in 1 .. Len(q) : j = l + 1 /\ r[j] = q[l]
      BY <1>10, <2>1
    <3> QED
      BY <1>8, <2>1, <3>1, <3>2
  <2> QED
    BY <1>9, <1>10, <1>11, <2>1
<1>13. {r[i] : i \in 1 .. Len(r)} = DOMAIN link'
  <2>1. \A i \in 1 .. Len(r) : r[i] \in DOMAIN link'
    BY <1>5, <1>9, <1>10, <1>11
  <2>2. \A c \in DOMAIN link : \E i \in 1 .. Len(q) : c = q[i] /\ c = r[i + 1] /\ i + 1 \in 1 .. Len(r)
    BY <1>8, <1>9
  <2>3. 1 \in 1 .. Len(r)
    BY <1>8, <1>9
  <2>4. \A c \in DOMAIN link' : \E i \in 1 .. Len(r) : c = r[i]
    BY <1>5, <1>9, <2>2, <2>3
  <2> QED
    BY <2>1, <2>4
<1>14. head' = IF Len(r) = 0 THEN Null ELSE r[1]
  BY <1>3, <1>8, <1>9
<1>15. \A i \in 1 .. Len(r) : link'[r[i]] = IF i = Len(r) THEN Null ELSE r[i + 1]
  <2> TAKE i \in 1 .. Len(r)
  <2>1. CASE i = 1
    <3>1. link'[r[i]] = head
      BY <1>3, <1>5, <1>9, <2>1
    <3>2. Len(q) # 0 => 1 \in 1 .. Len(q) /\ r[1 + 1] = q[1]
      BY <1>8, <1>9
    <3> QED
      BY <1>8, <1>9, <2>1, <3>1, <3>2
  <2>2. CASE i # 1
    <3>1. PICK j \in 1 .. Len(q) : i = j + 1 /\ r[i] = q[j]
      BY <1>10, <2>2
    <3>2. link'[r[i]] = link[q[j]]
      BY <1>3, <1>11, <3>1
    <3>3. j # Len(q) => j + 1 \in 1 .. Len(q) /\ r[i + 1] = q[j + 1]
      BY <1>8, <1>9, <3>1
    <3> QED
      BY <1>8, <1>9, <3>1, <3>2, <3>3
  <2> QED
    BY <2>1, <2>2
<1>16. allocated' = Len(r) /\ Len(r) \in Nat
  BY <1>3, <1>7, <1>8, <1>9
<1>17. Linked(r)'
  BY <1>1, <1>9, <1>12, <1>13, <1>14, <1>15, <1>16 DEF Linked
<1> QED
  BY <1>1, <1>6, <1>16, <1>17 DEF StoreInv

\* A turn of the loop of gc_deinit takes the first object off the chain.
LEMMA DeinitInv ==
  ASSUME StoreInv, DeinitNext, UNCHANGED files
  PROVE  StoreInv'
<1>1. /\ Owned /\ gc = "deleting" /\ gc' = gc /\ UNCHANGED <<data, strayed>> /\ cc_free(obj)
      /\ obj # Null /\ link' = [b \in DOMAIN link \ {obj} |-> link[b]] /\ obj' = link[obj]
      /\ First = obj /\ First' = obj'
  BY DEF StoreInv, DeinitNext, NextOf, files, First
<1>2. PICK q : Linked(q)
  BY DEF StoreInv
<1>3. /\ q \in Seq(Blocks) /\ Len(q) \in Nat
      /\ \A i, j \in 1 .. Len(q) : q[i] = q[j] => i = j
      /\ {q[i] : i \in 1 .. Len(q)} = DOMAIN link
      /\ obj = IF Len(q) = 0 THEN Null ELSE q[1]
      /\ \A i \in 1 .. Len(q) : link[q[i]] = IF i = Len(q) THEN Null ELSE q[i + 1]
  BY <1>1, <1>2 DEF Linked
<1>4. Len(q) # 0 /\ obj = q[1] /\ 1 \in 1 .. Len(q) /\ obj \in DOMAIN link
  BY <1>1, <1>3
<1>5. obj \in Allocated /\ obj \notin DOMAIN data
  BY <1>1, <1>4 DEF Owned
<1>6. /\ Allocated' = Allocated \ {obj} /\ maker' = [c \in Allocated' |-> allocator']
      /\ ~misfreed'
  BY <1>1, <1>5, FreeIs
<1>7. DOMAIN link' = DOMAIN link \ {obj}
  BY <1>1
<1>8. Owned'
  BY <1>1, <1>5, <1>6, <1>7 DEF Owned
<1> DEFINE r == Tail(q)
<1>9. /\ r \in Seq(Blocks) /\ Len(r) = Len(q) - 1 /\ Len(r) \in Nat
      /\ \A i \in 1 .. Len(r) : r[i] = q[i + 1] /\ i + 1 \in 1 .. Len(q) /\ i + 1 # 1
  BY <1>3, <1>4
<1> HIDE DEF r
<1>10. \A i, j \in 1 .. Len(r) : r[i] = r[j] => i = j
  <2> SUFFICES ASSUME NEW i \in 1 .. Len(r), NEW j \in 1 .. Len(r), r[i] = r[j] PROVE i = j
    OBVIOUS
  <2>1. i + 1 = j + 1
    BY <1>3, <1>9
  <2> QED
    BY <2>1
<1>11. {r[i] : i \in 1 .. Len(r)} = DOMAIN link'
  <2>1. \A i \in 1 .. Len(r) : r[i] \in DOMAIN link /\ r[i] # obj
    BY <1>3, <1>4, <1>9
  <2>2. ASSUME NEW c \in DOMAIN link, c # obj PROVE \E i \in 1 .. Len(r) : c = r[i]
    <3>1. PICK j \in 1 .. Len(q) : c = q[j]
      BY <1>3
    <3>2. j - 1 \in 1 .. Len(r) /\ j - 1 + 1 = j
      BY <1>4, <1>9, <2>2, <3>1
    <3> QED
      BY <1>9, <3>1, <3>2
  <2> QED
    BY <1>7, <2>1, <2>2
<1>12. obj' = IF Len(r) = 0 THEN Null ELSE r[1]
  <2>1. obj' = IF 1 = Len(q) THEN Null ELSE q[1 + 1]
    BY <1>1, <1>3, <1>4
  <2>2. Len(r) = 0 <=> Len(q) = 1
    BY <1>3, <1>9
  <2>3. Len(r) # 0 => r[1] = q[1 + 1]
    BY <1>9
  <2> QED
    BY <2>1, <2>2, <2>3
<1>13. \A i \in 1 .. Len(r) : link'[r[i]] = IF i = Len(r) THEN Null ELSE r[i + 1]
  <2> TAKE i \in 1 .. Len(r)
  <2>1. r[i] \in DOMAIN link' /\ link'[r[i]] = link[q[i + 1]]
    BY <1>1, <1>7, <1>9, <1>11
  <2>2. link[q[i + 1]] = IF i + 1 = Len(q) THEN Null ELSE q[i + 1 + 1]
    BY <1>3, <1>9
  <2>3. i # Len(r) => i + 1 \in 1 .. Len(r) /\ r[i + 1] = q[i + 1 + 1]
    BY <1>9
  <2> QED
    BY <1>9, <2>1, <2>2, <2>3
<1>14. Linked(r)'
  BY <1>1, <1>9, <1>10, <1>11, <1>12, <1>13 DEF Linked
<1> QED
  BY <1>1, <1>8, <1>14 DEF StoreInv

\* A collector that is begun, or has given back its objects, has none.
LEMMA EmptyChain ==
  ASSUME DOMAIN link' = {}, gc' = "live", head' = Null, allocated' = 0, Owned'
  PROVE  StoreInv'
<1> DEFINE q == <<>>
<1>1. q \in Seq(Blocks) /\ Len(q) = 0 /\ 1 .. Len(q) = {}
  OBVIOUS
<1>2. {q[i] : i \in 1 .. Len(q)} = {}
  BY <1>1
<1>3. First' = Null
  BY DEF First
<1> HIDE DEF q
<1>4. Linked(q)'
  BY <1>1, <1>2, <1>3 DEF Linked
<1> QED
  BY <1>1, <1>4 DEF StoreInv

\* Every step keeps the owners of the blocks and the chain of the objects.
LEMMA StoreStep == StoreInv /\ [Next]_vars => StoreInv'
<1> SUFFICES ASSUME StoreInv, [Next]_vars PROVE StoreInv'
  OBVIOUS
<1>1. Owned
  BY DEF StoreInv
<1>2. ASSUME UNCHANGED <<allocator, maker, misfreed, objects, data>> PROVE StoreInv'
  <2>1. Owned'
    BY <1>1, <1>2 DEF objects, Owned, Allocated
  <2> QED
    BY <1>2, <2>1, ChainStays
<1>3. ASSUME UNCHANGED vars PROVE StoreInv'
  BY <1>2, <1>3 DEF vars, files, memory
<1>4. CASE MakePath
  BY <1>2, <1>4 DEF MakePath, ccfs_path_concat, ccfs_path_rtrim_i, memory
<1>5. CASE ccfs_file_open /\ UNCHANGED objects
  BY <1>2, <1>5 DEF ccfs_file_open, memory
<1>6. CASE Measure /\ UNCHANGED objects
  BY <1>2, <1>6 DEF Measure, memory
<1>7. ASSUME NEW b \in Blocks, ReadAll(b), UNCHANGED objects PROVE StoreInv'
  <2>1. /\ b \notin Allocated /\ Allocated' = Allocated \cup {b} /\ Allocated' \subseteq Blocks
        /\ maker' = [c \in Allocated' |-> allocator'] /\ UNCHANGED misfreed
    BY <1>1, <1>7, AllocIs DEF ReadAll
  <2>2. DOMAIN data' = DOMAIN data \cup {b}
    BY <1>7 DEF ReadAll
  <2>3. Owned'
    BY <1>1, <1>7, <2>1, <2>2 DEF Owned, objects
  <2> QED
    BY <1>7, <2>3, ChainStays
<1>8. ASSUME NEW b \in Blocks, FreeData(b), UNCHANGED objects PROVE StoreInv'
  <2>1. b \in DOMAIN data /\ cc_free(b) /\ DOMAIN data' = DOMAIN data \ {b}
    BY <1>8 DEF FreeData
  <2>2. b \in Allocated
    BY <1>1, <2>1 DEF Owned
  <2>3. /\ Allocated' = Allocated \ {b} /\ maker' = [c \in Allocated' |-> allocator']
        /\ ~misfreed'
    BY <1>1, <2>1, <2>2, FreeIs
  <2>4. Owned'
    BY <1>1, <1>8, <2>1, <2>3 DEF Owned, objects
  <2> QED
    BY <1>8, <2>4, ChainStays
<1>9. ASSUME NEW length \in 0 .. MaxLength, OtherWrites(length), UNCHANGED objects PROVE StoreInv'
  BY <1>2, <1>9 DEF OtherWrites, memory
<1>10. CASE gc_init /\ UNCHANGED files
  <2>1. DOMAIN link = {} /\ DOMAIN link' = {} /\ gc' = "live" /\ head' = Null /\ allocated' = 0
        /\ UNCHANGED <<memory, strayed, data>>
    BY <1>10 DEF gc_init, StoreInv, files
  <2>2. Owned'
    BY <1>1, <2>1 DEF memory, Owned, Allocated
  <2> QED
    BY <2>1, <2>2, EmptyChain
<1>11. CASE gc_deinit /\ UNCHANGED files
  <2>1. CASE DeinitBegin
    <3>1. PICK q : Linked(q)
      BY DEF StoreInv
    <3>2. gc' = "deleting" /\ First' = First /\ UNCHANGED <<link, strayed, memory, data>>
      BY <1>11, <2>1 DEF DeinitBegin, First, files
    <3>3. Owned'
      BY <1>1, <3>2 DEF memory, Owned, Allocated
    <3>4. Linked(q)'
      BY <3>1, <3>2 DEF Linked
    <3> QED
      BY <3>2, <3>3, <3>4 DEF StoreInv
  <2>2. CASE DeinitNext
    BY <1>11, <2>2, DeinitInv
  <2>3. CASE DeinitEnd
    <3>1. /\ gc' = "live" /\ head' = Null /\ allocated' = 0 /\ First = Null
          /\ UNCHANGED <<link, strayed, memory, data>>
      BY <1>11, <2>3 DEF DeinitEnd, First, files
    <3>2. PICK q : Linked(q)
      BY DEF StoreInv
    <3>3. /\ q \in Seq(Blocks) /\ Len(q) \in Nat /\ {q[i] : i \in 1 .. Len(q)} = DOMAIN link
          /\ First = IF Len(q) = 0 THEN Null ELSE q[1]
      BY <3>2 DEF Linked
    <3>4. 1 .. Len(q) = {}
      BY <3>1, <3>3
    <3>5. {q[i] : i \in 1 .. Len(q)} = {}
      BY <3>4
    <3>6. DOMAIN link' = {}
      BY <3>1, <3>3, <3>5
    <3>7. Owned'
      BY <1>1, <3>1 DEF memory, Owned, Allocated
    <3> QED
      BY <3>1, <3>6, <3>7, EmptyChain
  <2> QED
    BY <1>11, <2>1, <2>2, <2>3 DEF gc_deinit
<1>12. ASSUME NEW b \in Blocks, gc_new(b), UNCHANGED files PROVE StoreInv'
  BY <1>12, NewInv
<1>13. ASSUME NEW a \in Allocators, cc_set_allocator(a), UNCHANGED <<files, objects>> PROVE StoreInv'
  <2>1. Allocated = {} /\ allocator' = a /\ UNCHANGED <<maker, misfreed, strayed, link, data>>
    BY <1>13 DEF cc_set_allocator, files, objects
  <2>2. Allocated' = Allocated
    BY <2>1 DEF Allocated
  <2>3. maker' = [c \in Allocated' |-> allocator']
    BY <1>1, <2>1, <2>2 DEF Owned
  <2>4. Owned'
    BY <1>1, <2>1, <2>2, <2>3 DEF Owned
  <2> QED
    BY <1>13, <2>4, ChainStays
<1>14. CASE UseFiles
  <2>1. CASE ReadFails /\ UNCHANGED objects
    BY <1>2, <2>1 DEF ReadFails, cc_alloc_fails, Ends, files
  <2> QED
    BY <1>5, <1>6, <1>7, <1>8, <1>9, <1>14, <2>1 DEF UseFiles
<1>15. CASE UseObjects
  <2>1. CASE gc_new_fails /\ UNCHANGED files
    BY <1>2, <2>1 DEF gc_new_fails, cc_alloc_fails, Ends, files
  <2> QED
    BY <1>10, <1>11, <1>12, <1>15, <2>1 DEF UseObjects
<1>16. CASE UseMemory
  BY <1>13, <1>16 DEF UseMemory
<1> QED
  BY <1>3, <1>4, <1>14, <1>15, <1>16 DEF Next

\* Every block that cc_alloc (memory.c) gave out belongs to the chain of gc_new (value.c) or
\* to what ccfs_path_read (filesystem.c) returned, and goes back once, through the loop of gc_deinit too.
THEOREM BlocksHaveOwners == Spec => []BlocksOwned
<1>1. Init => StoreInv
  <2> SUFFICES ASSUME Init PROVE StoreInv
    OBVIOUS
  <2>1. Allocated = {} /\ maker = [b \in {} |-> Null] /\ ~misfreed /\ ~strayed
        /\ DOMAIN link = {} /\ DOMAIN data = {} /\ First = Null /\ allocated = 0
    BY DEF Init, MemoryInit, FileInit, ObjectInit, Allocated, First
  <2>2. Owned
    BY <2>1 DEF Owned
  <2> DEFINE q == <<>>
  <2>3. q \in Seq(Blocks) /\ Len(q) = 0 /\ 1 .. Len(q) = {} /\ {q[i] : i \in 1 .. Len(q)} = {}
    OBVIOUS
  <2> HIDE DEF q
  <2>4. Linked(q)
    BY <2>1, <2>3 DEF Linked
  <2> QED
    BY <2>1, <2>2, <2>3, <2>4 DEF StoreInv
<1>2. StoreInv => BlocksOwned
  <2> SUFFICES ASSUME StoreInv PROVE BlocksOwned
    OBVIOUS
  <2>1. PICK q : Linked(q) /\ (gc # "deleting" => allocated = Len(q))
    BY DEF StoreInv
  <2>2. Chain(First) = q
    BY <2>1, ChainIs
  <2>3. IsInjective(q)
    BY <2>1 DEF Linked, IsInjective
  <2>4. InChain = DOMAIN link
    BY InChainIs
  <2> QED
    BY <2>1, <2>2, <2>3, <2>4 DEF StoreInv, Owned, BlocksOwned
<1> QED
  BY <1>1, <1>2, StoreStep, PTL DEF Spec

-----------------------------------------------------------------------------
(* The paths that are joined and trimmed.                                    *)

HIDE BlocksAre

\* A set of numbers that has one has a least one.
LEMMA LeastExists ==
  ASSUME NEW S \in SUBSET Nat, S # {}
  PROVE  \E x \in S : \A y \in S : x <= y
<1>1. \E x \in S : \A y \in S : ~(<<y, x>> \in OpToRel(<, Nat))
  BY NatLessThanWellFounded, WFMin, Zenon
<1>2. PICK x \in S : \A y \in S : ~(<<y, x>> \in OpToRel(<, Nat))
  BY <1>1, Zenon
<1>3. \A y \in S : ~(y < x)
  BY <1>2, Zenon DEF OpToRel
<1> QED
  BY <1>3

\* What Max gives of some of the first k numbers.
LEMMA MaxIs ==
  ASSUME NEW k \in Nat, NEW s \in SUBSET (1 .. k), s # {}
  PROVE  Max(s) \in s /\ \A y \in s : y <= Max(s)
<1> DEFINE above == {n \in Nat : \A y \in s : y <= n}
<1>1. \A y \in s : y \in 1 .. k
  OBVIOUS
<1>2. k \in above
  BY <1>1
<1>3. PICK n \in Nat : (\A y \in s : y <= n) /\ \A i \in Nat : (\A y \in s : y <= i) => n <= i
  <2>1. above \in SUBSET Nat /\ above # {}
    BY <1>2
  <2>2. PICK n \in above : \A i \in above : n <= i
    <3> HIDE DEF above
    <3> QED
      BY <2>1, LeastExists
  <2> QED
    BY <2>2, Zenon
<1> HIDE DEF above
<1>4. n \in s
  <2> SUFFICES ASSUME n \notin s PROVE FALSE
    OBVIOUS
  <2>1. \A y \in s : y <= n /\ y # n
    BY <1>3
  <2>2. n # 0
    <3>1. PICK y \in s : TRUE
      OBVIOUS
    <3>2. y \in 1 .. k /\ y <= n
      BY <1>1, <1>3
    <3> QED
      BY <3>2
  <2>3. n - 1 \in Nat /\ ~(n <= n - 1) /\ \A y \in s : y <= n - 1
    BY <1>1, <2>1, <2>2
  <2> QED
    BY <1>3, <2>3, Zenon
<1>5. \A x \in s : (\A y \in s : x >= y) => x = n
  BY <1>1, <1>3, <1>4
<1>6. \A y \in s : n >= y /\ y <= n
  BY <1>1, <1>3
<1>7. Max(s) = n
  BY <1>4, <1>5, <1>6, Zenon DEF Max
<1> QED
  BY <1>4, <1>6, <1>7

-----------------------------------------------------------------------------
(* Folds.                                                                    *)

\* What a fold from the left computes on the way, for the sets of places 1 .. k: the
\* value for a set comes from the one without its greatest place.
Folds(f, g, base, k) ==
  \A s \in SUBSET (1 .. k) : f[s] = IF s = {} THEN base ELSE g[Max(s)][f[s \ {Max(s)}]]

\* There is such a function, whatever is folded over any number of places.
LEMMA FoldExists ==
  ASSUME NEW A, NEW base \in A, NEW k \in Nat, NEW g \in [1 .. k -> [A -> A]]
  PROVE  \E f \in [SUBSET (1 .. k) -> A] : Folds(f, g, base, k)
<1> DEFINE P(j) == j <= k => \E f \in [SUBSET (1 .. j) -> A] : Folds(f, g, base, j)
           S == {j \in Nat : P(j)}
<1>1. P(0)
  <2> DEFINE f == [s \in SUBSET (1 .. 0) |-> base]
  <2>1. \A s \in SUBSET (1 .. 0) : s = {}
    OBVIOUS
  <2>2. f \in [SUBSET (1 .. 0) -> A] /\ \A s \in SUBSET (1 .. 0) : f[s] = base
    BY Zenon
  <2> HIDE DEF f
  <2>3. Folds(f, g, base, 0)
    BY <2>1, <2>2, Zenon DEF Folds
  <2> QED
    BY <2>2, <2>3
<1>2. ASSUME NEW j \in Nat, P(j) PROVE P(j + 1)
  <2> SUFFICES ASSUME j + 1 <= k
               PROVE  \E f \in [SUBSET (1 .. j + 1) -> A] : Folds(f, g, base, j + 1)
    OBVIOUS
  <2>1. j \in Nat /\ j <= k /\ j + 1 \in 1 .. k
    OBVIOUS
  <2>2. PICK f \in [SUBSET (1 .. j) -> A] : Folds(f, g, base, j)
    BY <1>2, <2>1
  <2> DEFINE h == [s \in SUBSET (1 .. j + 1) |->
                     IF j + 1 \in s THEN g[j + 1][f[s \ {j + 1}]] ELSE f[s]]
  <2>3. \A s \in SUBSET (1 .. j + 1) : s \ {j + 1} \in SUBSET (1 .. j)
    BY <2>1
  <2>4. \A s \in SUBSET (1 .. j) : s \in SUBSET (1 .. j + 1) /\ j + 1 \notin s
    BY <2>1
  <2>5. h \in [SUBSET (1 .. j + 1) -> A]
    <3>1. ASSUME NEW s \in SUBSET (1 .. j + 1) PROVE h[s] \in A
      <4>1. CASE j + 1 \in s
        BY <2>1, <2>3, <4>1
      <4>2. CASE j + 1 \notin s
        <5>1. s \in SUBSET (1 .. j)
          BY <2>3, <4>2
        <5> QED
          BY <4>2, <5>1
      <4> QED
        BY <4>1, <4>2
    <3> QED
      BY <3>1
  <2>6. ASSUME NEW s \in SUBSET (1 .. j + 1)
        PROVE  h[s] = IF s = {} THEN base ELSE g[Max(s)][h[s \ {Max(s)}]]
    <3>1. CASE j + 1 \in s
      <4>1. Max(s) = j + 1
        <5>1. \A x \in s : x \in Nat /\ x <= j + 1
          <6> SUFFICES ASSUME NEW x \in s PROVE x \in Nat /\ x <= j + 1
            OBVIOUS
          <6>1. x \in 1 .. j + 1
            BY <2>6, Zenon
          <6> QED
            BY <2>1, <6>1
        <5>2. \A x \in s : x >= j + 1 => x = j + 1
          BY <2>1, <5>1
        <5>3. \A x \in s : j + 1 >= x
          BY <2>1, <5>1
        <5> QED
          BY <3>1, <5>2, <5>3, Zenon DEF Max
      <4>2. h[s \ {j + 1}] = f[s \ {j + 1}]
        BY <2>3, <2>4
      <4> QED
        BY <3>1, <4>1, <4>2
    <3>2. CASE j + 1 \notin s
      <4>1. s \in SUBSET (1 .. j) /\ s \ {Max(s)} \in SUBSET (1 .. j)
        BY <2>3, <3>2
      <4>2. h[s] = f[s] /\ h[s \ {Max(s)}] = f[s \ {Max(s)}]
        BY <2>4, <3>2, <4>1
      <4> QED
        BY <2>2, <4>1, <4>2 DEF Folds
    <3> QED
      BY <3>1, <3>2
  <2> HIDE DEF h
  <2> QED
    BY <2>5, <2>6 DEF Folds
<1> HIDE DEF P
<1>3. S = Nat
  <2>1. 0 \in S /\ \A j \in S : j + 1 \in S
    BY <1>1, <1>2
  <2> HIDE DEF S
  <2>2. S \in SUBSET Nat
    BY DEF S
  <2> QED
    BY <2>1, <2>2, SetInduction
<1>4. P(k) /\ k <= k
  BY <1>3
<1> QED
  BY <1>4, Zenon DEF P

\* The first places, in their order.
LEMMA FirstPlaces ==
  ASSUME NEW k \in Nat, NEW i \in 1 .. k
  PROVE  /\ 1 .. i \in SUBSET (1 .. k) /\ 1 .. i # {}
         /\ Max(1 .. i) = i /\ (1 .. i) \ {i} = 1 .. i - 1
<1>1. i \in 1 .. i /\ 1 .. i \in SUBSET (1 .. k)
  OBVIOUS
<1>2. 1 .. i # {}
  BY <1>1, Zenon
<1>3. Max(1 .. i) = i
  <2>1. \A x \in 1 .. i : i >= x /\ (x >= i => x = i)
    OBVIOUS
  <2> QED
    BY <1>1, <2>1, Zenon DEF Max
<1>4. (1 .. i) \ {i} = 1 .. i - 1
  <2>1. \A x : x \in (1 .. i) \ {i} <=> x \in 1 .. i - 1
    OBVIOUS
  <2> QED
    BY <2>1, Zenon
<1> QED
  BY <1>1, <1>2, <1>3, <1>4

-----------------------------------------------------------------------------
(* Paths.                                                                    *)

\* What a component that is not the first one has in front.
Added(ps, i) == IF i = 1 THEN ps[i] ELSE <<"/">> \o ps[i]

\* The paths that the first components are joined to, by how many they are.
Joins(J, ps, C) ==
  /\ "/" \in C /\ ps \in Seq(Seq(C))
  /\ J \in [0 .. Len(ps) -> Seq(C)]
  /\ J[0] = <<>>
  /\ \A i \in 1 .. Len(ps) : J[i] = J[i - 1] \o Added(ps, i)

\* They are the paths that the fold of Joined goes through.
LEMMA JoinedIs ==
  ASSUME NEW C, "/" \in C, NEW ps \in Seq(Seq(C))
  PROVE  \E J : Joins(J, ps, C) /\ Joined(ps) = J[Len(ps)]
<1> DEFINE k == Len(ps)
           A == Seq(C)
           m == [i \in DOMAIN ps |-> IF i = 1 THEN ps[i] ELSE <<"/">> \o ps[i]]
           g == [i \in 1 .. k |-> [a \in A |-> a \o m[i]]]
           Is(f) == f = [s \in SUBSET DOMAIN m |-> IF s = {} THEN <<>>
                                                   ELSE f[s \ {Max(s)}] \o m[Max(s)]]
           iter == CHOOSE f : Is(f)
           J == [i \in 0 .. k |-> iter[1 .. i]]
<1>1. k \in Nat /\ DOMAIN ps = 1 .. k /\ DOMAIN m = 1 .. k /\ <<>> \in A
  OBVIOUS
<1>2. \A i \in 1 .. k : m[i] = Added(ps, i) /\ m[i] \in A
  <2> TAKE i \in 1 .. k
  <2>1. ps[i] \in Seq(C) /\ <<"/">> \in Seq(C)
    BY <1>1
  <2> QED
    BY <1>1, <2>1 DEF Added
<1>3. Joined(ps) = iter[DOMAIN m]
  BY DEF Joined, FoldLeft, MapThenFoldSet
<1> HIDE DEF m, A
<1>4. g \in [1 .. k -> [A -> A]]
  <2>1. \A a, b \in A : a \o b \in A
    BY DEF A
  <2> QED
    BY <1>2, <2>1
<1>5. PICK f \in [SUBSET (1 .. k) -> A] : Folds(f, g, <<>>, k)
  <2> HIDE DEF g, k
  <2> QED
    BY <1>1, <1>4, FoldExists
<1>6. Is(f)
  <2>1. ASSUME NEW s \in SUBSET (1 .. k), s # {} PROVE f[s] = f[s \ {Max(s)}] \o m[Max(s)]
    <3>1. Max(s) \in 1 .. k /\ s \ {Max(s)} \in SUBSET (1 .. k)
      <4>1. Max(s) \in s
        BY <1>1, <2>1, MaxIs
      <4> QED
        BY <4>1
    <3>2. f[s \ {Max(s)}] \in A
      BY <3>1
    <3> QED
      BY <1>5, <2>1, <3>1, <3>2 DEF Folds
  <2>2. f[{}] = <<>>
    BY <1>5 DEF Folds
  <2> QED
    BY <1>1, <2>1, <2>2
<1> HIDE DEF Is
<1>7. Is(iter)
  BY <1>6
<1> HIDE DEF iter
<1>8. /\ J[0] = <<>>
      /\ \A i \in 1 .. k : J[i] = J[i - 1] \o m[i]
  <2>1. \A s \in SUBSET (1 .. k) : iter[s] = IF s = {} THEN <<>> ELSE iter[s \ {Max(s)}] \o m[Max(s)]
    BY <1>1, <1>7, Zenon DEF Is
  <2>2. J[0] = <<>>
    <3>1. 1 .. 0 = {} /\ 1 .. 0 \in SUBSET (1 .. k) /\ 0 \in 0 .. k
      BY <1>1
    <3> QED
      BY <2>1, <3>1, Zenon
  <2>3. ASSUME NEW i \in 1 .. k PROVE J[i] = J[i - 1] \o m[i]
    <3>1. i \in 0 .. k /\ i - 1 \in 0 .. k
      BY <1>1
    <3>2. /\ 1 .. i \in SUBSET (1 .. k) /\ 1 .. i # {}
          /\ Max(1 .. i) = i /\ (1 .. i) \ {i} = 1 .. i - 1
      BY <1>1, FirstPlaces
    <3> QED
      BY <2>1, <3>1, <3>2, Zenon
  <2> QED
    BY <2>2, <2>3
<1>12. J = [i \in 0 .. k |-> J[i]]
  OBVIOUS
<1> HIDE DEF J
<1>9. \A i \in 0 .. k : J[i] \in A
  <2> DEFINE S == {i \in Nat : i <= k => J[i] \in A}
  <2>1. 0 \in S
    BY <1>1, <1>8
  <2>2. ASSUME NEW i \in S PROVE i + 1 \in S
    <3> SUFFICES ASSUME i + 1 <= k PROVE J[i + 1] \in A
      OBVIOUS
    <3>1. PICK h \in 1 .. k : h = i + 1 /\ h - 1 = i /\ J[i] \in A
      BY <1>1
    <3>2. m[h] \in A
      BY <1>2, Zenon
    <3>3. J[h] = J[h - 1] \o m[h]
      BY <1>8, Zenon
    <3>4. J[h] = J[i] \o m[h]
      BY <3>1, <3>3, Zenon
    <3>5. J[h] \in A
      BY <3>1, <3>2, <3>4 DEF A
    <3> QED
      BY <3>1, <3>5, Zenon
  <2>3. S = Nat
    <3> HIDE DEF S
    <3>1. S \in SUBSET Nat
      BY DEF S
    <3> QED
      BY <2>1, <2>2, <3>1, SetInduction
  <2> QED
    BY <1>1, <2>3
<1>10. Joins(J, ps, C)
  <2>1. J \in [0 .. k -> A]
    BY <1>9, <1>12
  <2> QED
    BY <1>2, <1>8, <2>1 DEF Joins, A
<1>11. Joined(ps) = J[Len(ps)]
  <2>1. k \in 0 .. k
    BY <1>1
  <2> QED
    BY <1>1, <1>3, <2>1 DEF J
<1> QED
  BY <1>10, <1>11

\* The first n components are the same.
Agree(ps, qs, n) == n <= Len(ps) /\ n <= Len(qs) /\ \A i \in 1 .. n : ps[i] = qs[i]

\* Paths of the same first components are the same so far.
LEMMA JoinsAgree ==
  ASSUME NEW C, NEW ps, NEW qs, NEW J, NEW L, Joins(J, ps, C), Joins(L, qs, C),
         NEW n \in Nat, Agree(ps, qs, n)
  PROVE  \A i \in 0 .. n : J[i] = L[i]
<1> ps \in Seq(Seq(C)) /\ qs \in Seq(Seq(C))
  BY Zenon DEF Joins
<1> DEFINE S == {i \in Nat : i <= n => J[i] = L[i]}
<1>1. /\ Len(ps) \in Nat /\ Len(qs) \in Nat
      /\ n <= Len(ps) /\ n <= Len(qs) /\ \A i \in 1 .. n : ps[i] = qs[i]
  BY LenProperties DEF Agree
<1>2. 0 \in S
  BY DEF Joins
<1>3. ASSUME NEW i \in S PROVE i + 1 \in S
  <2> SUFFICES ASSUME i + 1 <= n PROVE J[i + 1] = L[i + 1]
    OBVIOUS
  <2>1. PICK h \in 1 .. n : h = i + 1 /\ h - 1 = i
    OBVIOUS
  <2>2. h \in 1 .. Len(ps) /\ h \in 1 .. Len(qs) /\ J[i] = L[i]
    BY <1>1, <2>1
  <2>3. J[h] = J[h - 1] \o Added(ps, h) /\ L[h] = L[h - 1] \o Added(qs, h)
    BY <2>2, Zenon DEF Joins
  <2>4. Added(ps, h) = Added(qs, h)
    BY <1>1, Zenon DEF Added
  <2> QED
    BY <2>1, <2>2, <2>3, <2>4, Zenon
<1>4. S = Nat
  <2>1. S \in SUBSET Nat
    OBVIOUS
  <2> HIDE DEF S
  <2> QED
    BY <1>2, <1>3, <2>1, SetInduction, Zenon
<1> QED
  BY <1>4

\* The first of some components are joined to these paths.
Firsts(J, ps) == \A n \in 0 .. Len(ps) : Joined(SubSeq(ps, 1, n)) = J[n]

\* So they are: a path of other components agrees as long as the components do.
LEMMA JoinedFirst ==
  ASSUME NEW C, NEW ps, NEW J, Joins(J, ps, C)
  PROVE  Firsts(J, ps)
<1> "/" \in C /\ ps \in Seq(Seq(C))
  BY Zenon DEF Joins
<1> SUFFICES ASSUME NEW n \in 0 .. Len(ps) PROVE Joined(SubSeq(ps, 1, n)) = J[n]
  BY Zenon DEF Firsts
<1> DEFINE qs == SubSeq(ps, 1, n)
<1>1. /\ Len(ps) \in Nat /\ n \in Nat /\ n <= Len(ps)
      /\ qs \in Seq(Seq(C)) /\ Len(qs) = n /\ n <= Len(qs) /\ \A i \in 1 .. n : ps[i] = qs[i]
  BY SubSeqProperties
<1> HIDE DEF qs
<1>2. PICK L : Joins(L, qs, C) /\ Joined(qs) = L[Len(qs)]
  BY <1>1, JoinedIs
<1>3. \A i \in 0 .. n : J[i] = L[i]
  <2>1. Agree(ps, qs, n)
    BY <1>1, Zenon DEF Agree
  <2> QED
    BY <1>1, <1>2, <2>1, JoinsAgree
<1> QED
  BY <1>1, <1>2, <1>3 DEF qs

\* A component that is empty adds a separator.
LEMMA JoinedOpen ==
  ASSUME NEW C, NEW ps, NEW J, Joins(J, ps, C),
         NEW n \in 1 .. Len(ps)
  PROVE  Joined(SubSeq(ps, 1, n) \o <<<<>>>>) = J[n] \o <<"/">>
<1> "/" \in C /\ ps \in Seq(Seq(C))
  BY Zenon DEF Joins
<1> DEFINE qs == SubSeq(ps, 1, n) \o <<<<>>>>
<1>1. /\ Len(ps) \in Nat /\ n \in Nat /\ n <= Len(ps) /\ n # 0
      /\ qs \in Seq(Seq(C)) /\ Len(qs) = n + 1 /\ n <= Len(qs) /\ \A i \in 1 .. n : ps[i] = qs[i]
      /\ qs[n + 1] = <<>>
  <2> DEFINE rs == SubSeq(ps, 1, n)
  <2>1. rs \in Seq(Seq(C)) /\ Len(rs) = n /\ \A i \in 1 .. n : ps[i] = rs[i]
    BY SubSeqProperties
  <2> HIDE DEF rs
  <2>2. <<<<>>>> \in Seq(Seq(C)) /\ Len(<<<<>>>>) = 1
    OBVIOUS
  <2>3. rs \o <<<<>>>> \in Seq(Seq(C)) /\ Len(rs \o <<<<>>>>) = n + 1
    BY <2>1, <2>2
  <2>4. \A i \in 1 .. n + 1 : (rs \o <<<<>>>>)[i] = IF i <= n THEN rs[i] ELSE <<>>
    BY <2>1, <2>2
  <2>5. n + 1 \in 1 .. n + 1 /\ ~(n + 1 <= n) /\ \A i \in 1 .. n : i \in 1 .. n + 1 /\ i <= n
    OBVIOUS
  <2> QED
    BY <2>1, <2>3, <2>4, <2>5 DEF rs
<1> HIDE DEF qs
<1>2. PICK L : Joins(L, qs, C) /\ Joined(qs) = L[Len(qs)]
  BY <1>1, JoinedIs
<1>3. \A i \in 0 .. n : J[i] = L[i]
  <2>1. Agree(ps, qs, n)
    BY <1>1, Zenon DEF Agree
  <2>2. qs \in Seq(Seq(C)) /\ n \in Nat
    BY <1>1
  <2> QED
    BY <1>2, <2>1, <2>2, JoinsAgree
<1>4. PICK h \in 1 .. Len(qs) : h = n + 1 /\ h - 1 = n /\ h # 1
  BY <1>1
<1>5. L[h] = L[h - 1] \o Added(qs, h)
  BY <1>2, Zenon DEF Joins
<1>6. Added(qs, h) = <<"/">>
  <2>1. <<"/">> \o <<>> = <<"/">>
    OBVIOUS
  <2> QED
    BY <1>1, <1>4, <2>1, Zenon DEF Added
<1>7. L[n] = J[n]
  <2>1. n \in 0 .. n
    BY <1>1
  <2> QED
    BY <1>3, <2>1, Zenon
<1> QED
  BY <1>1, <1>2, <1>4, <1>5, <1>6, <1>7, Zenon DEF qs

\* Each component makes the path longer, by a separator at least after the first.
Grows(J, ps, C) ==
  /\ \A i \in 0 .. Len(ps) : J[i] \in Seq(C) /\ Len(J[i]) \in Nat
  /\ \A i \in 1 .. Len(ps) :
       Len(ps[i]) \in Nat /\ Len(J[i]) = Len(J[i - 1]) + Len(ps[i]) + IF i = 1 THEN 0 ELSE 1
  /\ \A i, j \in 0 .. Len(ps) : i < j => Len(J[i]) + (IF i = 0 THEN 0 ELSE 1) <= Len(J[j])

\* So they do.
LEMMA JoinsGrow ==
  ASSUME NEW C, NEW ps, NEW J, Joins(J, ps, C)
  PROVE  Grows(J, ps, C)
<1> "/" \in C /\ ps \in Seq(Seq(C))
  BY Zenon DEF Joins
<1>1. Len(ps) \in Nat
  OBVIOUS
<1>2. \A i \in 0 .. Len(ps) : J[i] \in Seq(C) /\ Len(J[i]) \in Nat
  <2>1. \A i \in 0 .. Len(ps) : J[i] \in Seq(C)
    BY Zenon DEF Joins
  <2> QED
    BY <2>1, LenProperties, Zenon
<1>3. ASSUME NEW i \in 1 .. Len(ps)
      PROVE  /\ Len(ps[i]) \in Nat
             /\ Len(J[i]) = Len(J[i - 1]) + Len(ps[i]) + IF i = 1 THEN 0 ELSE 1
  <2>1. ps[i] \in Seq(C) /\ i - 1 \in 0 .. Len(ps)
    BY <1>1
  <2>2. J[i] = J[i - 1] \o Added(ps, i) /\ J[i - 1] \in Seq(C)
    BY <1>2, <2>1, Zenon DEF Joins
  <2>3. Added(ps, i) \in Seq(C) /\ Len(Added(ps, i)) = Len(ps[i]) + IF i = 1 THEN 0 ELSE 1
    <3> DEFINE p == ps[i]
    <3>1. p \in Seq(C) /\ Len(p) \in Nat
      BY <2>1
    <3> HIDE DEF p
    <3>2. <<"/">> \o p \in Seq(C) /\ Len(<<"/">> \o p) = Len(p) + 1
      BY <3>1
    <3>3. Added(ps, i) = IF i = 1 THEN p ELSE <<"/">> \o p
      BY DEF Added, p
    <3>4. CASE i = 1
      <4>1. Added(ps, i) = p
        BY <3>3, <3>4
      <4> QED
        BY <3>1, <3>4, <4>1 DEF p
    <3>5. CASE i # 1
      <4>1. Added(ps, i) = <<"/">> \o p
        BY <3>3, <3>5
      <4>2. Len(Added(ps, i)) = Len(p) + 1 /\ Added(ps, i) \in Seq(C)
        BY <3>2, <4>1, Zenon
      <4> QED
        BY <3>5, <4>2, Zenon DEF p
    <3> QED
      BY <3>4, <3>5
  <2> DEFINE a == J[i - 1]
             b == Added(ps, i)
  <2> HIDE DEF a, b
  <2>4. Len(a \o b) = Len(a) + Len(b) /\ Len(a) \in Nat
    BY <2>2, <2>3, ConcatProperties, LenProperties DEF a, b
  <2>5. Len(ps[i]) \in Nat
    BY <2>1, LenProperties, Zenon
  <2>6. Len(J[i]) = Len(a) + Len(b) /\ Len(b) = Len(ps[i]) + IF i = 1 THEN 0 ELSE 1
    BY <2>2, <2>3, <2>4, Zenon DEF a, b
  <2>7. Len(J[i - 1]) = Len(a)
    BY DEF a
  <2> DEFINE x == Len(J[i])
             y == Len(a)
             z == Len(ps[i])
             u == Len(b)
  <2>8. x = y + u /\ u = z + (IF i = 1 THEN 0 ELSE 1) /\ y \in Nat /\ z \in Nat
    BY <2>4, <2>5, <2>6, Zenon
  <2> HIDE DEF x, y, z, u
  <2>9. x = y + z + IF i = 1 THEN 0 ELSE 1
    BY <2>8
  <2> QED
    BY <2>5, <2>7, <2>9, Zenon DEF x, y, z
<1> DEFINE l == [i \in 0 .. Len(ps) |-> Len(J[i])]
<1>4. /\ \A i \in 0 .. Len(ps) : l[i] = Len(J[i]) /\ l[i] \in Nat
      /\ \A i \in 1 .. Len(ps) : l[i] >= l[i - 1] + IF i = 1 THEN 0 ELSE 1
  <2>1. \A i \in 0 .. Len(ps) : l[i] = Len(J[i]) /\ l[i] \in Nat
    BY <1>2, Zenon
  <2> HIDE DEF l
  <2>2. ASSUME NEW i \in 1 .. Len(ps) PROVE l[i] >= l[i - 1] + IF i = 1 THEN 0 ELSE 1
    <3>1. i \in 0 .. Len(ps) /\ i - 1 \in 0 .. Len(ps)
      BY <1>1
    <3>2. l[i] = Len(J[i]) /\ l[i - 1] = Len(J[i - 1]) /\ l[i] \in Nat /\ l[i - 1] \in Nat
      BY <2>1, <3>1, Zenon
    <3> DEFINE x == l[i]
               y == l[i - 1]
               z == Len(ps[i])
    <3>3. x = y + z + (IF i = 1 THEN 0 ELSE 1) /\ z \in Nat /\ x \in Nat /\ y \in Nat
      BY <1>3, <3>2, Zenon
    <3> HIDE DEF x, y, z
    <3>4. x >= y + IF i = 1 THEN 0 ELSE 1
      BY <3>3
    <3> QED
      BY <3>4 DEF x, y
  <2> QED
    BY <2>1, <2>2
<1> HIDE DEF l
<1>5. ASSUME NEW i \in 0 .. Len(ps), NEW j \in 0 .. Len(ps), i < j
      PROVE  l[i] + (IF i = 0 THEN 0 ELSE 1) <= l[j]
  <2> DEFINE P(n) == i < n /\ n <= Len(ps) => l[i] + (IF i = 0 THEN 0 ELSE 1) <= l[n]
             S == {n \in Nat : P(n)}
  <2>1. P(0)
    BY <1>1
  <2>2. ASSUME NEW n \in Nat, P(n) PROVE P(n + 1)
    <3> SUFFICES ASSUME i < n + 1, n + 1 <= Len(ps) PROVE P(n + 1)
      OBVIOUS
    <3>1. n + 1 \in 1 .. Len(ps) /\ n + 1 - 1 = n /\ n \in 0 .. Len(ps) /\ n + 1 \in 0 .. Len(ps)
      BY <1>1
    <3>2. l[n + 1] >= l[n + 1 - 1] + IF n + 1 = 1 THEN 0 ELSE 1
      BY <1>4, <3>1
    <3>3. l[n] \in Nat /\ l[n + 1] \in Nat /\ l[i] \in Nat
      BY <1>4, <3>1, Zenon
    <3>4. l[n + 1] >= l[n] + IF n + 1 = 1 THEN 0 ELSE 1
      BY <3>1, <3>2, Zenon
    <3> DEFINE x == l[i]
               y == l[n]
               z == l[n + 1]
    <3>5. i < n => x + (IF i = 0 THEN 0 ELSE 1) <= y
      BY <1>1, <2>2
    <3>6. i = n => x = y
      OBVIOUS
    <3>7. x \in Nat /\ y \in Nat /\ z \in Nat /\ z >= y + IF n + 1 = 1 THEN 0 ELSE 1
      BY <3>3, <3>4, Zenon
    <3>8. i \in Nat /\ i <= n
      BY <1>1
    <3> HIDE DEF x, y, z
    <3>9. x + (IF i = 0 THEN 0 ELSE 1) <= z
      BY <3>5, <3>6, <3>7, <3>8
    <3> QED
      BY <3>9 DEF x, z
  <2> HIDE DEF P
  <2>3. S = Nat
    <3>1. S \in SUBSET Nat /\ 0 \in S /\ \A n \in S : n + 1 \in S
      BY <2>1, <2>2
    <3> HIDE DEF S
    <3> QED
      BY <3>1, SetInduction, Zenon
  <2>4. P(j) /\ j <= Len(ps)
    BY <1>1, <2>3
  <2> QED
    BY <1>5, <2>4, Zenon DEF P
<1>6. \A i, j \in 0 .. Len(ps) : i < j => Len(J[i]) + (IF i = 0 THEN 0 ELSE 1) <= Len(J[j])
  <2> SUFFICES ASSUME NEW i \in 0 .. Len(ps), NEW j \in 0 .. Len(ps), i < j
               PROVE  Len(J[i]) + (IF i = 0 THEN 0 ELSE 1) <= Len(J[j])
    BY Zenon
  <2>1. l[i] + (IF i = 0 THEN 0 ELSE 1) <= l[j] /\ l[i] = Len(J[i]) /\ l[j] = Len(J[j])
    BY <1>4, <1>5, Zenon
  <2> QED
    BY <2>1, Zenon
<1> QED
  BY <1>2, <1>3, <1>6, Zenon DEF Grows

\* A component without its last separators, and with one kind of them, is a name.
LEMMA NameIs ==
  ASSUME NEW C, "/" \in C, NEW c \in Seq(C)
  PROVE  /\ Stripped(c) \in Seq(C) /\ Len(Stripped(c)) \in Nat
         /\ Copied(Stripped(c)) \in Seq(C) /\ Len(Copied(Stripped(c))) = Len(Stripped(c))
<1> DEFINE ends == {i \in DOMAIN c : c[i] \notin Separators}
           t == Stripped(c)
<1>1. Len(c) \in Nat /\ DOMAIN c = 1 .. Len(c)
  BY LenProperties
<1>2. t \in Seq(C)
  <2>1. CASE ends = {}
    BY <2>1 DEF Stripped
  <2>2. CASE ends # {}
    <3>1. ends \in SUBSET (1 .. Len(c))
      BY <1>1
    <3>2. Max(ends) \in ends
      BY <1>1, <2>2, <3>1, MaxIs
    <3>3. Max(ends) \in 1 .. Len(c)
      BY <3>1, <3>2
    <3>4. t = SubSeq(c, 1, Max(ends))
      BY <2>2 DEF Stripped
    <3> HIDE DEF ends, t
    <3> QED
      BY <1>1, <3>3, <3>4, SubSeqProperties
  <2> QED
    BY <2>1, <2>2
<1> HIDE DEF t
<1>3. Len(t) \in Nat /\ DOMAIN t = 1 .. Len(t) /\ \A i \in 1 .. Len(t) : t[i] \in C
  BY <1>2, LenProperties, ElementOfSeq
<1>4. Copied(t) \in Seq(C) /\ Len(Copied(t)) = Len(t)
  BY <1>3 DEF Copied
<1> QED
  BY <1>2, <1>3, <1>4 DEF t

\* What the loop of ccfs_path_concat does with one component.
Add(sofar, c, room) ==
  IF sofar.full \/ NoRoom(Len(sofar.out), Len(Stripped(c)), room)
  THEN [sofar EXCEPT !.full = TRUE]
  ELSE [sofar EXCEPT !.out = @ \o (IF sofar.count = 0 THEN <<>> ELSE <<"/">>) \o Copied(Stripped(c)),
                     !.count = @ + 1]

\* What it starts with.
Start == [out |-> <<>>, count |-> 0, full |-> FALSE]

\* What it knows keeps its form.
LEMMA LoopTyped ==
  ASSUME NEW Q, NEW a \in [out : Q, count : Nat, full : BOOLEAN], NEW o \in Q
  PROVE  /\ [a EXCEPT !.full = TRUE] \in [out : Q, count : Nat, full : BOOLEAN]
         /\ [a EXCEPT !.out = o, !.count = a.count + 1] \in [out : Q, count : Nat, full : BOOLEAN]
<1>1. a.count + 1 \in Nat
  OBVIOUS
<1>2. PICK n \in Nat : n = a.count + 1
  BY <1>1
<1>3. [a EXCEPT !.out = o, !.count = n] \in [out : Q, count : Nat, full : BOOLEAN]
  OBVIOUS
<1> QED
  BY <1>2, <1>3

\* It goes over the components in their order.
LEMMA ConcatSteps ==
  ASSUME NEW C, "/" \in C, NEW cs \in Seq(Seq(C)), NEW room
  PROVE  \E R : /\ R[0] = Start
                /\ \A i \in 1 .. Len(cs) : R[i] = Add(R[i - 1], cs[i], room)
                /\ Concat(cs, room) = R[Len(cs)]
<1> DEFINE k == Len(cs)
           A == [out : Seq(C), count : Nat, full : BOOLEAN]
           g == [i \in 1 .. k |-> [a \in A |-> Add(a, cs[i], room)]]
           Is(f) == f = [s \in SUBSET DOMAIN cs |-> IF s = {} THEN Start
                                                    ELSE Add(f[s \ {Max(s)}], cs[Max(s)], room)]
           iter == CHOOSE f : Is(f)
           R == [i \in 0 .. k |-> iter[1 .. i]]
<1>1. k \in Nat /\ DOMAIN cs = 1 .. k /\ \A i \in 1 .. k : cs[i] \in Seq(C)
  BY LenProperties, ElementOfSeq
<1>2. Concat(cs, room) = iter[DOMAIN cs]
  BY DEF Concat, FoldLeft, MapThenFoldSet, Add, Start
<1>3. g \in [1 .. k -> [A -> A]]
  <2>1. ASSUME NEW i \in 1 .. k, NEW a \in A PROVE Add(a, cs[i], room) \in A
    <3> DEFINE n == Copied(Stripped(cs[i]))
               o == a.out \o (IF a.count = 0 THEN <<>> ELSE <<"/">>) \o n
    <3>1. n \in Seq(C)
      BY <1>1, NameIs
    <3> HIDE DEF n
    <3>2. o \in Seq(C)
      <4>1. <<"/">> \in Seq(C) /\ a.out \in Seq(C)
        OBVIOUS
      <4> QED
        BY <3>1, <4>1
    <3>3. Add(a, cs[i], room) = [a EXCEPT !.full = TRUE]
          \/ Add(a, cs[i], room) = [a EXCEPT !.out = o, !.count = a.count + 1]
      BY DEF Add, n
    <3> HIDE DEF o
    <3>4. [a EXCEPT !.full = TRUE] \in A /\ [a EXCEPT !.out = o, !.count = a.count + 1] \in A
      BY <3>2, LoopTyped, Zenon
    <3> QED
      BY <3>3, <3>4, Zenon
  <2> HIDE DEF A, k
  <2> QED
    BY <2>1
<1>4. Start \in A
  BY DEF Start
<1> HIDE DEF A
<1>5. PICK f \in [SUBSET (1 .. k) -> A] : Folds(f, g, Start, k)
  <2> HIDE DEF g, k
  <2> QED
    BY <1>1, <1>3, <1>4, FoldExists
<1>6. Is(f)
  <2>1. ASSUME NEW s \in SUBSET (1 .. k), s # {}
        PROVE  f[s] = Add(f[s \ {Max(s)}], cs[Max(s)], room)
    <3>1. Max(s) \in 1 .. k /\ s \ {Max(s)} \in SUBSET (1 .. k)
      <4>1. Max(s) \in s
        BY <1>1, <2>1, MaxIs
      <4> QED
        BY <4>1
    <3>2. f[s \ {Max(s)}] \in A
      BY <3>1
    <3> QED
      BY <1>5, <2>1, <3>1, <3>2 DEF Folds
  <2>2. f[{}] = Start
    BY <1>5 DEF Folds
  <2> QED
    BY <1>1, <2>1, <2>2
<1> HIDE DEF Is
<1>7. Is(iter)
  BY <1>6
<1> HIDE DEF iter
<1>8. \A s \in SUBSET (1 .. k) : iter[s] = IF s = {} THEN Start
                                           ELSE Add(iter[s \ {Max(s)}], cs[Max(s)], room)
  BY <1>1, <1>7, Zenon DEF Is
<1>9. R[0] = Start
  <2>1. 1 .. 0 = {} /\ 1 .. 0 \in SUBSET (1 .. k) /\ 0 \in 0 .. k
    BY <1>1
  <2> QED
    BY <1>8, <2>1, Zenon
<1>10. ASSUME NEW i \in 1 .. k PROVE R[i] = Add(R[i - 1], cs[i], room)
  <2>1. i \in 0 .. k /\ i - 1 \in 0 .. k
    BY <1>1
  <2>2. /\ 1 .. i \in SUBSET (1 .. k) /\ 1 .. i # {}
        /\ Max(1 .. i) = i /\ (1 .. i) \ {i} = 1 .. i - 1
    BY <1>1, FirstPlaces
  <2> QED
    BY <1>8, <2>1, <2>2, Zenon
<1>11. R[k] = Concat(cs, room)
  <2>1. k \in 0 .. k
    BY <1>1
  <2> QED
    BY <1>1, <1>2, <2>1, Zenon
<1> HIDE DEF R
<1> QED
  BY <1>9, <1>10, <1>11, Zenon

\* As many components are in the path as have room for them and a separator.
Filled(r, J, names, room) ==
  /\ r.count \in 0 .. Len(names)
  /\ r.out = J[r.count]
  /\ \A i \in 1 .. r.count : Len(J[i - 1]) + Len(names[i]) + 1 < room
  /\ r.full => /\ r.count < Len(names)
               /\ Len(J[r.count]) + Len(names[r.count + 1]) + 1 >= room

\* A separator goes with what stands on either side of it.
LEMMA Slashed ==
  ASSUME NEW C, "/" \in C, NEW s \in Seq(C), NEW n \in Seq(C)
  PROVE  (s \o <<"/">>) \o n = s \o (<<"/">> \o n)
<1>1. <<"/">> \in Seq(C)
  OBVIOUS
<1>2. \A z \in Seq(C) : (s \o z) \o n = s \o (z \o n)
  BY ConcatAssociative
<1> QED
  BY <1>1, <1>2, Zenon

\* The loop of ccfs_path_concat fills the buffer with one of these paths.
LEMMA ConcatFills ==
  ASSUME NEW C, "/" \in C, NEW cs \in Seq(Seq(C)), NEW room \in Nat,
         NEW names \in Seq(Seq(C)), Len(names) = Len(cs),
         \A i \in 1 .. Len(cs) : names[i] = Copied(Stripped(cs[i])),
         NEW J, Joins(J, names, C)
  PROVE  /\ Filled(Concat(cs, room), J, names, room)
         /\ ~Concat(cs, room).full => Concat(cs, room).count = Len(names)
<1>1. PICK R : /\ R[0] = Start
               /\ \A i \in 1 .. Len(cs) : R[i] = Add(R[i - 1], cs[i], room)
               /\ Concat(cs, room) = R[Len(cs)]
  BY ConcatSteps
<1>2. Len(cs) \in Nat /\ \A i \in 1 .. Len(cs) : cs[i] \in Seq(C)
  BY LenProperties, ElementOfSeq
<1>3. /\ \A i \in 0 .. Len(cs) : J[i] \in Seq(C) /\ Len(J[i]) \in Nat
      /\ \A i \in 1 .. Len(cs) : Len(names[i]) \in Nat
  <2>1. Grows(J, names, C)
    BY JoinsGrow, Zenon
  <2> QED
    BY <2>1, Zenon DEF Grows
<1> DEFINE P(i) == i <= Len(cs) =>
                     /\ DOMAIN R[i] = {"out", "count", "full"} /\ R[i].full \in BOOLEAN
                     /\ Filled(R[i], J, names, room) /\ (~R[i].full => R[i].count = i)
           S == {i \in Nat : P(i)}
<1>4. P(0)
  <2>1. J[0] = <<>> /\ R[0] = [out |-> <<>>, count |-> 0, full |-> FALSE]
    BY <1>1, Zenon DEF Joins, Start
  <2> QED
    BY <1>2, <2>1 DEF Filled
<1>5. ASSUME NEW j \in Nat, P(j) PROVE P(j + 1)
  <2> SUFFICES ASSUME j + 1 <= Len(cs) PROVE P(j + 1)
    BY Zenon
  <2>1. PICK i \in 1 .. Len(cs) : i = j + 1 /\ i - 1 = j
    BY <1>2
  <2> DEFINE r == R[j]
             s == R[i]
             c == cs[i]
             n == names[i]
  <2>2. j <= Len(cs) /\ j \in 0 .. Len(cs)
    BY <1>2, <2>1
  <2>3. /\ DOMAIN r = {"out", "count", "full"} /\ r.full \in BOOLEAN
        /\ Filled(r, J, names, room) /\ (~r.full => r.count = j)
    BY <1>5, <2>2, Zenon
  <2>4. s = Add(r, c, room)
    BY <1>1, <2>1, Zenon
  <2>5. n = Copied(Stripped(c)) /\ Len(n) = Len(Stripped(c)) /\ Len(n) \in Nat
    <3>1. c \in Seq(C) /\ n = Copied(Stripped(c))
      BY <1>2, Zenon
    <3> QED
      BY <3>1, NameIs, Zenon
  <2>6. J[i] = J[j] \o Added(names, i)
    BY <2>1, Zenon DEF Joins
  <2>7. CASE r.full
    <3>1. s = [r EXCEPT !.full = TRUE]
      BY <2>4, <2>7, Zenon DEF Add
    <3> HIDE DEF r, s
    <3>2. DOMAIN s = {"out", "count", "full"} /\ s.full = TRUE /\ s.out = r.out /\ s.count = r.count
      BY <2>3, <3>1
    <3> QED
      BY <2>1, <2>3, <2>7, <3>2, Zenon DEF Filled, s
  <2>8. CASE ~r.full /\ NoRoom(Len(r.out), Len(Stripped(c)), room)
    <3>1. s = [r EXCEPT !.full = TRUE]
      BY <2>4, <2>8, Zenon DEF Add
    <3>2. r.count = j /\ r.out = J[j]
      BY <2>3, <2>8, Zenon DEF Filled
    <3>3. Len(J[j]) + Len(n) + 1 >= room
      BY <2>5, <2>8, <3>2, Zenon DEF NoRoom
    <3>4. j < Len(names)
      BY <1>2, <2>1
    <3>5. Len(J[j]) + Len(names[j + 1]) + 1 >= room
      BY <2>1, <3>3, Zenon
    <3>6. \A h \in 1 .. j : Len(J[h - 1]) + Len(names[h]) + 1 < room
      BY <2>3, <3>2, Zenon DEF Filled
    <3> HIDE DEF r, s
    <3>7. DOMAIN s = {"out", "count", "full"} /\ s.full = TRUE /\ s.out = J[j] /\ s.count = j
      BY <2>3, <3>1, <3>2
    <3>8. Filled(s, J, names, room)
      BY <2>2, <3>4, <3>5, <3>6, <3>7, Zenon DEF Filled
    <3> QED
      BY <2>1, <3>7, <3>8, Zenon DEF s
  <2>9. CASE ~r.full /\ ~NoRoom(Len(r.out), Len(Stripped(c)), room)
    <3>1. r.count = j /\ r.out = J[j]
      BY <2>3, <2>9, Zenon DEF Filled
    <3>2. s = [r EXCEPT !.out = J[j] \o (IF j = 0 THEN <<>> ELSE <<"/">>) \o n, !.count = j + 1]
      BY <2>4, <2>5, <2>9, <3>1, Zenon DEF Add
    <3>3. J[j] \o (IF j = 0 THEN <<>> ELSE <<"/">>) \o n = J[i]
      <4>1. J[j] \in Seq(C) /\ <<"/">> \in Seq(C) /\ n \in Seq(C)
        <5>1. n \in Seq(C)
          BY <1>2, <2>5, NameIs, Zenon
        <5> QED
          BY <1>3, <2>2, <5>1
      <4>2. CASE j = 0
        <5>1. J[j] = <<>> /\ Added(names, i) = n
          BY <2>1, <4>2 DEF Joins, Added
        <5>2. <<>> \o <<>> = <<>> /\ <<>> \o n = n
          BY <4>1, ConcatEmptySeq
        <5>3. J[j] \o (IF j = 0 THEN <<>> ELSE <<"/">>) = <<>>
          BY <4>2, <5>1, <5>2, Zenon
        <5> QED
          BY <2>6, <5>1, <5>2, <5>3, Zenon
      <4>3. CASE j # 0
        <5>1. i # 1
          BY <2>1, <4>3
        <5>2. Added(names, i) = <<"/">> \o n
          BY <5>1, Zenon DEF Added
        <5>3. (J[j] \o <<"/">>) \o n = J[j] \o (<<"/">> \o n)
          BY <4>1, Slashed, Zenon
        <5>4. J[j] \o (IF j = 0 THEN <<>> ELSE <<"/">>) = J[j] \o <<"/">>
          BY <4>3, Zenon
        <5> QED
          BY <2>6, <5>2, <5>3, <5>4, Zenon
      <4> QED
        BY <4>2, <4>3
    <3>4. Len(J[j]) + Len(n) + 1 < room
      <4>1. ~(Len(J[j]) + Len(n) + 1 >= room)
        BY <2>5, <2>9, <3>1, Zenon DEF NoRoom
      <4> DEFINE x == Len(J[j])
                 y == Len(n)
      <4>2. x \in Nat /\ y \in Nat /\ ~(x + y + 1 >= room)
        BY <1>3, <2>2, <2>5, <4>1, Zenon
      <4> HIDE DEF x, y
      <4>3. x + y + 1 < room
        BY <4>2
      <4> QED
        BY <4>3 DEF x, y
    <3>5. \A h \in 1 .. i : Len(J[h - 1]) + Len(names[h]) + 1 < room
      <4>1. \A h \in 1 .. j : Len(J[h - 1]) + Len(names[h]) + 1 < room
        BY <2>3, <3>1, Zenon DEF Filled
      <4>2. \A h \in 1 .. i : h \in 1 .. j \/ (h = i /\ h - 1 = j)
        BY <2>1
      <4> QED
        BY <3>4, <4>1, <4>2, Zenon
    <3> HIDE DEF r, s
    <3>6. DOMAIN s = {"out", "count", "full"} /\ s.full = FALSE /\ s.out = J[i] /\ s.count = i
      BY <2>1, <2>3, <2>9, <3>2, <3>3
    <3>7. i \in 0 .. Len(names)
      BY <1>2
    <3>8. Filled(s, J, names, room)
      BY <3>5, <3>6, <3>7, Zenon DEF Filled
    <3> QED
      BY <2>1, <3>6, <3>8, Zenon DEF s
  <2> QED
    BY <2>3, <2>7, <2>8, <2>9, Zenon
<1> HIDE DEF P
<1>6. S = Nat
  <2>1. S \in SUBSET Nat /\ 0 \in S /\ \A i \in S : i + 1 \in S
    BY <1>4, <1>5
  <2> HIDE DEF S
  <2> QED
    BY <2>1, SetInduction, Zenon
<1>7. P(Len(cs)) /\ Len(cs) <= Len(cs)
  BY <1>2, <1>6
<1> QED
  BY <1>1, <1>7, Zenon DEF P

\* That is as many as fit at all, or one too few when the first would fill the room.
LEMMA FilledFits ==
  ASSUME NEW C, NEW names, NEW J, Joins(J, names, C),
         NEW room \in Nat, room # 0, NEW r, Filled(r, J, names, room),
         ~r.full => r.count = Len(names)
  PROVE  LET fit == {n \in 0 .. Len(names) : Len(Joined(SubSeq(names, 1, n))) < room}
         IN  \/ r.out = Joined(SubSeq(names, 1, Max(fit)))
             \/ r.out = <<>> /\ Len(names[1]) + 1 = room
<1> "/" \in C /\ names \in Seq(Seq(C))
  BY Zenon DEF Joins
<1> Grows(J, names, C) /\ Firsts(J, names)
  BY JoinsGrow, JoinedFirst, Zenon
<1>0. \A i \in 1 .. Len(names) :
        /\ Len(names[i]) \in Nat
        /\ Len(J[i]) = Len(J[i - 1]) + Len(names[i]) + IF i = 1 THEN 0 ELSE 1
  BY Zenon DEF Grows
<1> DEFINE k == Len(names)
           c == r.count
           l == [i \in 0 .. k |-> Len(J[i])]
           w == [i \in 1 .. k |-> Len(names[i])]
           fit == {n \in 0 .. Len(names) : Len(Joined(SubSeq(names, 1, n))) < room}
<1>1. k \in Nat /\ c \in 0 .. k /\ r.out = J[c]
  BY LenProperties DEF Filled
<1>2. /\ \A i \in 0 .. k : l[i] \in Nat
      /\ l[0] = 0
      /\ \A i \in 1 .. k : w[i] \in Nat /\ l[i] = l[i - 1] + w[i] + IF i = 1 THEN 0 ELSE 1
      /\ \A i, j \in 0 .. k : i < j => l[i] <= l[j]
  <2>1. \A i \in 0 .. k : l[i] = Len(J[i]) /\ l[i] \in Nat
    BY Zenon DEF Grows
  <2>2. l[0] = 0
    <3>1. J[0] = <<>> /\ 0 \in 0 .. k
      BY <1>1 DEF Joins
    <3> QED
      BY <2>1, <3>1
  <2>3. ASSUME NEW i \in 1 .. k
        PROVE  w[i] \in Nat /\ l[i] = l[i - 1] + w[i] + IF i = 1 THEN 0 ELSE 1
    <3>1. i \in 0 .. k /\ i - 1 \in 0 .. k
      BY <1>1
    <3>2. /\ Len(names[i]) \in Nat
          /\ Len(J[i]) = Len(J[i - 1]) + Len(names[i]) + IF i = 1 THEN 0 ELSE 1
      BY <1>0, Zenon
    <3>3. w[i] = Len(names[i])
      OBVIOUS
    <3> HIDE DEF l, w
    <3> QED
      BY <2>1, <3>1, <3>2, <3>3, Zenon
  <2>4. ASSUME NEW i \in 0 .. k, NEW j \in 0 .. k, i < j PROVE l[i] <= l[j]
    <3>1. Len(J[i]) + (IF i = 0 THEN 0 ELSE 1) <= Len(J[j])
      BY <2>4, Zenon DEF Grows
    <3> HIDE DEF l
    <3>2. l[i] + (IF i = 0 THEN 0 ELSE 1) <= l[j]
      BY <2>1, <3>1, Zenon
    <3>3. l[i] \in Nat /\ l[j] \in Nat
      BY <2>1, Zenon
    <3> QED
      BY <3>2, <3>3
  <2> QED
    BY <2>1, <2>2, <2>3, <2>4, Zenon
<1>3. \A n \in 0 .. k : n \in fit <=> l[n] < room
  <2> SUFFICES ASSUME NEW n \in 0 .. k PROVE n \in fit <=> l[n] < room
    OBVIOUS
  <2>1. Joined(SubSeq(names, 1, n)) = J[n]
    BY Zenon DEF Firsts
  <2> QED
    BY <2>1, Zenon
<1>4. fit \in SUBSET (0 .. k)
  OBVIOUS
<1>5. /\ \A i \in 1 .. c : l[i - 1] + w[i] + 1 < room
      /\ c < k => l[c] + w[c + 1] + 1 >= room
  <2>1. ASSUME NEW i \in 1 .. c PROVE l[i - 1] + w[i] + 1 < room
    <3>1. i - 1 \in 0 .. k /\ i \in 1 .. k
      BY <1>1
    <3>2. Len(J[i - 1]) + Len(names[i]) + 1 < room
      BY Zenon DEF Filled
    <3> QED
      BY <3>1, <3>2, Zenon
  <2>2. ASSUME c < k PROVE l[c] + w[c + 1] + 1 >= room
    <3>1. c # k /\ c + 1 \in 1 .. k
      BY <1>1, <2>2
    <3>2. r.full
      BY <3>1, Zenon
    <3>3. Len(J[c]) + Len(names[c + 1]) + 1 >= room
      BY <3>2, Zenon DEF Filled
    <3> QED
      BY <1>1, <3>1, <3>3, Zenon
  <2> QED
    BY <2>1, <2>2
<1>6. c \in fit
  <2> HIDE DEF fit, l, w, k, c
  <2>1. CASE c = 0
    BY <1>1, <1>2, <1>3, <2>1
  <2>2. CASE c # 0
    <3>1. PICK b \in 0 .. k : b = c - 1
      BY <1>1, <2>2
    <3>2. c \in 1 .. c /\ c \in 1 .. k
      BY <1>1, <2>2
    <3>3. l[c - 1] + w[c] + 1 < room /\ l[c] = l[c - 1] + w[c] + (IF c = 1 THEN 0 ELSE 1)
      BY <1>2, <1>5, <3>2, Zenon
    <3>4. l[c] \in Nat /\ l[b] \in Nat /\ w[c] \in Nat
      BY <1>1, <1>2, <3>2, Zenon
    <3>5. l[c] < room
      BY <3>1, <3>3, <3>4
    <3> QED
      BY <1>1, <1>3, <3>5, Zenon
  <2> QED
    BY <2>1, <2>2
<1>7. (\A n \in fit : n <= c) \/ (c = 0 /\ k # 0 /\ w[1] + 1 = room)
  <2> HIDE DEF fit, l, w, k, c
  <2> SUFFICES ASSUME NEW n \in fit, ~(n <= c) PROVE c = 0 /\ k # 0 /\ w[1] + 1 = room
    BY Zenon
  <2>1. PICK d \in 1 .. k : d = c + 1 /\ d - 1 = c /\ d <= n /\ c < k /\ n \in 0 .. k
    BY <1>1, <1>4
  <2>2. l[n] < room /\ l[n] \in Nat
    BY <1>2, <1>3, <2>1, Zenon
  <2>3. l[d] <= l[n]
    <3>1. d \in 0 .. k
      BY <1>1
    <3>2. d < n => l[d] <= l[n]
      BY <1>2, <2>1, <3>1, Zenon
    <3> QED
      BY <2>1, <2>2, <3>2
  <2>4. /\ l[d] = l[c] + w[d] + (IF d = 1 THEN 0 ELSE 1) /\ w[d] \in Nat /\ l[c] \in Nat
        /\ l[c] + w[d] + 1 >= room
    BY <1>1, <1>2, <1>5, <2>1, Zenon
  <2>5. d = 1
    BY <2>2, <2>3, <2>4
  <2>6. c = 0 /\ k # 0 /\ l[0] = 0
    BY <1>1, <1>2, <2>1, <2>5
  <2>7. l[d] = w[d] /\ w[d] + 1 >= room
    BY <2>4, <2>5, <2>6
  <2>8. w[d] + 1 = room
    BY <2>2, <2>3, <2>4, <2>7
  <2> QED
    BY <2>5, <2>6, <2>8
<1>8. CASE \A n \in fit : n <= c
  <2>1. \A x \in fit : x \in Nat
    BY <1>1, <1>4
  <2> HIDE DEF fit
  <2>2. \A x \in fit : x >= c => x = c
    BY <1>1, <1>8, <2>1
  <2>3. \A y \in fit : c >= y
    BY <1>1, <1>8, <2>1
  <2>4. Max(fit) = c
    BY <1>6, <2>2, <2>3, Zenon DEF Max
  <2>5. Joined(SubSeq(names, 1, c)) = J[c]
    BY <1>1, Zenon DEF Firsts
  <2> QED
    BY <1>1, <2>4, <2>5, Zenon DEF fit
<1>9. CASE c = 0 /\ k # 0 /\ w[1] + 1 = room
  <2>1. w[1] = Len(names[1])
    BY <1>1, <1>9
  <2>2. J[0] = <<>>
    BY Zenon DEF Joins
  <2> QED
    BY <1>1, <1>9, <2>1, <2>2, Zenon
<1> QED
  BY <1>7, <1>8, <1>9, Zenon

\* What stands where in two sequences, one behind the other.
LEMMA ConcatAt ==
  ASSUME NEW C, NEW a \in Seq(C), NEW d \in Seq(C)
  PROVE  /\ Len(a \o d) = Len(a) + Len(d) /\ Len(d) \in Nat
         /\ \A p \in 1 .. Len(a) + Len(d) : (a \o d)[p] = IF p <= Len(a) THEN a[p] ELSE d[p - Len(a)]
  BY ConcatProperties, LenProperties

\* A path begins with the paths of its first components, and a separator is behind each.
LEMMA JoinsPrefix ==
  ASSUME NEW C, NEW ps, NEW J, Joins(J, ps, C),
         NEW i \in 1 .. Len(ps)
  PROVE  /\ \A p \in 1 .. Len(J[i - 1]) : J[i][p] = J[i - 1][p]
         /\ i # 1 => J[i][Len(J[i - 1]) + 1] = "/"
         /\ \A p \in 1 .. Len(J[i]) : ~(p <= Len(J[i - 1])) =>
              \/ i # 1 /\ p = Len(J[i - 1]) + 1
              \/ \E q \in 1 .. Len(ps[i]) : J[i][p] = ps[i][q]
<1> "/" \in C /\ ps \in Seq(Seq(C))
  BY Zenon DEF Joins
<1> DEFINE a == J[i - 1]
           b == ps[i]
           d == Added(ps, i)
           m == Len(a)
<1>1. Len(ps) \in Nat /\ i - 1 \in 0 .. Len(ps) /\ i \in 0 .. Len(ps) /\ b \in Seq(C)
  BY LenProperties, ElementOfSeq
<1>2. a \in Seq(C) /\ m \in Nat /\ J[i] = a \o d
  <2>1. a \in Seq(C) /\ J[i] = a \o d
    BY <1>1, Zenon DEF Joins
  <2> QED
    BY <2>1, LenProperties, Zenon
<1>3. /\ d \in Seq(C) /\ Len(b) \in Nat /\ Len(d) = Len(b) + (IF i = 1 THEN 0 ELSE 1)
      /\ i # 1 => d[1] = "/"
      /\ \A p \in 1 .. Len(d) : (i # 1 /\ p = 1) \/ \E q \in 1 .. Len(b) : d[p] = b[q]
  <2>1. CASE i = 1
    <3>1. d = b
      BY <2>1, Zenon DEF Added
    <3> HIDE DEF d, b
    <3> QED
      BY <1>1, <2>1, <3>1
  <2>2. CASE i # 1
    <3>1. d = <<"/">> \o b
      BY <2>2, Zenon DEF Added
    <3> HIDE DEF d, b
    <3>2. Len(b) \in Nat /\ d \in Seq(C) /\ Len(d) = Len(b) + 1 /\ d[1] = "/"
      BY <1>1, <3>1
    <3>3. ASSUME NEW p \in 1 .. Len(d), p # 1 PROVE \E q \in 1 .. Len(b) : d[p] = b[q]
      <4>1. d[p] = b[p - 1] /\ p - 1 \in 1 .. Len(b)
        BY <1>1, <3>1, <3>2, <3>3
      <4> QED
        BY <4>1
    <3> QED
      BY <2>2, <3>2, <3>3
  <2> QED
    BY <2>1, <2>2
<1> DEFINE o == a \o d
<1> HIDE DEF a, b, d
<1>4. /\ Len(o) = m + Len(d) /\ Len(d) \in Nat
      /\ \A p \in 1 .. m + Len(d) : o[p] = IF p <= m THEN a[p] ELSE d[p - m]
  BY <1>2, <1>3, ConcatAt, Zenon
<1> HIDE DEF o, m
<1>5. \A p \in 1 .. m : o[p] = a[p]
  BY <1>2, <1>4
<1>6. i # 1 => o[m + 1] = "/"
  <2> SUFFICES ASSUME i # 1 PROVE o[m + 1] = "/"
    OBVIOUS
  <2>1. PICK p \in 1 .. m + Len(d) : p = m + 1 /\ ~(p <= m) /\ p - m = 1
    BY <1>2, <1>3, <1>4
  <2>2. o[p] = d[p - m]
    BY <1>4, <2>1, Zenon
  <2>3. o[m + 1] = d[1]
    BY <2>1, <2>2, Zenon
  <2> QED
    BY <1>3, <2>3, Zenon
<1>7. ASSUME NEW p \in 1 .. Len(o), ~(p <= m)
      PROVE  (i # 1 /\ p = m + 1) \/ \E q \in 1 .. Len(b) : o[p] = b[q]
  <2>1. PICK q \in 1 .. Len(d) : q = p - m /\ p = m + q
    BY <1>2, <1>4, <1>7
  <2>2. o[p] = d[q]
    BY <1>4, <1>7, <2>1
  <2>3. (i # 1 /\ q = 1) \/ \E h \in 1 .. Len(b) : d[q] = b[h]
    BY <1>3, Zenon
  <2> QED
    BY <2>1, <2>2, <2>3, Zenon
<1> QED
  BY <1>2, <1>5, <1>6, <1>7, Zenon DEF o, a, b, d, m

\* No component has a separator.
Bare(ps) == \A i \in 1 .. Len(ps) : \A q \in 1 .. Len(ps[i]) : ps[i][q] \notin Separators

\* The separators of a path are the ones between two components.
Parted(J, ps) ==
  \A i \in 0 .. Len(ps) : \A p \in 1 .. Len(J[i]) :
    J[i][p] \in Separators <=> \E j \in 2 .. i : p = Len(J[j - 1]) + 1

\* If no component has a separator, the path has no others.
LEMMA SeparatorsOf ==
  ASSUME NEW C, NEW ps, NEW J, Joins(J, ps, C),
         Bare(ps)
  PROVE  Parted(J, ps)
<1> "/" \in C /\ ps \in Seq(Seq(C))
  BY Zenon DEF Joins
<1> Grows(J, ps, C)
  BY JoinsGrow, Zenon
<1> DEFINE k == Len(ps)
           P(i) == i <= k => \A p \in 1 .. Len(J[i]) :
                               J[i][p] \in Separators <=> \E j \in 2 .. i : p = Len(J[j - 1]) + 1
           S == {i \in Nat : P(i)}
<1>0. \A i \in 1 .. Len(ps) :
        /\ \A p \in 1 .. Len(J[i - 1]) : J[i][p] = J[i - 1][p]
        /\ i # 1 => J[i][Len(J[i - 1]) + 1] = "/"
        /\ \A p \in 1 .. Len(J[i]) : ~(p <= Len(J[i - 1])) =>
             \/ i # 1 /\ p = Len(J[i - 1]) + 1
             \/ \E q \in 1 .. Len(ps[i]) : J[i][p] = ps[i][q]
  <2> TAKE i \in 1 .. Len(ps)
  <2> HIDE DEF k, S, P
  <2> QED
    BY JoinsPrefix
<1>1. k \in Nat
  BY LenProperties
<1>2. P(0)
  <2>1. J[0] = <<>>
    BY Zenon DEF Joins
  <2> QED
    BY <2>1
<1>3. ASSUME NEW h \in Nat, P(h) PROVE P(h + 1)
  <2> SUFFICES ASSUME h + 1 <= k PROVE P(h + 1)
    BY Zenon
  <2>1. PICK i \in 1 .. k : i = h + 1 /\ i - 1 = h /\ h <= k /\ h \in 0 .. k /\ i \in 0 .. k
    BY <1>1
  <2>2. ASSUME NEW p \in 1 .. Len(J[i])
        PROVE  J[i][p] \in Separators <=> \E j \in 2 .. i : p = Len(J[j - 1]) + 1
    <3> DEFINE m == Len(J[h])
    <3>1. m \in Nat /\ Len(J[i]) \in Nat
      BY <2>1, Zenon DEF Grows
    <3>2. /\ \A q \in 1 .. m : J[i][q] = J[h][q]
          /\ i # 1 => J[i][m + 1] = "/"
          /\ ~(p <= m) => (i # 1 /\ p = m + 1) \/ \E q \in 1 .. Len(ps[i]) : J[i][p] = ps[i][q]
      BY <1>0, <2>1
    <3>3. \A j \in 2 .. i : j \in 2 .. h \/ (j = i /\ i # 1)
      BY <2>1
    <3>4. i # 1 => i \in 2 .. i
      BY <2>1
    <3>5. \A j \in 2 .. h : j \in 2 .. i /\ Len(J[j - 1]) + 1 <= m
      <4> SUFFICES ASSUME NEW j \in 2 .. h PROVE j \in 2 .. i /\ Len(J[j - 1]) + 1 <= m
        OBVIOUS
      <4>1. PICK u \in 0 .. k : u = j - 1 /\ u < h /\ u # 0
        BY <2>1
      <4>2. Len(J[u]) + (IF u = 0 THEN 0 ELSE 1) <= m
        BY <2>1, <4>1, Zenon DEF Grows
      <4>3. Len(J[u]) + 1 <= m
        BY <4>1, <4>2, Zenon
      <4> QED
        BY <2>1, <4>1, <4>3
    <3> HIDE DEF m
    <3>6. CASE p <= m
      <4>1. p \in 1 .. m /\ J[i][p] = J[h][p]
        BY <3>1, <3>2, <3>6
      <4>2. J[h][p] \in Separators <=> \E j \in 2 .. h : p = Len(J[j - 1]) + 1
        BY <1>3, <2>1, <4>1, Zenon DEF m
      <4>3. p # m + 1
        BY <3>1, <3>6
      <4> QED
        BY <2>1, <3>3, <3>5, <4>1, <4>2, <4>3, Zenon DEF m
    <3>7. CASE ~(p <= m)
      <4>1. \A j \in 2 .. h : p # Len(J[j - 1]) + 1
        BY <3>5, <3>7, Zenon
      <4>2. CASE i # 1 /\ p = m + 1
        <5>1. J[i][p] \in Separators
          BY <3>2, <4>2 DEF Separators
        <5> QED
          BY <2>1, <3>4, <4>2, <5>1, Zenon DEF m
      <4>3. CASE ~(i # 1 /\ p = m + 1)
        <5>1. J[i][p] \notin Separators
          BY <3>2, <3>7, <4>3, Zenon DEF Bare
        <5>2. \A j \in 2 .. i : p # Len(J[j - 1]) + 1
          BY <2>1, <3>3, <4>1, <4>3, Zenon DEF m
        <5> QED
          BY <5>1, <5>2, Zenon
      <4> QED
        BY <4>2, <4>3, Zenon
    <3> QED
      BY <3>6, <3>7, Zenon
  <2> QED
    BY <2>1, <2>2, Zenon
<1> HIDE DEF P
<1>4. S = Nat
  <2>1. S \in SUBSET Nat /\ 0 \in S /\ \A i \in S : i + 1 \in S
    BY <1>2, <1>3
  <2> HIDE DEF S
  <2> QED
    BY <2>1, SetInduction, Zenon
<1>5. \A i \in 0 .. k : P(i) /\ i <= k
  BY <1>1, <1>4
<1> QED
  BY <1>5, Zenon DEF P, Parted

\* A path begins with the path of any of its first components.
LEMMA JoinsBegin ==
  ASSUME NEW C, NEW ps, NEW J, Joins(J, ps, C),
         NEW i \in 0 .. Len(ps)
  PROVE  \A j \in 0 .. Len(ps) : i <= j =>
           \A p \in 1 .. Len(J[i]) : p \in 1 .. Len(J[j]) /\ J[j][p] = J[i][p]
<1> "/" \in C /\ ps \in Seq(Seq(C))
  BY Zenon DEF Joins
<1> Grows(J, ps, C)
  BY JoinsGrow, Zenon
<1> DEFINE k == Len(ps)
           P(j) == j <= k /\ i <= j => \A p \in 1 .. Len(J[i]) : p \in 1 .. Len(J[j]) /\ J[j][p] = J[i][p]
           S == {j \in Nat : P(j)}
<1>0. \A j \in 1 .. Len(ps) : \A p \in 1 .. Len(J[j - 1]) : J[j][p] = J[j - 1][p]
  <2> TAKE j \in 1 .. Len(ps)
  <2> QED
    BY JoinsPrefix
<1>1. k \in Nat
  BY LenProperties
<1>2. P(0)
  <2>1. 0 >= i => i = 0
    BY <1>1
  <2> QED
    BY <2>1
<1>3. ASSUME NEW h \in Nat, P(h) PROVE P(h + 1)
  <2> SUFFICES ASSUME h + 1 <= k, i <= h + 1 PROVE P(h + 1)
    BY Zenon
  <2>1. PICK j \in 1 .. k : j = h + 1 /\ j - 1 = h /\ h <= k /\ h \in 0 .. k /\ j \in 0 .. k
    BY <1>1
  <2>2. CASE i = j
    BY <2>1, <2>2, Zenon
  <2>3. CASE i # j
    <3>1. i <= h
      BY <1>1, <2>1, <2>3
    <3>2. \A p \in 1 .. Len(J[i]) : p \in 1 .. Len(J[h]) /\ J[h][p] = J[i][p]
      BY <1>3, <2>1, <3>1, Zenon
    <3>3. \A p \in 1 .. Len(J[h]) : J[j][p] = J[h][p]
      BY <1>0, <2>1, Zenon
    <3>4. Len(J[h]) \in Nat /\ Len(J[j]) \in Nat /\ Len(J[h]) + (IF h = 0 THEN 0 ELSE 1) <= Len(J[j])
      <4>1. h < j
        BY <2>1
      <4> QED
        BY <2>1, <4>1, Zenon DEF Grows
    <3>5. \A p \in 1 .. Len(J[h]) : p \in 1 .. Len(J[j])
      <4>1. \A x, y \in Nat : x + (IF h = 0 THEN 0 ELSE 1) <= y => \A p \in 1 .. x : p \in 1 .. y
        BY <2>1
      <4> QED
        BY <3>4, <4>1, Zenon
    <3> QED
      BY <2>1, <3>2, <3>3, <3>5, Zenon
  <2> QED
    BY <2>2, <2>3
<1> HIDE DEF P
<1>4. S = Nat
  <2>1. S \in SUBSET Nat /\ 0 \in S /\ \A j \in S : j + 1 \in S
    BY <1>2, <1>3
  <2> HIDE DEF S
  <2> QED
    BY <2>1, SetInduction, Zenon
<1>5. \A j \in 0 .. k : P(j) /\ j <= k
  BY <1>1, <1>4
<1> QED
  BY <1>5, Zenon DEF P

\* Each of the places from the j-th on is a value of a growing function.
LEMMA CountFrom ==
  ASSUME NEW k \in Nat, NEW j \in 2 .. k, NEW at \in [2 .. k -> Nat],
         \A a, b \in 2 .. k : a < b => at[a] < at[b]
  PROVE  Cardinality({q \in {at[i] : i \in 2 .. k} : q >= at[j]}) = k - j + 1
<1> DEFINE M == {q \in {at[i] : i \in 2 .. k} : q >= at[j]}
           f == [i \in j .. k |-> at[i]]
<1>1. \A i \in j .. k : i \in 2 .. k
  OBVIOUS
<1>2. \A i \in 2 .. k : at[i] \in Nat
  OBVIOUS
<1>3. \A i \in 2 .. k : at[i] >= at[j] => i \in j .. k
  <2> SUFFICES ASSUME NEW i \in 2 .. k, ~(i \in j .. k) PROVE ~(at[i] >= at[j])
    OBVIOUS
  <2>1. i < j
    OBVIOUS
  <2>2. at[i] < at[j] /\ at[i] \in Nat /\ at[j] \in Nat
    BY <1>2, <2>1
  <2> QED
    BY <2>2
<1>4. \A i \in j .. k : at[i] >= at[j]
  <2> SUFFICES ASSUME NEW i \in j .. k PROVE at[i] >= at[j]
    OBVIOUS
  <2>1. i = j \/ j < i
    OBVIOUS
  <2>2. j < i => at[j] < at[i]
    BY <1>1
  <2>3. at[i] \in Nat /\ at[j] \in Nat
    BY <1>1, <1>2
  <2> QED
    BY <2>1, <2>2, <2>3
<1>5. M = {at[i] : i \in j .. k}
  BY <1>1, <1>3, <1>4
<1>6. \A a, b \in j .. k : at[a] = at[b] => a = b
  <2> SUFFICES ASSUME NEW a \in j .. k, NEW b \in j .. k, a # b PROVE at[a] # at[b]
    OBVIOUS
  <2>1. a < b \/ b < a
    OBVIOUS
  <2>2. (a < b => at[a] < at[b]) /\ (b < a => at[b] < at[a]) /\ at[a] \in Nat /\ at[b] \in Nat
    BY <1>1, <1>2
  <2> QED
    BY <2>1, <2>2
<1> HIDE DEF M
<1>7. f \in Bijection(j .. k, M)
  BY <1>5, <1>6 DEF Bijection, Injection, Surjection, IsInjective
<1>8. ExistsBijection(j .. k, M)
  BY <1>7, Zenon DEF ExistsBijection
<1>9. IsFiniteSet(j .. k) /\ Cardinality(j .. k) = k - j + 1
  <2>1. j \in Int /\ k \in Int /\ ~(j > k)
    OBVIOUS
  <2> QED
    BY <2>1, FS_Interval
<1>10. Cardinality(M) = Cardinality(j .. k)
  BY <1>8, <1>9, FS_Bijection
<1> QED
  BY <1>9, <1>10 DEF M

\* The lengths of paths of more and more components, the first of which is not empty.
Growing(l, k) ==
  /\ \A i \in 0 .. k : l[i] \in Nat
  /\ l[1] # 0
  /\ \A i, j \in 0 .. k : i < j => l[i] + (IF i = 0 THEN 0 ELSE 1) <= l[j]

\* Where the separators of such paths are, and those with n more behind them.
Places(l, k) == {i \in 2 .. l[k] : \E j \in 2 .. k : i = l[j - 1] + 1}
Hits(seps, n) == {i \in seps : Cardinality({j \in seps : j >= i}) = n + 1}

\* Number m of k, which is not the first, has n behind it.
Behind(m, n, k) == k \in Nat /\ m \in 2 .. k /\ n \in Nat /\ k - m + 1 = n + 1

\* The place that has as many places from it on.
LEMMA GrowingHits ==
  ASSUME NEW k, NEW m, NEW n, Behind(m, n, k), NEW l, Growing(l, k)
  PROVE  Hits(Places(l, k), n) # {} /\ Max(Hits(Places(l, k), n)) = l[m - 1] + 1
<1> k \in Nat /\ m \in 2 .. k /\ n \in Nat /\ k - m + 1 = n + 1
  BY Zenon DEF Behind
<1> DEFINE at == [j \in 2 .. k |-> l[j - 1] + 1]
           seps == Places(l, k)
           hits == Hits(seps, n)
<1>1. \A j \in 2 .. k : at[j] = l[j - 1] + 1 /\ j - 1 \in 1 .. k - 1 /\ j - 1 \in 0 .. k
  OBVIOUS
<1>2. at \in [2 .. k -> Nat]
  BY <1>1 DEF Growing
<1>3. ASSUME NEW a \in 1 .. k, NEW b \in 1 .. k, a < b PROVE l[a] + 1 <= l[b] /\ l[a] \in Nat /\ l[b] \in Nat
  <2>1. a \in 0 .. k /\ b \in 0 .. k /\ a # 0
    OBVIOUS
  <2> QED
    BY <1>3, <2>1 DEF Growing
<1> HIDE DEF at
<1>4. \A a, b \in 2 .. k : a < b => at[a] < at[b]
  <2> SUFFICES ASSUME NEW a \in 2 .. k, NEW b \in 2 .. k, a < b PROVE at[a] < at[b]
    OBVIOUS
  <2>1. PICK c \in 1 .. k, d \in 1 .. k : c = a - 1 /\ d = b - 1 /\ c < d
    OBVIOUS
  <2>2. l[c] + 1 <= l[d] /\ l[c] \in Nat /\ l[d] \in Nat
    BY <1>3, <2>1
  <2>3. at[a] = l[c] + 1 /\ at[b] = l[d] + 1
    BY <1>1, <2>1
  <2> QED
    BY <2>2, <2>3
<1>5. ASSUME NEW j \in 2 .. k PROVE at[j] \in 2 .. l[k]
  <2>1. PICK c \in 1 .. k : c = j - 1 /\ c < k /\ (c = 1 \/ 1 < c) /\ k \in 1 .. k /\ 1 \in 1 .. k
    OBVIOUS
  <2>2. l[c] + 1 <= l[k] /\ l[c] \in Nat /\ l[k] \in Nat
    BY <1>3, <2>1
  <2>3. 1 < c => l[1] + 1 <= l[c] /\ l[1] \in Nat
    BY <1>3, <2>1
  <2>4. l[c] # 0
    BY <2>1, <2>2, <2>3 DEF Growing
  <2>5. at[j] = l[c] + 1
    BY <1>1, <2>1
  <2> QED
    BY <2>2, <2>4, <2>5
<1>6. seps = {at[j] : j \in 2 .. k}
  BY <1>1, <1>5 DEF Places
<1> HIDE DEF seps
<1>7. \A j \in 2 .. k : Cardinality({q \in seps : q >= at[j]}) = k - j + 1
  BY <1>2, <1>4, <1>6, CountFrom
<1>8. \A j \in 2 .. k : k - j + 1 = n + 1 <=> j = m
  OBVIOUS
<1>9. hits = {at[m]}
  <2>1. \A j \in 2 .. k : at[j] \in hits <=> j = m
    BY <1>6, <1>7, <1>8 DEF Hits
  <2>2. \A i \in hits : \E j \in 2 .. k : i = at[j]
    BY <1>6 DEF Hits
  <2> HIDE DEF hits
  <2> QED
    BY <2>1, <2>2, Zenon
<1> HIDE DEF hits
<1>10. at[m] >= at[m]
  BY <1>2
<1>11. Max(hits) = at[m] /\ hits # {}
  BY <1>9, <1>10, Zenon DEF Max
<1> QED
  BY <1>1, <1>11, Zenon DEF hits, seps

\* The path has names in front of the n + 1 that are to go.
Trimmable(J, ps, n) ==
  Bare(ps) /\ n \in Nat /\ n + 1 < Len(ps) /\ ps[1] # <<>> /\ path = J[Len(ps)]

\* Where ccfs_path_rtrim_i stops in a path of such components.
LEMMA TrimHeadIs ==
  ASSUME NEW C, NEW ps, NEW J, Joins(J, ps, C), NEW n, Trimmable(J, ps, n)
  PROVE  TrimHead(n) = Len(J[Len(ps) - n - 1])
<1> Bare(ps) /\ n \in Nat /\ n + 1 < Len(ps) /\ ps[1] # <<>> /\ path = J[Len(ps)]
  BY Zenon DEF Trimmable
<1> "/" \in C /\ ps \in Seq(Seq(C))
  BY Zenon DEF Joins
<1> Grows(J, ps, C)
  BY JoinsGrow, Zenon
<1>0. Parted(J, ps)
  BY SeparatorsOf, Zenon
<1> DEFINE k == Len(ps)
           m == k - n
           seps == {i \in 2 .. Len(path) : path[i] \in Separators}
           hits == Hits(seps, n)
           l == [i \in 0 .. k |-> Len(J[i])]
           at == [j \in 2 .. k |-> l[j - 1] + 1]
<1>1. k \in Nat
  BY LenProperties
<1>2. /\ \A i \in 0 .. k : l[i] = Len(J[i]) /\ l[i] \in Nat
      /\ \A i, j \in 0 .. k : i < j => l[i] + (IF i = 0 THEN 0 ELSE 1) <= l[j]
  <2>1. \A i \in 0 .. k : l[i] = Len(J[i]) /\ l[i] \in Nat
    BY Zenon DEF Grows
  <2>2. ASSUME NEW i \in 0 .. k, NEW j \in 0 .. k, i < j
        PROVE  l[i] + (IF i = 0 THEN 0 ELSE 1) <= l[j]
    <3>1. Len(J[i]) + (IF i = 0 THEN 0 ELSE 1) <= Len(J[j])
      BY <2>2, Zenon DEF Grows
    <3> HIDE DEF l
    <3> QED
      BY <2>1, <3>1, Zenon
  <2> QED
    BY <2>1, <2>2, Zenon
<1>3. l[1] # 0
  <2>1. 1 \in 1 .. k /\ 1 \in 0 .. k /\ 0 \in 0 .. k /\ 1 - 1 = 0
    BY <1>1
  <2>2. Len(J[1]) = Len(J[1 - 1]) + Len(ps[1]) + (IF 1 = 1 THEN 0 ELSE 1) /\ Len(ps[1]) \in Nat
    BY <2>1, Zenon DEF Grows
  <2>3. Len(ps[1]) # 0
    <3>1. ps[1] \in Seq(C)
      BY <2>1, ElementOfSeq, Zenon
    <3> QED
      BY <3>1
  <2>4. l[1] = l[0] + Len(ps[1]) + (IF 1 = 1 THEN 0 ELSE 1)
    <3> HIDE DEF l
    <3> QED
      BY <1>2, <2>1, <2>2, Zenon
  <2>5. \A x, y \in Nat : y # 0 => x + y + (IF 1 = 1 THEN 0 ELSE 1) # 0
    OBVIOUS
  <2> HIDE DEF l
  <2> QED
    BY <1>2, <2>1, <2>2, <2>3, <2>4, <2>5, Zenon
<1>4. path = J[k] /\ k \in 0 .. k /\ l[k] = Len(path)
  BY <1>1, <1>2
<1>5. k - n - 1 = m - 1 /\ m \in 2 .. k /\ k - m + 1 = n + 1 /\ m - 1 \in 0 .. k
  BY <1>1
<1>6. seps = Places(l, k)
  <2>1. \A p \in 1 .. Len(J[k]) : J[k][p] \in Separators <=> \E j \in 2 .. k : p = Len(J[j - 1]) + 1
    BY <1>0, <1>4, Zenon DEF Parted
  <2>2. \A j \in 2 .. k : j - 1 \in 0 .. k
    BY <1>1
  <2>3. \A j \in 2 .. k : l[j - 1] = Len(J[j - 1])
    BY <1>2, <2>2, Zenon
  <2>4. \A p \in 2 .. l[k] : p \in 1 .. l[k]
    OBVIOUS
  <2> HIDE DEF l, k
  <2>5. \A p \in 2 .. l[k] : path[p] \in Separators <=> \E j \in 2 .. k : p = l[j - 1] + 1
    BY <1>4, <2>1, <2>3, <2>4, Zenon
  <2>6. seps = {p \in 2 .. l[k] : path[p] \in Separators}
    BY <1>4, Zenon
  <2> HIDE DEF seps
  <2> QED
    BY <2>5, <2>6, Zenon DEF Places
<1>7. l[m - 1] = Len(J[m - 1]) /\ l[m - 1] \in Nat
  BY <1>2, <1>5, Zenon
<1>8. TrimHead(n) = IF hits = {} THEN 1 ELSE Max(hits) - 1
  BY DEF TrimHead, Hits
<1> HIDE DEF seps, l
<1>9. hits # {} /\ Max(hits) = l[m - 1] + 1
  <2> HIDE DEF k, m
  <2>1. Growing(l, k)
    BY <1>2, <1>3, Zenon DEF Growing
  <2> QED
    <3>1. Hits(Places(l, k), n) # {} /\ Max(Hits(Places(l, k), n)) = l[m - 1] + 1
      <4>1. Behind(m, n, k)
        BY <1>1, <1>5, Zenon DEF Behind
      <4> QED
        BY <2>1, <4>1, GrowingHits
    <3> QED
      BY <1>6, <3>1, Zenon DEF hits
<1> HIDE DEF hits, m, k
<1>10. l[m - 1] + 1 - 1 = l[m - 1]
  BY <1>7
<1>11. TrimHead(n) = Max(hits) - 1
  BY <1>8, <1>9, Zenon
<1> QED
  BY <1>5, <1>7, <1>9, <1>10, <1>11 DEF k

\* What is left of a path when the last n + 1 names go.
LEMMA TrimLeaves ==
  ASSUME NEW C, "/" \in C, NEW ps \in Seq(Seq(C)), Bare(ps), path = Joined(ps),
         NEW n \in Nat, n + 1 < Len(ps), ps[1] # <<>>
  PROVE  SubSeq(path, 1, Lesser(TrimEnd(n), Len(path)))
           = Joined(SubSeq(ps, 1, Len(ps) - n - 1) \o <<<<>>>>)
<1> DEFINE k == Len(ps)
<1>1. PICK J : Joins(J, ps, C) /\ Joined(ps) = J[Len(ps)]
  BY JoinedIs
<1>2. PICK a \in 1 .. Len(ps), b \in 1 .. Len(ps) :
        a = Len(ps) - n - 1 /\ b = a + 1 /\ b - 1 = a /\ b # 1 /\ Len(ps) \in Nat
  <2>1. \A l \in Nat : n + 1 < l =>
          /\ l - n - 1 \in 1 .. l /\ l - n - 1 + 1 \in 1 .. l
          /\ l - n - 1 + 1 - 1 = l - n - 1 /\ l - n - 1 + 1 # 1
    OBVIOUS
  <2>2. k \in Nat /\ n + 1 < k
    BY LenProperties
  <2>3. /\ k - n - 1 \in 1 .. k /\ k - n - 1 + 1 \in 1 .. k
        /\ k - n - 1 + 1 - 1 = k - n - 1 /\ k - n - 1 + 1 # 1
    BY <2>1, <2>2, Zenon
  <2> HIDE DEF k
  <2>4. \E a, b \in 1 .. k : a = k - n - 1 /\ b = a + 1 /\ b - 1 = a /\ b # 1 /\ k \in Nat
    BY <2>2, <2>3
  <2> QED
    BY <2>4 DEF k
<1>3. TrimHead(n) = Len(J[a])
  <2>1. path = J[Len(ps)]
    BY <1>1, Zenon
  <2>2. TrimHead(n) = Len(J[Len(ps) - n - 1])
    <3>1. Trimmable(J, ps, n)
      BY <2>1, Zenon DEF Trimmable
    <3> QED
      BY <1>1, <3>1, TrimHeadIs
  <2> QED
    BY <1>2, <2>2, Zenon
<1>4. Joined(SubSeq(ps, 1, a) \o <<<<>>>>) = J[a] \o <<"/">>
  BY <1>1, JoinedOpen
<1>5. a \in 0 .. k /\ b \in 0 .. k /\ k \in 0 .. k /\ a < b /\ b <= k /\ a # 0
  BY <1>2
<1>6. /\ J[a] \in Seq(C) /\ J[b] \in Seq(C) /\ J[k] \in Seq(C)
      /\ Len(J[a]) \in Nat /\ Len(J[b]) \in Nat /\ Len(J[k]) \in Nat
      /\ Len(J[a]) + (IF a = 0 THEN 0 ELSE 1) <= Len(J[b])
  <2>1. Grows(J, ps, C)
    BY <1>1, JoinsGrow, Zenon
  <2> QED
    BY <1>5, <2>1, Zenon DEF Grows
<1>7. /\ J[b][Len(J[a]) + 1] = "/"
      /\ \A p \in 1 .. Len(J[a]) : J[b][p] = J[a][p]
  <2>1. /\ \A p \in 1 .. Len(J[b - 1]) : J[b][p] = J[b - 1][p]
        /\ b # 1 => J[b][Len(J[b - 1]) + 1] = "/"
    BY <1>1, JoinsPrefix
  <2> QED
    BY <1>2, <2>1, Zenon
<1>8. \A p \in 1 .. Len(J[b]) : p \in 1 .. Len(J[k]) /\ J[k][p] = J[b][p]
  <2>1. \A j \in 0 .. Len(ps) : b <= j =>
          \A p \in 1 .. Len(J[b]) : p \in 1 .. Len(J[j]) /\ J[j][p] = J[b][p]
    <3>1. b \in 0 .. Len(ps)
      BY <1>5
    <3> HIDE DEF k
    <3> QED
      BY <1>1, <3>1, JoinsBegin
  <2> QED
    BY <1>5, <2>1, Zenon
<1> DEFINE u == J[a]
           v == J[b]
           w == J[k]
           m == Len(J[a])
<1>9. path = w
  BY <1>1
<1> HIDE DEF u, v, w, m, k
<1>10. /\ u \in Seq(C) /\ w \in Seq(C) /\ m \in Nat /\ Len(u) = m /\ Len(v) \in Nat /\ Len(w) \in Nat
       /\ m + 1 <= Len(v)
  BY <1>5, <1>6 DEF u, v, w, m
<1>11. m + 1 \in 1 .. Len(w) /\ w[m + 1] = "/"
  <2>1. m + 1 \in 1 .. Len(v)
    BY <1>10
  <2> QED
    BY <1>7, <1>8, <2>1, Zenon DEF u, v, w, m
<1>12. \A p \in 1 .. m : w[p] = u[p]
  <2>1. \A p \in 1 .. m : p \in 1 .. Len(v)
    BY <1>10
  <2> QED
    BY <1>7, <1>8, <2>1, Zenon DEF u, v, w, m
<1>13. TrimEnd(n) = m + 1 /\ Lesser(m + 1, Len(w)) = m + 1
  <2>1. m + 1 <= Len(w)
    BY <1>10, <1>11
  <2> QED
    BY <1>3, <1>10, <2>1 DEF TrimEnd, Lesser, m
<1>14. SubSeq(w, 1, m + 1) = u \o <<"/">>
  <2> DEFINE s == SubSeq(w, 1, m + 1)
             e == <<"/">>
             t == u \o e
  <2>1. s \in Seq(C) /\ Len(s) = m + 1 /\ \A p \in 1 .. m + 1 : s[p] = w[p]
    BY <1>10, <1>11, SubSeqProperties
  <2>2. e \in Seq(C) /\ Len(e) = 1 /\ e[1] = "/"
    OBVIOUS
  <2> HIDE DEF s, e
  <2>3. /\ t \in Seq(C) /\ Len(t) = m + 1
        /\ \A p \in 1 .. m + 1 : t[p] = IF p <= m THEN u[p] ELSE e[p - m]
    <3>1. /\ t \in Seq(C) /\ Len(t) = Len(u) + Len(e)
          /\ \A p \in 1 .. Len(u) + Len(e) : t[p] = IF p <= Len(u) THEN u[p] ELSE e[p - Len(u)]
      <4>1. u \in Seq(C) /\ e \in Seq(C)
        BY <1>10, <2>2
      <4> HIDE DEF u
      <4> QED
        BY <4>1, ConcatProperties
    <3> HIDE DEF t
    <3> QED
      BY <1>10, <2>2, <3>1, Zenon
  <2> HIDE DEF t
  <2>4. \A p \in 1 .. m + 1 : s[p] = t[p]
    <3>1. ASSUME NEW p \in 1 .. m + 1, p <= m PROVE s[p] = t[p]
      <4>1. p \in 1 .. m
        BY <1>10, <3>1
      <4> QED
        BY <1>12, <2>1, <2>3, <3>1, <4>1, Zenon
    <3>2. ASSUME NEW p \in 1 .. m + 1, ~(p <= m) PROVE s[p] = t[p]
      <4>1. p = m + 1 /\ p - m = 1
        BY <1>10, <3>2
      <4> QED
        BY <1>11, <2>1, <2>2, <2>3, <3>2, <4>1, Zenon
    <3> QED
      BY <3>1, <3>2
  <2>5. s = t
    <3>1. s = [p \in 1 .. m + 1 |-> s[p]] /\ t = [p \in 1 .. m + 1 |-> t[p]]
      BY <2>1, <2>3
    <3> QED
      BY <2>4, <3>1
  <2> QED
    BY <2>5 DEF s, t, e
<1> QED
  BY <1>2, <1>4, <1>9, <1>13, <1>14, Zenon DEF u

-----------------------------------------------------------------------------
(* The steps of paths.                                                       *)

\* The characters of paths.
Letters == UNION {ToSet(c) : c \in Components}
Characters == Letters \cup {"/"}

\* The parts are words, and what the path was joined from.
PathInv == parts \in Seq(Seq(Characters)) /\ TrimUndoesJoin

\* The separator that a path is joined with is one of its characters.
LEMMA SlashIsCharacter == "/" \in Characters
  BY DEF Characters

\* The arguments of ccfs_path_concat are words.
LEMMA ComponentsAreWords ==
  ASSUME NEW cs \in ComponentLists
  PROVE  cs \in Seq(Seq(Characters)) /\ Len(cs) \in Nat
<1>1. \A c \in Components : c \in Seq(Characters)
  <2> TAKE c \in Components
  <2>1. c \in Seq(ToSet(c)) /\ ToSet(c) \subseteq Characters
    BY ComponentsAssumption DEF ComponentsAssumption, Characters, Letters
  <2> HIDE DEF Characters
  <2> QED
    BY <2>1
<1>2. PICK n \in 0 .. MaxParts : cs \in [1 .. n -> Components]
  BY DEF ComponentLists
<1>3. cs \in [1 .. n -> Seq(Characters)] /\ n \in Nat
  BY <1>1, <1>2, ComponentsAssumption DEF ComponentsAssumption
<1> QED
  BY <1>3

\* What ccfs_path_concat makes.
LEMMA ConcatKeeps ==
  ASSUME NEW cs \in ComponentLists, NEW room \in Sizes, ccfs_path_concat(cs, room)
  PROVE  PathInv' /\ JoinFits'
<1> DEFINE C == Characters
           names == [i \in DOMAIN cs |-> Copied(Stripped(cs[i]))]
           r == Concat(cs, room)
<1> HIDE DEF C
<1>1. "/" \in C /\ room \in Nat
  <2>1. "/" \in C
    BY SlashIsCharacter, Zenon DEF C
  <2>2. room \in Nat
    OBVIOUS
  <2> QED
    BY <2>1, <2>2
<1>2. cs \in Seq(Seq(C)) /\ Len(cs) \in Nat /\ DOMAIN cs = 1 .. Len(cs)
  BY ComponentsAreWords, LenProperties DEF C
<1>3. \A i \in 1 .. Len(cs) : names[i] = Copied(Stripped(cs[i])) /\ names[i] \in Seq(C)
  <2> TAKE i \in 1 .. Len(cs)
  <2>1. cs[i] \in Seq(C)
    BY <1>2, ElementOfSeq
  <2>2. names[i] = Copied(Stripped(cs[i]))
    BY <1>2, Zenon
  <2> QED
    BY <1>1, <2>1, <2>2, NameIs, Zenon
<1>4. names \in Seq(Seq(C)) /\ Len(names) = Len(cs)
  <2>1. names = [i \in 1 .. Len(cs) |-> names[i]]
    BY <1>2
  <2> HIDE DEF names
  <2>2. names \in [1 .. Len(cs) -> Seq(C)]
    <3>1. \A i \in 1 .. Len(cs) : names[i] \in Seq(C)
      BY <1>3, Zenon
    <3> DEFINE S == Seq(C)
    <3> HIDE DEF S
    <3>2. \A i \in 1 .. Len(cs) : names[i] \in S
      BY <3>1, Zenon DEF S
    <3>3. names \in [1 .. Len(cs) -> S]
      BY <2>1, <3>2
    <3> QED
      BY <3>3, Zenon DEF S
  <2> DEFINE k == Len(cs)
             S == Seq(C)
  <2>3. k \in Nat /\ names \in [1 .. k -> S]
    BY <1>2, <2>2
  <2> HIDE DEF k, S
  <2>4. names \in Seq(S) /\ Len(names) = k
    BY <2>3
  <2> QED
    BY <2>4 DEF k, S
<1>5. /\ path' = r.out /\ parts' = SubSeq(names, 1, r.count)
      /\ asked' = [names |-> names, room |-> room]
  BY DEF ccfs_path_concat
<1> HIDE DEF names
<1>6. PICK J : Joins(J, names, C)
  BY <1>1, <1>4, JoinedIs
<1>7. Filled(r, J, names, room) /\ (~r.full => r.count = Len(names))
  <2>1. \A i \in 1 .. Len(cs) : names[i] = Copied(Stripped(cs[i]))
    BY <1>3
  <2> QED
    BY <1>1, <1>2, <1>4, <1>6, <2>1, ConcatFills
<1> HIDE DEF r
<1>8. r.count \in 0 .. Len(names) /\ r.out = J[r.count]
  BY <1>7, Zenon DEF Filled
<1>9. Joined(parts') = path'
  <2>1. Firsts(J, names)
    BY <1>6, JoinedFirst, Zenon
  <2> QED
    BY <1>5, <1>8, <2>1, Zenon DEF Firsts
<1>10. parts' \in Seq(Seq(C))
  <2>1. r.count \in Int /\ \A i \in 1 .. r.count : i \in 1 .. Len(names)
    BY <1>4, <1>2, <1>8
  <2> QED
    BY <1>4, <1>5, <1>8, SubSeqProperties
<1>11. PathInv'
  BY <1>9, <1>10 DEF PathInv, TrimUndoesJoin, C
<1>12. ASSUME room # 0
       PROVE  LET fit == {n \in 0 .. Len(names) : Len(Joined(SubSeq(names, 1, n))) < room}
              IN  \/ r.out = Joined(SubSeq(names, 1, Max(fit)))
                  \/ r.out = <<>> /\ Len(names[1]) + 1 = room
  BY <1>1, <1>4, <1>6, <1>7, <1>12, FilledFits
<1>13. JoinFits'
  <2>1. asked'.names = names /\ asked'.room = room
    BY <1>5
  <2> QED
    BY <1>5, <1>12, <2>1, Zenon DEF JoinFits
<1> QED
  BY <1>11, <1>13

\* What ccfs_path_rtrim_i makes of a path that was joined.
LEMMA TrimKeeps ==
  ASSUME PathInv, NEW n \in Trims, ccfs_path_rtrim_i(n)
  PROVE  PathInv' /\ JoinFits'
<1> DEFINE C == Characters
<1> HIDE DEF C
<1>1. "/" \in C /\ n \in Nat
  <2>1. "/" \in C
    BY SlashIsCharacter, Zenon DEF C
  <2>2. n \in Nat
    BY TrimsAssumption DEF TrimsAssumption
  <2> QED
    BY <2>1, <2>2
<1>2. parts \in Seq(Seq(C)) /\ (parts # <<>> => path = Joined(parts))
  BY DEF PathInv, TrimUndoesJoin, C
<1>3. /\ path' = SubSeq(path, 1, Lesser(TrimEnd(n), Len(path)))
      /\ parts' = PartsLeft(n) /\ asked' = Null
  BY DEF ccfs_path_rtrim_i
<1>4. JoinFits'
  BY <1>3, Zenon DEF JoinFits
<1> DEFINE Named == /\ n + 1 < Len(parts)
                    /\ \A i \in DOMAIN parts : /\ ToSet(parts[i]) \cap Separators = {}
                                               /\ parts[i] = <<>> => i = Len(parts)
<1>5. CASE ~Named
  <2>1. parts' = <<>>
    BY <1>3, <1>5, Zenon DEF PartsLeft
  <2> QED
    BY <1>4, <2>1 DEF PathInv, TrimUndoesJoin
<1>6. CASE Named
  <2>1. parts' = SubSeq(parts, 1, Len(parts) - n - 1) \o <<<<>>>>
    BY <1>3, <1>6, Zenon DEF PartsLeft
  <2>2. Len(parts) \in Nat /\ DOMAIN parts = 1 .. Len(parts) /\ parts # <<>> /\ n + 1 < Len(parts)
    BY <1>1, <1>2, <1>6
  <2>3. Bare(parts)
    <3> SUFFICES ASSUME NEW i \in 1 .. Len(parts), NEW q \in 1 .. Len(parts[i])
                 PROVE  parts[i][q] \notin Separators
      BY DEF Bare
    <3>1. parts[i] \in Seq(C)
      BY <1>2, ElementOfSeq
    <3>2. parts[i][q] \in ToSet(parts[i])
      BY <3>1, LenProperties DEF ToSet
    <3> QED
      BY <1>6, <2>2, <3>2
  <2>4. parts[1] # <<>>
    <3>1. 1 \in 1 .. Len(parts) /\ 1 # Len(parts)
      <4>1. PICK l \in Nat : l = Len(parts) /\ n + 1 < l
        BY <2>2
      <4>2. 1 \in 1 .. l /\ 1 # l
        BY <1>1, <4>1
      <4> QED
        BY <4>1, <4>2, Zenon
    <3> QED
      BY <1>6, <2>2, <3>1, Zenon
  <2>5. path' = Joined(parts')
    <3> HIDE DEF Named
    <3>1. path = Joined(parts)
      BY <1>2, <2>2, Zenon
    <3>2. SubSeq(path, 1, Lesser(TrimEnd(n), Len(path)))
            = Joined(SubSeq(parts, 1, Len(parts) - n - 1) \o <<<<>>>>)
      BY <1>1, <1>2, <2>2, <2>3, <2>4, <3>1, TrimLeaves, Zenon
    <3> QED
      BY <1>3, <2>1, <3>2, Zenon
  <2>6. parts' \in Seq(Seq(C))
    <3> DEFINE m == Len(parts) - n - 1
               rs == SubSeq(parts, 1, m)
    <3>1. m \in Int /\ \A i \in 1 .. m : i \in 1 .. Len(parts)
      BY <1>1, <2>2
    <3> HIDE DEF m
    <3>2. rs \in Seq(Seq(C))
      BY <1>2, <3>1, SubSeqProperties
    <3> HIDE DEF rs
    <3>3. <<<<>>>> \in Seq(Seq(C))
      OBVIOUS
    <3>4. rs \o <<<<>>>> \in Seq(Seq(C))
      BY <3>2, <3>3, ConcatProperties
    <3> QED
      BY <2>1, <3>4 DEF rs, m
  <2> QED
    BY <1>4, <2>5, <2>6 DEF PathInv, TrimUndoesJoin, C
<1> HIDE DEF Named
<1> QED
  BY <1>5, <1>6, Zenon

\* A step that makes no path keeps the one there is, or leaves none.
LEMMA PathStep == PathInv /\ JoinFits /\ [Next]_vars => PathInv' /\ JoinFits'
<1> SUFFICES ASSUME PathInv, JoinFits, [Next]_vars PROVE PathInv' /\ JoinFits'
  OBVIOUS
<1>1. ASSUME UNCHANGED paths PROVE PathInv' /\ JoinFits'
  <2>1. path' = path /\ parts' = parts /\ asked' = asked
    BY <1>1 DEF paths
  <2> QED
    BY <2>1, Zenon DEF PathInv, TrimUndoesJoin, JoinFits
<1>2. CASE MakePath
  <2>1. ASSUME NEW cs \in ComponentLists, NEW room \in Sizes, ccfs_path_concat(cs, room)
        PROVE  PathInv' /\ JoinFits'
    BY <2>1, ConcatKeeps
  <2>2. ASSUME NEW n \in Trims, ccfs_path_rtrim_i(n) PROVE PathInv' /\ JoinFits'
    BY <2>2, TrimKeeps
  <2> QED
    BY <1>2, <2>1, <2>2, Zenon DEF MakePath
<1>3. CASE ccfs_file_open
  <2>1. parts' = <<>> /\ asked' = Null
    BY <1>3, Zenon DEF ccfs_file_open
  <2>2. parts' \in Seq(Seq(Characters))
    BY <2>1
  <2> QED
    BY <2>1, <2>2, Zenon DEF PathInv, TrimUndoesJoin, JoinFits
<1>4. CASE Measure \/ \E b \in Blocks : ReadAll(b) \/ FreeData(b)
  BY <1>1, <1>4, Zenon DEF Measure, ReadAll, FreeData
<1>5. CASE \E length \in 0 .. MaxLength : OtherWrites(length)
  BY <1>1, <1>5, Zenon DEF OtherWrites
<1>6. CASE UNCHANGED files
  BY <1>1, <1>6, Zenon DEF files
<1>7. CASE ReadFails
  BY <1>6, <1>7, Zenon DEF ReadFails
<1> QED
  BY <1>2, <1>3, <1>4, <1>5, <1>6, <1>7, Zenon DEF Next, vars, UseFiles, UseObjects, UseMemory

\* From the start on there is no path, or one that is kept.
LEMMA PathsAreKept == Spec => [](PathInv /\ JoinFits)
<1>1. Init => PathInv /\ JoinFits
  <2> SUFFICES ASSUME Init PROVE PathInv /\ JoinFits
    OBVIOUS
  <2>1. parts = <<>> /\ asked = Null
    BY DEF Init, FileInit
  <2>2. parts \in Seq(Seq(Characters))
    BY <2>1
  <2> QED
    BY <2>1, <2>2, Zenon DEF PathInv, TrimUndoesJoin, JoinFits
<1> QED
  BY <1>1, PathStep, PTL DEF Spec

\* ccfs_path_concat (filesystem.c) stays inside its buffer, of any size but zero, and joins
\* as many components as fit, or none where only the null of the first one does not.
THEOREM JoinsFit == Spec => []JoinFits
<1>1. PathInv /\ JoinFits => JoinFits
  OBVIOUS
<1> QED
  BY <1>1, PathsAreKept, PTL

\* ccfs_path_rtrim_i (filesystem.c) takes off whole names, and leaves the path that
\* ccfs_path_concat would have made of the names that are left and an empty one.
THEOREM TrimsUndoJoins == Spec => []TrimUndoesJoin
<1>1. PathInv /\ JoinFits => TrimUndoesJoin
  BY Zenon DEF PathInv
<1> QED
  BY <1>1, PathsAreKept, PTL
=============================================================================
