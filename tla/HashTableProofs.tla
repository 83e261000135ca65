-------------------------- MODULE HashTableProofs --------------------------
(***************************************************************************)
(* Proofs about HashTable, for any keys, values, hash function and number   *)
(* of bits of a word that doubling gives: the capacity is the power of two  *)
(* that was asked for, every key has one node in its bucket, the table is a *)
(* map, its values are destroyed once, and a walk misses none and repeats   *)
(* none.                                                                    *)
(***************************************************************************)
EXTENDS HashTable, WellFoundedInduction, FiniteSetTheorems, SequenceTheorems, TLAPS

-----------------------------------------------------------------------------
(* Numbers, and the powers of two.                                           *)

\* A set of numbers that is not empty has a least one.
LEMMA MinIs ==
  ASSUME NEW S \in SUBSET Nat, S # {}
  PROVE  Min(S) \in S /\ \A y \in S : Min(S) <= y
<1>1. \E x \in S : \A y \in S : ~(<<y, x>> \in OpToRel(<, Nat))
  BY NatLessThanWellFounded, WFMin, Zenon
<1>2. PICK x \in S : \A y \in S : ~(<<y, x>> \in OpToRel(<, Nat))
  BY <1>1, Zenon
<1>3. \A y \in S : ~(y < x)
  BY <1>2, Zenon DEF OpToRel
<1>4. \A y \in S : x <= y
  BY <1>3
<1> QED
  BY <1>4 DEF Min

\* A set of numbers that has 0 and with each the next is all of them.
LEMMA SetInduction ==
  ASSUME NEW S \in SUBSET Nat, 0 \in S, \A n \in S : n + 1 \in S
  PROVE  S = Nat
<1> SUFFICES ASSUME Nat \ S # {} PROVE FALSE
  BY Zenon
<1>1. \E x \in Nat \ S : \A y \in Nat \ S : ~(<<y, x>> \in OpToRel(<, Nat))
  BY NatLessThanWellFounded, WFMin, Zenon
<1>2. PICK x \in Nat \ S : \A y \in Nat \ S : ~(<<y, x>> \in OpToRel(<, Nat))
  BY <1>1, Zenon
<1>3. \A y \in Nat : y < x => y \in S
  BY <1>2, Zenon DEF OpToRel
<1>4. x # 0 /\ x \in Nat
  OBVIOUS
<1>5. x - 1 \in Nat /\ x - 1 < x /\ x - 1 + 1 = x
  BY <1>4
<1> QED
  BY <1>2, <1>3, <1>5

\* f starts at b and goes on by g up to k.
Steps(f, g, b, k) == f[0] = b /\ \A i \in 1 .. k : f[i] = g[i][f[i - 1]]

\* Such a function exists.
LEMMA StepsExist ==
  ASSUME NEW k \in Nat, NEW A, NEW b \in A, NEW g \in [1 .. k -> [A -> A]]
  PROVE  \E f \in [0 .. k -> A] : Steps(f, g, b, k)
<1> DEFINE P(n) == \E f \in [0 .. n -> A] : Steps(f, g, b, n)
           S == {n \in Nat : n <= k => P(n)}
<1>1. P(0)
  <2> DEFINE f == [i \in 0 .. 0 |-> b]
  <2>1. f \in [0 .. 0 -> A] /\ f[0] = b /\ 1 .. 0 = {}
    OBVIOUS
  <2> HIDE DEF f
  <2> QED
    BY <2>1 DEF Steps
<1>2. ASSUME NEW n \in Nat, n + 1 <= k, P(n) PROVE P(n + 1)
  <2>1. PICK f \in [0 .. n -> A] : Steps(f, g, b, n)
    BY <1>2
  <2>2. PICK m \in 1 .. k : m = n + 1 /\ m - 1 = n /\ n \in 0 .. n /\ 0 \in 0 .. n
    BY <1>2
  <2>3. /\ \A i \in 0 .. m : i # m => i \in 0 .. n
        /\ \A i \in 1 .. m : i \in 0 .. m /\ (i # m => i \in 1 .. n /\ i - 1 # m) /\ i - 1 \in 0 .. m
        /\ 0 \in 0 .. m /\ 0 # m /\ m \in 0 .. m /\ n \in 0 .. m /\ n # m
    BY <2>2
  <2> DEFINE h == [i \in 0 .. m |-> IF i = m THEN g[m][f[n]] ELSE f[i]]
  <2>4. g[m][f[n]] \in A
    BY <2>1, <2>2
  <2>5. h \in [0 .. m -> A]
    BY <2>1, <2>3, <2>4
  <2>6. h[m] = g[m][f[n]] /\ \A i \in 0 .. m : i # m => h[i] = f[i]
    BY <2>3
  <2> HIDE DEF h
  <2>7. h[0] = b
    BY <2>1, <2>3, <2>6 DEF Steps
  <2>8. ASSUME NEW i \in 1 .. m PROVE h[i] = g[i][h[i - 1]]
    <3>1. CASE i = m
      BY <2>2, <2>3, <2>6, <3>1
    <3>2. CASE i # m
      <4>1. f[i] = g[i][f[i - 1]]
        BY <2>1, <2>3, <3>2, Zenon DEF Steps
      <4> QED
        BY <2>3, <2>6, <3>2, <4>1, Zenon
    <3> QED
      BY <3>1, <3>2, Zenon
  <2>9. P(m)
    BY <2>5, <2>7, <2>8, Zenon DEF Steps
  <2> QED
    BY <2>2, <2>9, Zenon
<1> HIDE DEF P
<1>3. S = Nat
  <2>1. S \in SUBSET Nat /\ 0 \in S
    BY <1>1
  <2>2. \A n \in S : n + 1 \in S
    BY <1>2
  <2> HIDE DEF S
  <2> QED
    BY <2>1, <2>2, SetInduction, Zenon
<1>4. P(k)
  BY <1>3
<1> QED
  BY <1>4, Zenon DEF P

\* What Power is.
LEMMA PowerIs ==
  ASSUME Width \in Nat
  PROVE  /\ Power \in [0 .. Width -> Nat \ {0}]
         /\ Power[0] = 1
         /\ \A i \in 1 .. Width : Power[i] = 2 * Power[i - 1]
<1> DEFINE A == Nat \ {0}
           g == [i \in 1 .. Width |-> [x \in A |-> 2 * x]]
           Is(f) == f = [i \in 0 .. Width |-> IF i = 0 THEN 1 ELSE 2 * f[i - 1]]
<1>1. g \in [1 .. Width -> [A -> A]] /\ 1 \in A
  OBVIOUS
<1>2. PICK f \in [0 .. Width -> A] : Steps(f, g, 1, Width)
  <2> HIDE DEF A, g
  <2> QED
    BY <1>1, StepsExist
<1>3. \A i \in 1 .. Width : i \in 0 .. Width /\ i # 0 /\ i - 1 \in 0 .. Width
  OBVIOUS
<1>4. \A i \in 0 .. Width : i # 0 => i \in 1 .. Width
  OBVIOUS
<1>5. \A i \in 1 .. Width : f[i] = 2 * f[i - 1]
  <2> TAKE i \in 1 .. Width
  <2>1. f[i] = g[i][f[i - 1]] /\ f[i - 1] \in A
    BY <1>2, <1>3, Zenon DEF Steps
  <2> QED
    BY <2>1
<1>6. Is(f)
  <2>1. f = [i \in 0 .. Width |-> f[i]] /\ f[0] = 1
    BY <1>2 DEF Steps
  <2>2. \A i \in 0 .. Width : f[i] = IF i = 0 THEN 1 ELSE 2 * f[i - 1]
    BY <1>4, <1>5, <2>1, Zenon
  <2> QED
    BY <2>1, <2>2
<1>7. Power = CHOOSE p : Is(p)
  BY DEF Power
<1> HIDE DEF Is
<1>8. Is(Power)
  BY <1>6, <1>7, Zenon
<1>9. Power[0] = 1 /\ \A i \in 1 .. Width : Power[i] = 2 * Power[i - 1]
  BY <1>3, <1>8 DEF Is
<1> DEFINE S == {i \in Nat : i <= Width => Power[i] \in Nat \ {0}}
<1>10. S = Nat
  <2>1. S \in SUBSET Nat /\ 0 \in S
    BY <1>9
  <2>2. ASSUME NEW i \in S PROVE i + 1 \in S
    <3>1. CASE i + 1 <= Width
      <4>1. PICK h \in 1 .. Width : h = i + 1 /\ h - 1 = i
        BY <3>1
      <4>2. Power[h] = 2 * Power[i] /\ Power[i] \in Nat \ {0}
        BY <1>9, <4>1
      <4>3. Power[h] \in Nat \ {0}
        BY <4>2
      <4> QED
        BY <4>1, <4>3
    <3> QED
      BY <3>1
  <2> HIDE DEF S
  <2> QED
    BY <2>1, <2>2, SetInduction, Zenon
<1>11. Power \in [0 .. Width -> Nat \ {0}]
  <2>1. \A i \in 0 .. Width : Power[i] \in Nat \ {0}
    BY <1>10
  <2>2. Power = [i \in 0 .. Width |-> IF i = 0 THEN 1 ELSE 2 * Power[i - 1]]
    BY <1>8 DEF Is
  <2>3. DOMAIN Power = 0 .. Width /\ Power = [i \in DOMAIN Power |-> Power[i]]
    BY <2>2
  <2> QED
    BY <2>1, <2>3
<1> QED
  BY <1>9, <1>11, Zenon

\* The bits of a word are numbered by the powers.
LEMMA WidthIsNumber == Width \in Nat
  BY WordAssumption, Zenon DEF WordAssumption

\* Powers multiply by adding their numbers.
LEMMA PowerSum ==
  ASSUME NEW i \in Nat, NEW j \in Nat, i + j <= Width
  PROVE  Power[i + j] = Power[i] * Power[j]
<1> DEFINE P(n) == i + n <= Width => Power[i + n] = Power[i] * Power[n]
           S == {n \in Nat : P(n)}
<1>1. /\ \A n \in 0 .. Width : Power[n] \in Nat
      /\ Power[0] = 1 /\ \A n \in 1 .. Width : Power[n] = 2 * Power[n - 1]
  BY PowerIs, WidthIsNumber
<1>2. P(0)
  <2>1. i + 0 = i /\ i \in 0 .. Width
    BY WidthIsNumber
  <2>2. Power[i] * 1 = Power[i]
    BY <1>1, <2>1
  <2> QED
    BY <1>1, <2>1, <2>2, Zenon
<1>3. ASSUME NEW n \in Nat, P(n) PROVE P(n + 1)
  <2> SUFFICES ASSUME i + (n + 1) <= Width PROVE Power[i + (n + 1)] = Power[i] * Power[n + 1]
    OBVIOUS
  <2>1. PICK k \in 1 .. Width, m \in 1 .. Width :
          /\ k = i + (n + 1) /\ k - 1 = i + n /\ m = n + 1 /\ m - 1 = n
          /\ i \in 0 .. Width /\ n \in 0 .. Width /\ i + n <= Width
    BY WidthIsNumber
  <2>2. Power[k] = 2 * Power[i + n] /\ Power[m] = 2 * Power[n]
    BY <1>1, <2>1, Zenon
  <2>3. Power[i + n] = Power[i] * Power[n]
    BY <1>3, <2>1, Zenon
  <2>4. \A x, y \in Nat : 2 * (x * y) = x * (2 * y)
    OBVIOUS
  <2>5. 2 * (Power[i] * Power[n]) = Power[i] * (2 * Power[n])
    BY <1>1, <2>1, <2>4, Zenon
  <2> QED
    BY <2>1, <2>2, <2>3, <2>5, Zenon
<1> HIDE DEF P
<1>4. S = Nat
  <2>1. S \in SUBSET Nat /\ 0 \in S /\ \A n \in S : n + 1 \in S
    BY <1>2, <1>3
  <2> HIDE DEF S
  <2> QED
    BY <2>1, SetInduction, Zenon
<1>5. P(j)
  BY <1>4
<1> QED
  BY <1>5 DEF P

\* A power is an even multiple of each lower one.
LEMMA PowerSplits ==
  ASSUME NEW i \in 0 .. Width, NEW j \in 0 .. Width, i < j
  PROVE  \E q \in Nat \ {0} : Power[j] = Power[i] * (2 * q)
<1>1. PICK d \in 1 .. Width : d = j - i /\ i + d = j /\ d - 1 \in 0 .. Width
  BY WidthIsNumber
<1>2. Power[j] = Power[i] * Power[d]
  BY <1>1, PowerSum, WidthIsNumber
<1>3. Power[d] = 2 * Power[d - 1] /\ Power[d - 1] \in Nat \ {0}
  BY <1>1, PowerIs, WidthIsNumber
<1> QED
  BY <1>2, <1>3, Zenon

\* So it is more than that.
LEMMA PowerGrows ==
  ASSUME NEW i \in 0 .. Width, NEW j \in 0 .. Width, i < j
  PROVE  Power[i] < Power[j]
<1>1. PICK q \in Nat \ {0} : Power[j] = Power[i] * (2 * q)
  BY PowerSplits
<1>2. Power[i] \in Nat \ {0}
  BY PowerIs, WidthIsNumber
<1>3. \A x, y \in Nat \ {0} : x < x * (2 * y)
  <2> TAKE x, y \in Nat \ {0}
  <2>1. PICK z \in Nat : y = z + 1
    BY SMT
  <2>2. x * (2 * y) = x * (2 * z) + 2 * x
    BY <2>1
  <2>3. x * (2 * z) >= 0 /\ x * (2 * z) \in Int
    OBVIOUS
  <2> QED
    BY <2>2, <2>3
<1> QED
  BY <1>1, <1>2, <1>3

-----------------------------------------------------------------------------
(* Words and their bits.                                                     *)

\* All bits of a from number lo up to e are ones, and none is behind.
Top(a, e, lo) == /\ e \in 0 .. Width /\ lo \in 0 .. e
                 /\ a \in Nat /\ a < Power[e] /\ Power[e] - Power[lo] <= a

\* Bits are what a quotient leaves.
LEMMA DivIs ==
  ASSUME NEW q \in Nat, NEW d \in Nat \ {0}, NEW r \in Nat, r < d, NEW a, a = q * d + r
  PROVE  a \div d = q
  OBVIOUS

\* So they are ones.
LEMMA TopBits ==
  ASSUME NEW a, NEW e, NEW lo, Top(a, e, lo), NEW j \in Nat, lo <= j, j < e
  PROVE  Bit(a, j) = 1
<1>1. /\ e \in 0 .. Width /\ j \in 0 .. Width /\ lo \in 0 .. Width
      /\ a \in Nat /\ a < Power[e] /\ Power[e] - Power[lo] <= a
  BY WidthIsNumber DEF Top
<1>2. PICK q \in Nat \ {0} : Power[e] = Power[j] * (2 * q)
  BY <1>1, PowerSplits
<1>3. Power[j] \in Nat \ {0} /\ Power[lo] \in Nat \ {0} /\ Power[e] \in Nat
  BY <1>1, PowerIs, WidthIsNumber
<1>4. Power[lo] <= Power[j]
  <2>1. CASE lo = j
    BY <1>3, <2>1
  <2>2. CASE lo < j
    <3>1. Power[lo] < Power[j]
      BY <1>1, <2>2, PowerGrows
    <3> QED
      BY <1>3, <3>1
  <2> QED
    BY <1>1, <2>1, <2>2
<1> DEFINE d == Power[j]
           p == Power[e]
           u == 2 * q - 1
           r == a - u * d
<1>5. u \in Nat /\ u % 2 = 1
  BY <1>2
<1>6. p = d * (2 * q) /\ d \in Nat \ {0} /\ p \in Nat /\ a < p /\ p - d <= a
  BY <1>1, <1>2, <1>3, <1>4
<1> HIDE DEF d, p
<1>7. u * d = p - d /\ u * d \in Int
  <2>1. (2 * q - 1) * d = d * (2 * q) - d
    BY <1>2, <1>6
  <2> QED
    BY <1>6, <2>1
<1> HIDE DEF u
<1>8. r \in Nat /\ r < d /\ a = u * d + r
  BY <1>1, <1>6, <1>7
<1> HIDE DEF r
<1>9. a \div d = u
  BY <1>5, <1>6, <1>8, DivIs, Zenon
<1> QED
  BY <1>5, <1>9, Zenon DEF Bit, d

\* A number below a power has no bits from there on.
LEMMA NoBits ==
  ASSUME NEW a \in Nat, NEW e \in 0 .. Width, a < Power[e], NEW j \in e .. Width
  PROVE  Bit(a, j) = 0
<1>1. j \in 0 .. Width /\ (e = j \/ e < j)
  BY WidthIsNumber
<1>2. Power[j] \in Nat \ {0} /\ Power[e] \in Nat
  BY <1>1, PowerIs, WidthIsNumber
<1>3. a < Power[j]
  <2>1. CASE e = j
    BY <2>1
  <2>2. CASE e < j
    BY <1>1, <1>2, <2>2, PowerGrows
  <2> QED
    BY <1>1, <2>1, <2>2
<1> DEFINE d == Power[j]
<1> HIDE DEF d
<1>4. d \in Nat \ {0} /\ a < d /\ a = 0 * d + a
  BY <1>2, <1>3 DEF d
<1>5. a \div d = 0
  BY <1>4, DivIs
<1>6. 0 % 2 = 0
  OBVIOUS
<1> QED
  BY <1>5, <1>6, Zenon DEF Bit, d

\* A shift to the right takes a bit s places down.
LEMMA ShiftedBit ==
  ASSUME NEW a \in Nat, NEW s \in Nat, NEW j \in Nat, s + j <= Width
  PROVE  Bit(a \div Power[s], j) = Bit(a, s + j)
<1>1. s \in 0 .. Width /\ j \in 0 .. Width
  BY WidthIsNumber
<1>2. Power[s] \in Nat \ {0} /\ Power[j] \in Nat \ {0} /\ Power[s + j] = Power[s] * Power[j]
  BY <1>1, PowerIs, PowerSum, WidthIsNumber
<1>3. \A x, y \in Nat \ {0} : (a \div x) \div y = a \div (x * y)
  OBVIOUS
<1>4. (a \div Power[s]) \div Power[j] = a \div Power[s + j]
  BY <1>2, <1>3, Zenon
<1> QED
  BY <1>4, Zenon DEF Bit

\* It makes no word larger.
LEMMA ShiftedIs ==
  ASSUME NEW a \in Nat, NEW s \in 0 .. Width
  PROVE  a \div Power[s] \in Nat /\ a \div Power[s] <= a
<1>1. Power[s] \in Nat \ {0}
  BY PowerIs, WidthIsNumber
<1>2. \A x \in Nat \ {0} : a \div x \in Nat /\ a \div x <= a
  OBVIOUS
<1> QED
  BY <1>1, <1>2, Zenon

\* The bits of the result of Or, up to one of them.
OrBits(low, m, n) ==
  /\ low \in [0 .. Width -> Nat]
  /\ low[0] = 0
  /\ \A i \in 1 .. Width :
       low[i] = low[i - 1] + (IF Bit(m, i - 1) + Bit(n, i - 1) = 0 THEN 0 ELSE Power[i - 1])

\* They add up to it.
LEMMA OrIs ==
  ASSUME NEW m, NEW n
  PROVE  \E low : OrBits(low, m, n) /\ Or(m, n) = low[Width]
<1> DEFINE c(i) == IF Bit(m, i) + Bit(n, i) = 0 THEN 0 ELSE Power[i]
           g == [i \in 1 .. Width |-> [x \in Nat |-> x + c(i - 1)]]
           Is(f) == f = [i \in 0 .. Width |-> IF i = 0 THEN 0 ELSE f[i - 1] + c(i - 1)]
           low == CHOOSE f : Is(f)
<1>1. Width \in Nat /\ \A i \in 0 .. Width : c(i) \in Nat
  BY PowerIs, WidthIsNumber
<1>2. Or(m, n) = low[Width]
  BY DEF Or
<1> HIDE DEF c
<1>3. \A i \in 1 .. Width : i \in 0 .. Width /\ i # 0 /\ i - 1 \in 0 .. Width
  BY <1>1
<1>4. \A i \in 0 .. Width : i # 0 => i \in 1 .. Width
  BY <1>1
<1>5. g \in [1 .. Width -> [Nat -> Nat]]
  BY <1>1, <1>3
<1>6. PICK f \in [0 .. Width -> Nat] : Steps(f, g, 0, Width)
  <2> HIDE DEF g
  <2> QED
    BY <1>1, <1>5, StepsExist
<1>7. \A i \in 1 .. Width : f[i] = f[i - 1] + c(i - 1)
  <2> TAKE i \in 1 .. Width
  <2>1. f[i] = g[i][f[i - 1]] /\ f[i - 1] \in Nat
    BY <1>3, <1>6, Zenon DEF Steps
  <2> QED
    BY <2>1
<1>8. Is(f)
  <2>1. f = [i \in 0 .. Width |-> f[i]] /\ f[0] = 0
    BY <1>6 DEF Steps
  <2>2. \A i \in 0 .. Width : f[i] = IF i = 0 THEN 0 ELSE f[i - 1] + c(i - 1)
    BY <1>4, <1>7, <2>1, Zenon
  <2> QED
    BY <2>1, <2>2
<1> HIDE DEF Is
<1>9. Is(low)
  BY <1>8, Zenon
<1> HIDE DEF low
<1>10. /\ low = [i \in 0 .. Width |-> IF i = 0 THEN 0 ELSE low[i - 1] + c(i - 1)]
       /\ low[0] = 0 /\ \A i \in 1 .. Width : low[i] = low[i - 1] + c(i - 1)
  BY <1>1, <1>3, <1>9 DEF Is
<1> DEFINE S == {i \in Nat : i <= Width => low[i] \in Nat}
<1>11. S = Nat
  <2>1. S \in SUBSET Nat /\ 0 \in S
    BY <1>10
  <2>2. ASSUME NEW i \in S PROVE i + 1 \in S
    <3>1. CASE i + 1 <= Width
      <4>1. PICK h \in 1 .. Width : h = i + 1 /\ h - 1 = i
        BY <1>1, <3>1
      <4>2. low[h] = low[i] + c(i) /\ low[i] \in Nat /\ c(i) \in Nat
        BY <1>1, <1>3, <1>10, <4>1
      <4>3. low[h] \in Nat
        BY <4>2
      <4> QED
        BY <4>1, <4>3
    <3> QED
      BY <3>1
  <2> HIDE DEF S
  <2> QED
    BY <2>1, <2>2, SetInduction, Zenon
<1>12. low \in [0 .. Width -> Nat]
  <2>1. \A i \in 0 .. Width : low[i] \in Nat
    BY <1>1, <1>11
  <2>2. DOMAIN low = 0 .. Width /\ low = [i \in DOMAIN low |-> low[i]]
    BY <1>10
  <2> QED
    BY <2>1, <2>2
<1> QED
  BY <1>2, <1>10, <1>12 DEF OrBits, c

\* If one of two words has each bit from lo up to e, and neither one behind, Or has these.
LEMMA OrTop ==
  ASSUME NEW m, NEW n, NEW e \in 0 .. Width, NEW lo \in 0 .. e,
         \A j \in Nat : lo <= j /\ j < e => Bit(m, j) + Bit(n, j) # 0,
         \A j \in Nat : e <= j /\ j < Width => Bit(m, j) + Bit(n, j) = 0
  PROVE  Top(Or(m, n), e, lo)
<1>1. PICK low : OrBits(low, m, n) /\ Or(m, n) = low[Width]
  BY OrIs
<1>2. /\ \A i \in 0 .. Width : low[i] \in Nat /\ Power[i] \in Nat \ {0}
      /\ Power[0] = 1 /\ \A i \in 1 .. Width : Power[i] = 2 * Power[i - 1]
      /\ Width \in Nat
  BY <1>1, PowerIs, WidthIsNumber DEF OrBits
<1> DEFINE p == Power[lo]
           Q(i) == /\ i <= e => low[i] < Power[i] /\ (lo <= i => Power[i] - p <= low[i])
                   /\ e <= i => low[i] = low[e]
           S == {i \in Nat : i <= Width => Q(i)}
<1>3. e \in Nat /\ lo \in Nat /\ lo <= e /\ e <= Width /\ p \in Nat \ {0} /\ e \in 0 .. Width
  BY <1>2
<1>4. Q(0)
  <2>1. low[0] = 0
    BY <1>1 DEF OrBits
  <2>2. e <= 0 => e = 0
    BY <1>3
  <2>3. lo <= 0 => Power[0] - p = 0
    BY <1>2, <1>3
  <2> QED
    BY <1>2, <2>1, <2>2, <2>3
<1> HIDE DEF p
<1>5. ASSUME NEW i \in Nat, i + 1 <= Width, Q(i) PROVE Q(i + 1)
  <2>1. PICK h \in 1 .. Width : h = i + 1 /\ h - 1 = i /\ i \in 0 .. Width /\ i < Width /\ h \in 0 .. Width
    BY <1>2, <1>5
  <2>2. low[h] = low[h - 1] + (IF Bit(m, h - 1) + Bit(n, h - 1) = 0 THEN 0 ELSE Power[h - 1])
    BY <1>1, Zenon DEF OrBits
  <2>3. low[h] = low[i] + (IF Bit(m, i) + Bit(n, i) = 0 THEN 0 ELSE Power[i])
    BY <2>1, <2>2, Zenon
  <2>4. Power[h] = 2 * Power[i] /\ Power[i] \in Nat \ {0} /\ low[i] \in Nat
    BY <1>2, <2>1, Zenon
  <2>5. CASE i < e
    <3>1. low[h] = low[i] \/ low[h] = low[i] + Power[i]
      <4>1. low[i] + 0 = low[i]
        BY <2>4
      <4> QED
        BY <2>3, <4>1, Zenon
    <3>2. lo <= i => low[h] = low[i] + Power[i]
      BY <2>3, <2>5, Zenon
    <3>3. low[i] < Power[i] /\ (lo <= i => Power[i] - p <= low[i])
      BY <1>3, <1>5, <2>5
    <3>4. i < lo \/ lo <= i
      BY <1>3
    <3>5. lo = h => Power[h] - p = 0
      BY <1>3, <2>4 DEF p
    <3>6. low[h] < Power[h] /\ (lo <= i => Power[h] - p <= low[h])
      <4> DEFINE x == low[i]
                 y == Power[i]
                 z == low[h]
                 w == Power[h]
      <4>1. x \in Nat /\ y \in Nat \ {0} /\ w = 2 * y /\ (z = x \/ z = x + y) /\ (lo <= i => z = x + y)
            /\ x < y /\ (lo <= i => y - p <= x)
        BY <2>4, <3>1, <3>2, <3>3, Zenon
      <4> HIDE DEF x, y, z, w
      <4>2. z < w /\ (lo <= i => w - p <= z)
        BY <1>3, <4>1
      <4> QED
        BY <4>2, Zenon DEF z, w
    <3>7. lo <= h => lo <= i \/ lo = h
      BY <1>3, <2>1
    <3>8. low[h] \in Nat
      BY <1>2, <2>1
    <3>9. lo <= h => Power[h] - p <= low[h]
      BY <3>5, <3>6, <3>7, <3>8
    <3>10. e <= h => h = e
      BY <1>3, <2>1, <2>5
    <3>11. Q(h)
      BY <3>6, <3>9, <3>10, Zenon
    <3> QED
      BY <2>1, <3>11, Zenon
  <2>6. CASE ~(i < e)
    <3>1. e <= i /\ ~(h <= e)
      BY <1>3, <2>1, <2>6
    <3>2. Bit(m, i) + Bit(n, i) = 0
      BY <2>1, <3>1
    <3>3. low[i] + 0 = low[i] /\ low[i] = low[e]
      BY <1>5, <2>4, <3>1
    <3>4. low[h] = low[e]
      BY <2>3, <3>2, <3>3, Zenon
    <3>5. Q(h)
      BY <3>1, <3>4, Zenon
    <3> QED
      BY <2>1, <3>5, Zenon
  <2> QED
    BY <2>5, <2>6
<1> HIDE DEF Q
<1>6. S = Nat
  <2>1. S \in SUBSET Nat /\ 0 \in S /\ \A i \in S : i + 1 \in S
    BY <1>2, <1>4, <1>5
  <2> HIDE DEF S
  <2> QED
    BY <2>1, SetInduction, Zenon
<1>7. Q(e) /\ Q(Width)
  BY <1>2, <1>3, <1>6
<1>8. low[Width] = low[e] /\ low[e] < Power[e] /\ Power[e] - p <= low[e]
  BY <1>3, <1>7 DEF Q
<1>9. low[Width] \in Nat
  BY <1>2
<1> QED
  BY <1>1, <1>8, <1>9, Zenon DEF Top, p

-----------------------------------------------------------------------------
(* What the shifts do.                                                       *)

\* Or with what is s places down takes the ones of a word s places further down.
LEMMA SmearStep ==
  ASSUME NEW a, NEW e, NEW lo, Top(a, e, lo), NEW s \in 0 .. Width, lo = 0 \/ lo + s <= e
  PROVE  \E l \in 0 .. e : Top(Or(a, a \div Power[s]), e, l) /\ (l = 0 \/ l + s = lo)
<1> DEFINE b == a \div Power[s]
<1>1. /\ e \in 0 .. Width /\ lo \in 0 .. e /\ lo \in Nat /\ e \in Nat /\ Width \in Nat /\ s \in Nat
      /\ a \in Nat /\ a < Power[e] /\ Power[e] \in Nat
  BY PowerIs, WidthIsNumber DEF Top
<1>2. b \in Nat /\ b <= a
  BY <1>1, ShiftedIs
<1>3. b < Power[e]
  <2> HIDE DEF b
  <2> QED
    BY <1>1, <1>2
<1>4. PICK l \in 0 .. e : (l = 0 \/ l + s = lo) /\ lo <= l + s /\ l <= lo
  <2>1. CASE lo <= s
    <3>1. 0 \in 0 .. e /\ lo <= 0 + s /\ 0 <= lo
      BY <1>1, <2>1
    <3> QED
      BY <3>1
  <2>2. CASE ~(lo <= s)
    <3>1. PICK k \in 0 .. e : k = lo - s
      BY <1>1, <2>2
    <3>2. k + s = lo /\ lo <= k + s /\ k <= lo
      BY <1>1, <3>1
    <3> QED
      BY <3>2
  <2> QED
    BY <2>1, <2>2
<1>5. ASSUME NEW j \in Nat, l <= j, j < e PROVE Bit(a, j) + Bit(b, j) # 0
  <2>1. CASE lo <= j
    <3>1. Bit(a, j) = 1
      BY <1>5, <2>1, TopBits
    <3>2. Bit(b, j) \in Nat
      <4>1. Power[j] \in Nat \ {0}
        BY <1>1, <1>5, PowerIs
      <4> DEFINE d == Power[j]
      <4> HIDE DEF b, d
      <4>2. (b \div d) % 2 \in Nat
        BY <1>2, <4>1 DEF d
      <4> QED
        BY <4>2, Zenon DEF Bit, d
    <3> HIDE DEF b
    <3> QED
      BY <3>1, <3>2
  <2>2. CASE ~(lo <= j)
    <3>1. PICK i \in Nat : i = s + j /\ lo <= i /\ i < e /\ i <= Width
      BY <1>1, <1>4, <1>5, <2>2
    <3>2. Bit(a, i) = 1
      BY <3>1, TopBits
    <3>3. Bit(b, j) = Bit(a, s + j)
      BY <1>1, <3>1, ShiftedBit
    <3>4. Bit(b, j) = 1
      BY <3>1, <3>2, <3>3, Zenon
    <3>5. Bit(a, j) \in Nat
      <4>1. Power[j] \in Nat \ {0}
        BY <1>1, <1>5, PowerIs
      <4> DEFINE d == Power[j]
      <4> HIDE DEF d
      <4>2. (a \div d) % 2 \in Nat
        BY <1>1, <4>1 DEF d
      <4> QED
        BY <4>2, Zenon DEF Bit, d
    <3> HIDE DEF b
    <3> QED
      BY <3>4, <3>5
  <2> QED
    BY <2>1, <2>2, Zenon
<1>6. ASSUME NEW j \in Nat, e <= j, j < Width PROVE Bit(a, j) + Bit(b, j) = 0
  <2>1. j \in e .. Width
    BY <1>1, <1>6
  <2>2. Bit(a, j) = 0
    BY <1>1, <2>1, NoBits
  <2> HIDE DEF b
  <2>3. Bit(b, j) = 0
    BY <1>1, <1>2, <1>3, <2>1, NoBits
  <2>4. 0 + 0 = 0
    OBVIOUS
  <2> QED
    BY <2>2, <2>3, <2>4, Zenon
<1>7. Top(Or(a, b), e, l)
  <2> HIDE DEF b
  <2> QED
    BY <1>1, <1>5, <1>6, OrTop
<1> QED
  BY <1>4, <1>7

\* A number below a power is between two that follow each other, or 0.
LEMMA HighestBit ==
  ASSUME NEW h \in 0 .. Width, NEW a \in Nat, a < Power[h]
  PROVE  \E e \in 0 .. h : a < Power[e] /\ (e # 0 => Power[e - 1] <= a)
<1> DEFINE S == {e \in 0 .. h : a < Power[e]}
<1>1. h \in Nat /\ h \in S /\ S \in SUBSET Nat /\ \A e \in 0 .. h : e \in 0 .. Width
  BY WidthIsNumber
<1>2. Min(S) \in S /\ \A y \in S : Min(S) <= y
  <2> HIDE DEF S
  <2> QED
    BY <1>1, MinIs
<1>3. PICK e \in 0 .. h : e \in S /\ \A y \in S : e <= y
  BY <1>2
<1>4. ASSUME e # 0 PROVE Power[e - 1] <= a
  <2>1. PICK d \in 0 .. h : d = e - 1 /\ ~(e <= d)
    BY <1>1, <1>4
  <2>2. ~(a < Power[d])
    BY <1>3, <2>1
  <2>3. Power[d] \in Nat
    BY <1>1, <2>1, PowerIs, WidthIsNumber
  <2>4. Power[d] <= a
    BY <2>2, <2>3
  <2> QED
    BY <2>1, <2>4, Zenon
<1> QED
  BY <1>3, <1>4

\* The words that the shifts go through.
Smears(w, v) ==
  /\ w[0] = v
  /\ \A i \in 1 .. Len(Shifts) : w[i] = Or(w[i - 1], w[i - 1] \div Power[Shifts[i]])

\* The shifts are powers of two, and the last word is Smeared.
LEMMA SmearedIs ==
  ASSUME NEW v \in Nat
  PROVE  \E w : Smears(w, v) /\ Smeared(v) = w[Len(Shifts)]
<1> DEFINE k == Len(Shifts)
           next(i, x) == Or(x, x \div Power[Shifts[i]])
           g == [i \in 1 .. k |-> [x \in Nat |-> next(i, x)]]
           Is(f) == f = [i \in 0 .. k |-> IF i = 0 THEN v ELSE next(i, f[i - 1])]
           w == CHOOSE f : Is(f)
<1>1. k \in Nat
  BY WordAssumption, LenProperties, Zenon DEF WordAssumption
<1>2. \A i, x : next(i, x) \in Nat
  <2> SUFFICES ASSUME NEW m, NEW n PROVE Or(m, n) \in Nat
    BY Zenon
  <2>1. PICK low : OrBits(low, m, n) /\ Or(m, n) = low[Width]
    BY OrIs
  <2>2. Width \in 0 .. Width
    BY WidthIsNumber
  <2> QED
    BY <2>1, <2>2 DEF OrBits
<1>3. Smeared(v) = w[k]
  BY DEF Smeared
<1> HIDE DEF next, k
<1>4. \A i \in 1 .. k : i \in 0 .. k /\ i # 0 /\ i - 1 \in 0 .. k
  BY <1>1
<1>5. \A i \in 0 .. k : i # 0 => i \in 1 .. k
  BY <1>1
<1>6. g \in [1 .. k -> [Nat -> Nat]]
  BY <1>2
<1>7. PICK f \in [0 .. k -> Nat] : Steps(f, g, v, k)
  <2> HIDE DEF g
  <2> QED
    BY <1>1, <1>6, StepsExist
<1>8. \A i \in 1 .. k : f[i] = next(i, f[i - 1])
  <2> TAKE i \in 1 .. k
  <2>1. f[i] = g[i][f[i - 1]] /\ f[i - 1] \in Nat
    BY <1>4, <1>7, Zenon DEF Steps
  <2> QED
    BY <2>1
<1>9. Is(f)
  <2>1. f = [i \in 0 .. k |-> f[i]] /\ f[0] = v
    BY <1>7 DEF Steps
  <2>2. \A i \in 0 .. k : f[i] = IF i = 0 THEN v ELSE next(i, f[i - 1])
    BY <1>5, <1>8, <2>1, Zenon
  <2> QED
    BY <2>1, <2>2
<1> HIDE DEF Is
<1>10. Is(w)
  BY <1>9, Zenon
<1> HIDE DEF w
<1>11. w[0] = v /\ \A i \in 1 .. k : w[i] = next(i, w[i - 1])
  BY <1>1, <1>4, <1>10 DEF Is
<1>12. Smears(w, v)
  BY <1>11, Zenon DEF Smears, next, k
<1> QED
  BY <1>3, <1>12, Zenon DEF k

\* With half of the bits of a word the shifts reach each bit below the highest.
LEMMA SmearedTop ==
  ASSUME NEW v \in Nat, NEW e \in 0 .. Power[Len(Shifts)], e <= Width,
         v < Power[e], e # 0 => Power[e - 1] <= v
  PROVE  Smeared(v) = Power[e] - 1
<1> DEFINE k == Len(Shifts)
<1>1. PICK w : Smears(w, v) /\ Smeared(v) = w[k]
  BY SmearedIs
<1>2. /\ k \in Nat /\ k <= Width /\ Width \in Nat
      /\ \A i \in 1 .. k : Shifts[i] = Power[i - 1] /\ Shifts[i] \in 0 .. Width
  <2>1. Shifts \in Seq(1 .. Width) /\ k <= Width /\ \A i \in DOMAIN Shifts : Shifts[i] = Power[i - 1]
    BY WordAssumption DEF WordAssumption
  <2>2. k \in Nat /\ DOMAIN Shifts = 1 .. k
    BY <2>1, LenProperties, Zenon
  <2>4. \A i \in 1 .. k : Shifts[i] \in 1 .. Width
    BY <2>1, ElementOfSeq, Zenon
  <2> HIDE DEF k
  <2>3. \A x \in 1 .. Width : x \in 0 .. Width
    BY WidthIsNumber
  <2> QED
    BY <2>1, <2>2, <2>3, <2>4, WidthIsNumber, Zenon
<1> HIDE DEF k
<1>3. /\ \A i \in 0 .. Width : Power[i] \in Nat \ {0}
      /\ Power[0] = 1 /\ \A i \in 1 .. Width : Power[i] = 2 * Power[i - 1]
  BY <1>2, PowerIs
<1>4. e \in 0 .. Width /\ e \in Nat /\ e <= Power[k]
  BY <1>2, <1>3 DEF k
<1> DEFINE Q(i) == \E l \in 0 .. e : Top(w[i], e, l) /\ (l = 0 \/ l + Power[i] <= e)
           S == {i \in Nat : i <= k => Q(i)}
<1>5. Q(0)
  <2>1. w[0] = v
    BY <1>1, Zenon DEF Smears
  <2>2. CASE e = 0
    <3>1. v < Power[0] /\ Power[0] - Power[0] <= v
      BY <1>3, <2>2
    <3>3. Top(v, 0, 0)
      <4>1. 0 \in 0 .. Width /\ 0 \in 0 .. 0
        BY <1>2
      <4> QED
        BY <3>1, <4>1, Zenon DEF Top
    <3>2. 0 \in 0 .. e
      BY <1>4
    <3> QED
      BY <2>1, <2>2, <3>2, <3>3, Zenon
  <2>3. CASE e # 0
    <3>1. PICK l \in 0 .. e : l = e - 1 /\ l + 1 <= e /\ e \in 1 .. Width /\ l \in 0 .. Width
      <4>1. /\ e - 1 \in 0 .. e /\ e - 1 + 1 <= e
            /\ e \in 1 .. Width /\ e - 1 \in 0 .. Width
        BY <1>2, <1>4, <2>3
      <4> QED
        BY <4>1, Zenon
    <3>2. Power[e] = 2 * Power[l] /\ Power[l] <= v /\ Power[l] \in Nat \ {0}
      BY <1>3, <2>3, <3>1
    <3>3. Power[e] - Power[l] <= v
      BY <3>2
    <3>4. Top(v, e, l)
      BY <1>4, <3>3, Zenon DEF Top
    <3>5. l + Power[0] <= e
      BY <1>3, <3>1
    <3> QED
      BY <2>1, <3>4, <3>5, Zenon
  <2> QED
    BY <2>2, <2>3
<1>6. ASSUME NEW i \in Nat, i + 1 <= k, Q(i) PROVE Q(i + 1)
  <2>1. PICK h \in 1 .. k : h = i + 1 /\ h - 1 = i /\ h \in 1 .. Width /\ i \in 0 .. Width
    BY <1>2, <1>6
  <2>2. PICK lo \in 0 .. e : Top(w[i], e, lo) /\ (lo = 0 \/ lo + Power[i] <= e)
    BY <1>6
  <2> DEFINE s == Power[i]
  <2>3. Shifts[h] = s /\ s \in 0 .. Width
    BY <1>2, <2>1
  <2>4. w[h] = Or(w[h - 1], w[h - 1] \div Power[Shifts[h]])
    BY <1>1, Zenon DEF Smears, k
  <2>5. w[h] = Or(w[i], w[i] \div Power[s])
    BY <2>1, <2>3, <2>4, Zenon
  <2>6. PICK l \in 0 .. e : Top(w[h], e, l) /\ (l = 0 \/ l + s = lo)
    <3> HIDE DEF s
    <3>1. lo = 0 \/ lo + s <= e
      BY <2>2, Zenon DEF s
    <3>2. \E l \in 0 .. e : Top(Or(w[i], w[i] \div Power[s]), e, l) /\ (l = 0 \/ l + s = lo)
      <4>1. Top(w[i], e, lo) /\ s \in 0 .. Width
        BY <2>2, <2>3, Zenon
      <4> QED
        BY <3>1, <4>1, SmearStep
    <3> QED
      BY <2>5, <3>2, Zenon
  <2>7. Power[h] = 2 * s
    BY <1>3, <2>1
  <2>8. l = 0 \/ l + Power[h] <= e
    <3>1. s \in Nat
      BY <2>3, <1>2
    <3>2. lo = 0 \/ lo + s <= e
      BY <2>2
    <3> HIDE DEF s
    <3> QED
      BY <1>4, <2>6, <2>7, <3>1, <3>2
  <2>9. Q(h)
    BY <2>6, <2>8, Zenon
  <2> QED
    BY <2>1, <2>9, Zenon
<1> HIDE DEF Q
<1>7. S = Nat
  <2>1. S \in SUBSET Nat /\ 0 \in S /\ \A i \in S : i + 1 \in S
    BY <1>2, <1>5, <1>6
  <2> HIDE DEF S
  <2> QED
    BY <2>1, SetInduction, Zenon
<1>8. Q(k)
  <2>1. k \in S
    BY <1>2, <1>7, Zenon
  <2> QED
    BY <1>2, <2>1
<1>9. PICK l \in 0 .. e : Top(w[k], e, l) /\ (l = 0 \/ l + Power[k] <= e)
  BY <1>8 DEF Q
<1>10. l = 0
  <2>1. Power[k] \in Nat \ {0}
    BY <1>2, <1>3
  <2> QED
    BY <1>4, <1>9, <2>1
<1>11. w[k] \in Nat /\ w[k] < Power[e] /\ Power[e] - 1 <= w[k]
  BY <1>3, <1>9, <1>10, Zenon DEF Top
<1>12. Power[e] \in Nat
  BY <1>3, <1>4
<1>13. w[k] = Power[e] - 1
  BY <1>11, <1>12
<1> QED
  BY <1>1, <1>13, Zenon

\* next_power_of_2 gives the least power of two that is not below its argument.
LEMMA NextPowerIs ==
  ASSUME NEW n \in Counts
  PROVE  /\ next_power_of_2(n) \in Nat \ {0}
         /\ next_power_of_2(n) = Min({p \in {Power[i] : i \in 0 .. Width - 1} : p >= n})
<1> DEFINE h == Power[Len(Shifts)]
<1>1. Width = 2 * h /\ n \in 1 .. Power[Width \div 2] /\ Len(Shifts) \in 0 .. Width
  <2>1. /\ Width = 2 * h /\ Counts \subseteq 1 .. Power[Width \div 2]
        /\ Shifts \in Seq(1 .. Width) /\ Len(Shifts) <= Width
    BY WordAssumption DEF WordAssumption
  <2>2. Len(Shifts) \in Nat
    BY <2>1, LenProperties, Zenon
  <2> HIDE DEF h
  <2> QED
    BY <2>1, <2>2, WidthIsNumber
<1>2. h \in Nat \ {0}
  BY <1>1, PowerIs, WidthIsNumber
<1> HIDE DEF h
<1>3. Width \div 2 = h /\ h \in 0 .. Width /\ h < Width /\ Width \in 0 .. Width
  BY <1>1, <1>2
<1>4. \A i \in 0 .. Width : Power[i] \in Nat \ {0}
  BY PowerIs, WidthIsNumber
<1>5. PICK v \in Nat : v = n - 1 /\ n = v + 1 /\ n \in Nat /\ v < Power[h]
  <2>1. n \in 1 .. Power[h] /\ Power[h] \in Nat
    BY <1>1, <1>3, <1>4
  <2> QED
    BY <2>1
<1>6. PICK e \in 0 .. h : v < Power[e] /\ (e # 0 => Power[e - 1] <= v)
  BY <1>3, <1>5, HighestBit
<1>7. e \in 0 .. Width /\ e \in Nat /\ e < Width /\ e <= Width /\ e \in 0 .. Width - 1
  BY <1>3, <1>2
<1>8. Power[e] < Power[Width] /\ Power[e] \in Nat \ {0} /\ Power[Width] \in Nat \ {0}
  BY <1>3, <1>4, <1>7, PowerGrows
<1>9. Smeared(v) = Power[e] - 1
  BY <1>6, <1>7, SmearedTop, Zenon DEF h
<1>10. next_power_of_2(n) = Power[e]
  <2>1. \A x, y \in Nat : x < y => x % y = x
    OBVIOUS
  <2>2. v < Power[Width]
    BY <1>6, <1>8
  <2>3. (n - 1) % Power[Width] = v
    BY <1>5, <1>8, <2>1, <2>2, Zenon
  <2>4. Power[e] - 1 + 1 = Power[e]
    BY <1>8
  <2>5. Power[e] % Power[Width] = Power[e]
    BY <1>8, <2>1, Zenon
  <2> QED
    BY <1>9, <2>3, <2>4, <2>5, Zenon DEF next_power_of_2
<1> DEFINE S == {p \in {Power[i] : i \in 0 .. Width - 1} : p >= n}
<1>11. Power[e] \in S
  <2>1. Power[e] >= n
    BY <1>5, <1>6, <1>8
  <2> QED
    BY <1>7, <2>1
<1>12. ASSUME NEW p \in S PROVE Power[e] <= p
  <2>1. PICK i \in 0 .. Width - 1 : p = Power[i] /\ p >= n
    OBVIOUS
  <2>2. i \in 0 .. Width /\ i \in Nat
    BY <2>1, WidthIsNumber
  <2>3. Power[i] \in Nat
    BY <1>4, <2>2
  <2>4. CASE i < e
    <3>1. PICK d \in 0 .. Width : d = e - 1 /\ (i = d \/ i < d)
      <4>1. e - 1 \in 0 .. Width /\ (i = e - 1 \/ i < e - 1)
        BY <1>7, <2>2, <2>4, WidthIsNumber
      <4> QED
        BY <4>1, Zenon
    <3>2. Power[d] <= v /\ Power[d] \in Nat
      BY <1>4, <1>6, <1>7, <2>2, <2>4, <3>1
    <3>3. Power[i] <= Power[d]
      <4>1. CASE i = d
        BY <2>3, <4>1
      <4>2. CASE i < d
        <5>1. Power[i] < Power[d]
          BY <2>2, <3>1, <4>2, PowerGrows
        <5> QED
          BY <2>3, <3>2, <5>1
      <4> QED
        BY <3>1, <4>1, <4>2
    <3> QED
      BY <1>5, <2>1, <2>3, <3>2, <3>3
  <2>5. CASE i = e
    BY <1>8, <2>1, <2>5
  <2>6. CASE e < i
    <3>1. Power[e] < Power[i]
      BY <1>7, <2>2, <2>6, PowerGrows
    <3> QED
      BY <1>8, <2>1, <2>3, <3>1
  <2> QED
    BY <1>7, <2>2, <2>4, <2>5, <2>6
<1> HIDE DEF S
<1>13. S \in SUBSET Nat
  <2>1. \A i \in 0 .. Width - 1 : Power[i] \in Nat
    BY <1>4, WidthIsNumber
  <2> QED
    BY <2>1 DEF S
<1>14. Min(S) = Power[e]
  <2>1. Min(S) \in S /\ \A y \in S : Min(S) <= y
    BY <1>11, <1>13, MinIs
  <2>2. Min(S) \in Nat /\ Min(S) <= Power[e] /\ Power[e] <= Min(S)
    BY <1>11, <1>12, <1>13, <2>1
  <2> QED
    BY <1>8, <2>2
<1> QED
  BY <1>8, <1>10, <1>14, Zenon DEF S

-----------------------------------------------------------------------------
(* The capacity of a table.                                                  *)

\* What a table that is ready was asked for, and what it has.
CapacityAsked == Ready => count \in Counts /\ capacity = next_power_of_2(count)

\* cctable_init (table.c) makes as many buckets as the least power of two that is not below
\* count, so that masking a hash by capacity - 1 reaches each bucket.
THEOREM CapacityIsFit == Spec => []CapacityFits
<1>1. Init => CapacityAsked
  BY DEF Init, CapacityAsked, Ready
<1>2. CapacityAsked /\ [Next]_vars => CapacityAsked'
  <2> SUFFICES ASSUME CapacityAsked, [Next]_vars PROVE CapacityAsked'
    OBVIOUS
  <2>1. ASSUME count' = count, capacity' = capacity PROVE CapacityAsked'
    BY <2>1, Zenon DEF CapacityAsked, Ready
  <2>2. ASSUME NEW n \in Counts, NEW multiple \in BOOLEAN, cctable_init(n, multiple)
        PROVE  CapacityAsked'
    BY <2>2, Zenon DEF cctable_init, CapacityAsked
  <2>3. ASSUME NEW k \in Keys, NEW v \in Values, cctable_insert(k, v) PROVE CapacityAsked'
    BY <2>1, <2>3, Zenon DEF cctable_insert
  <2>4. ASSUME NEW k \in Keys, cctable_get(k) PROVE CapacityAsked'
    BY <2>1, <2>4 DEF cctable_get, table
  <2>5. CASE IterBegin
    BY <2>1, <2>5 DEF IterBegin, table
  <2>6. CASE IterVisit
    BY <2>1, <2>6 DEF IterVisit, table
  <2>7. CASE cctable_deinit
    <3>1. CASE DeinitEnd
      BY <3>1, Zenon DEF DeinitEnd, CapacityAsked, Ready
    <3>2. CASE ~DeinitEnd
      BY <2>1, <2>7, <3>2 DEF cctable_deinit, DeinitBegin, DeinitValue, DeinitBucket, table
    <3> QED
      BY <3>1, <3>2
  <2>8. CASE UNCHANGED vars
    BY <2>1, <2>8 DEF vars, table
  <2> QED
    BY <2>2, <2>3, <2>4, <2>5, <2>6, <2>7, <2>8, Zenon DEF Next
<1>3. CapacityAsked => CapacityFits
  BY NextPowerIs, Zenon DEF CapacityAsked, CapacityFits
<1> QED
  BY <1>1, <1>2, <1>3, PTL DEF Spec

USE TableAssumption DEF TableAssumption

-----------------------------------------------------------------------------
(* The inductive invariant.                                                  *)

NodeSet == [key : Keys, values : Seq(Values)]

Fates == {"out", "stored", "refused", "due", "left"}

TableTypes ==
  /\ hash \in [Keys -> Nat]
  /\ capacity \in Nat
  /\ buckets \in [1 .. capacity -> Seq(NodeSet)]
  /\ size \in Nat
  /\ allow_multiple \in BOOLEAN

\* Every node has values, is in the bucket of its key, and is the only one of its key.
Placed ==
  \A i \in 1 .. capacity : \A j \in 1 .. Len(buckets[i]) :
    /\ buckets[i][j].values # <<>>
    /\ BucketOf(buckets[i][j].key) = i
    /\ \A m \in 1 .. Len(buckets[i]) : buckets[i][m].key = buckets[i][j].key => m = j

\* A place of the table: a bucket, a node and a value of that.
IsPlace(i, j, n) == /\ i \in 1 .. capacity
                    /\ j \in 1 .. Len(buckets[i])
                    /\ n \in 1 .. Len(buckets[i][j].values)

ValueAt(i, j, n) == buckets[i][j].values[n]

\* No value is in two places.
Once == \A i, j, n, ii, jj, nn :
          /\ IsPlace(i, j, n) /\ IsPlace(ii, jj, nn)
          /\ ValueAt(i, j, n) = ValueAt(ii, jj, nn)
          => i = ii /\ j = jj /\ n = nn

\* A node of a table of single values has one.
Singles == ~allow_multiple => \A i, j, n : IsPlace(i, j, n) => n = 1

Counted == IsFiniteSet(Stored) /\ (clearing = 0 => size = Cardinality(Stored))

\* The loop of cctable_deinit leaves nothing behind it.
ClearingSound ==
  /\ clearing \in 0 .. capacity + 1
  /\ clearing # 0 => Ready
  /\ \A i \in 1 .. capacity : i < clearing => buckets[i] = <<>>

\* What is still in the table is what the destructor, if there is one, is still to be called with.
FatesSound ==
  /\ fate \in [Values -> Fates] /\ calls \in [Values -> Nat] /\ des \in BOOLEAN
  /\ DestroyedOnce
  /\ clearing # 0 => \A v \in Stored : fate[v] = IF des THEN "due" ELSE "left"

\* The keys with a node are those that were inserted.
MappedSound == Usable => \A k \in Keys : k \in mapped <=> Find(k) # None

TableSound == /\ TableTypes /\ Placed /\ Once /\ Singles /\ Counted
              /\ ClearingSound /\ FatesSound /\ MappedSound

-----------------------------------------------------------------------------
(* Sequences, and the search of a bucket.                                    *)

\* What is in front of a sequence.
LEMMA InFrontIs ==
  ASSUME NEW S, NEW s \in Seq(S), NEW e \in S, NEW r, r = <<e>> \o s
  PROVE  /\ r \in Seq(S) /\ Len(r) = Len(s) + 1 /\ r[1] = e
         /\ \A j \in 1 .. Len(s) : r[j + 1] = s[j]
         /\ \A j \in 2 .. Len(s) + 1 : r[j] = s[j - 1]
<1>1. <<e>> \in Seq(S) /\ Len(<<e>>) = 1 /\ <<e>>[1] = e /\ Len(s) \in Nat
  OBVIOUS
<1> DEFINE t == <<e>>
<1> HIDE DEF t
<1>2. t \in Seq(S) /\ Len(t) = 1 /\ t[1] = e /\ r = t \o s
  BY <1>1 DEF t
<1>3. /\ r \in Seq(S) /\ Len(r) = 1 + Len(s)
      /\ \A i \in 1 .. 1 + Len(s) : r[i] = IF i <= 1 THEN t[i] ELSE s[i - 1]
  BY <1>2, ConcatProperties
<1>4. ASSUME NEW j \in 1 .. Len(s) PROVE r[j + 1] = s[j]
  <2>1. j + 1 \in 1 .. 1 + Len(s) /\ ~(j + 1 <= 1) /\ (j + 1) - 1 = j
    BY <1>1
  <2> QED
    BY <1>3, <2>1
<1>5. ASSUME NEW j \in 2 .. Len(s) + 1 PROVE r[j] = s[j - 1]
  <2>1. j \in 1 .. 1 + Len(s) /\ ~(j <= 1)
    BY <1>1
  <2> QED
    BY <1>3, <2>1
<1> QED
  BY <1>1, <1>2, <1>3, <1>4, <1>5

\* Where the search of a bucket ends.
LEMMA NodeInIs ==
  ASSUME NEW s \in Seq(NodeSet), NEW k
  PROVE  /\ NodeIn(s, k) \in 0 .. Len(s)
         /\ NodeIn(s, k) = 0 <=> \A j \in 1 .. Len(s) : s[j].key # k
         /\ NodeIn(s, k) # 0 => s[NodeIn(s, k)].key = k
         /\ \A j \in 1 .. Len(s) : s[j].key = k => NodeIn(s, k) <= j
<1> DEFINE hits == {i \in DOMAIN s : s[i].key = k}
<1>1. DOMAIN s = 1 .. Len(s) /\ Len(s) \in Nat /\ NodeIn(s, k) = IF hits = {} THEN 0 ELSE Min(hits)
  BY DEF NodeIn
<1>2. hits \in SUBSET Nat
  BY <1>1
<1>3. hits # {} => Min(hits) \in hits /\ \A y \in hits : Min(hits) <= y
  <2> HIDE DEF hits
  <2> QED
    BY <1>2, MinIs
<1>4. CASE hits = {}
  BY <1>1, <1>4
<1>5. CASE hits # {}
  BY <1>1, <1>3, <1>5
<1> QED
  BY <1>4, <1>5

\* A key has a bucket.
LEMMA BucketIs ==
  ASSUME TableTypes, Ready, NEW k \in Keys
  PROVE  BucketOf(k) \in 1 .. capacity /\ buckets[BucketOf(k)] \in Seq(NodeSet)
<1>1. hash[k] \in Nat /\ capacity \in Nat \ {0}
  BY DEF TableTypes, Ready
<1>2. hash[k] % capacity \in 0 .. capacity - 1
  BY <1>1
<1>3. BucketOf(k) \in 1 .. capacity
  BY <1>1, <1>2 DEF BucketOf
<1> QED
  BY <1>3 DEF TableTypes

\* What a lookup finds.
LEMMA FindIs ==
  ASSUME TableTypes, Placed, Ready, NEW k \in Keys
  PROVE  LET s == buckets[BucketOf(k)]
         IN  /\ Find(k) = None <=> \A j \in 1 .. Len(s) : s[j].key # k
             /\ \A j \in 1 .. Len(s) : s[j].key = k => /\ NodeIn(s, k) = j
                                                       /\ Find(k) = s[j].values
                                                       /\ Find(k) \in Seq(Values) \ {<<>>}
<1> DEFINE b == BucketOf(k)
           s == buckets[b]
           m == NodeIn(s, k)
<1>1. b \in 1 .. capacity /\ s \in Seq(NodeSet)
  BY BucketIs
<1>2. Find(k) = IF m = 0 THEN None ELSE s[m].values
  BY DEF Find
<1>3. ASSUME NEW j \in 1 .. Len(s), NEW i \in 1 .. Len(s), s[j].key = k, s[i].key = k PROVE i = j
  BY <1>1, <1>3 DEF Placed
<1>4. ASSUME NEW j \in 1 .. Len(s) PROVE s[j].values \in Seq(Values) \ {<<>>}
  <2>1. s[j] \in NodeSet
    BY <1>1, <1>4
  <2> QED
    BY <1>1, <1>4, <2>1 DEF Placed, NodeSet
<1> HIDE DEF s, b
<1>5. /\ m \in 0 .. Len(s)
      /\ m = 0 <=> \A j \in 1 .. Len(s) : s[j].key # k
      /\ m # 0 => s[m].key = k
  BY <1>1, NodeInIs
<1> HIDE DEF m
<1>6. Len(s) \in Nat
  BY <1>1
<1>7. CASE m = 0
  BY <1>2, <1>5, <1>7 DEF m, s, b
<1>8. CASE m # 0
  <2>1. m \in 1 .. Len(s) /\ s[m].key = k
    BY <1>5, <1>6, <1>8
  <2>2. \A j \in 1 .. Len(s) : s[j].key = k => j = m
    BY <1>3, <2>1
  <2>3. Find(k) = s[m].values /\ Find(k) \in Seq(Values) \ {<<>>}
    BY <1>2, <1>4, <1>8, <2>1
  <2>4. Find(k) # None
    BY <2>3
  <2> QED
    BY <2>1, <2>2, <2>3, <2>4 DEF m, s, b
<1> QED
  BY <1>7, <1>8

ValuesOf(bs) == UNION {UNION {ToSet(b[j].values) : j \in DOMAIN b} : b \in ToSet(bs)}

Has(c, bs, v) == \E i, j, n : /\ /\ i \in 1 .. c
                                 /\ j \in 1 .. Len(bs[i])
                                 /\ n \in 1 .. Len(bs[i][j].values)
                              /\ bs[i][j].values[n] = v

\* What is in buckets is in a place of them.
LEMMA ValuesOfIs ==
  ASSUME NEW c \in Nat, NEW bs \in [1 .. c -> Seq(NodeSet)], NEW v
  PROVE  v \in ValuesOf(bs) <=> Has(c, bs, v)
<1> DEFINE In(b) == UNION {ToSet(b[j].values) : j \in DOMAIN b}
<1>1. v \in ValuesOf(bs) <=> \E i \in 1 .. c : v \in In(bs[i])
  <2>1. v \in ValuesOf(bs) <=> \E b \in ToSet(bs) : v \in In(b)
    BY DEF ValuesOf
  <2> HIDE DEF In
  <2> QED
    BY <2>1 DEF ToSet
<1>2. \A b : v \in In(b) <=> \E j \in DOMAIN b : v \in ToSet(b[j].values)
  OBVIOUS
<1> HIDE DEF In
<1>3. \A t : v \in ToSet(t) <=> \E n \in DOMAIN t : t[n] = v
  BY DEF ToSet
<1>4. \A i : v \in In(bs[i]) <=>
        \E j \in DOMAIN bs[i] : \E n \in DOMAIN bs[i][j].values : bs[i][j].values[n] = v
  BY <1>2, <1>3
<1>5. ASSUME NEW i \in 1 .. c
      PROVE  /\ DOMAIN bs[i] = 1 .. Len(bs[i])
             /\ \A j \in 1 .. Len(bs[i]) : DOMAIN bs[i][j].values = 1 .. Len(bs[i][j].values)
  <2>1. bs[i] \in Seq(NodeSet)
    OBVIOUS
  <2>2. \A j \in 1 .. Len(bs[i]) : bs[i][j] \in NodeSet
    BY <2>1
  <2>3. \A j \in 1 .. Len(bs[i]) : bs[i][j].values \in Seq(Values)
    BY <2>2 DEF NodeSet
  <2> QED
    BY <2>1, <2>3
<1>6. ASSUME NEW i \in 1 .. c
      PROVE  v \in In(bs[i]) <=> \E j \in 1 .. Len(bs[i]) :
                                   \E n \in 1 .. Len(bs[i][j].values) : bs[i][j].values[n] = v
  BY <1>4, <1>5
<1>7. ASSUME v \in ValuesOf(bs) PROVE Has(c, bs, v)
  <2>1. PICK i \in 1 .. c : v \in In(bs[i])
    BY <1>1, <1>7
  <2>2. PICK j \in 1 .. Len(bs[i]) : \E n \in 1 .. Len(bs[i][j].values) : bs[i][j].values[n] = v
    BY <1>6, <2>1, Zenon
  <2> QED
    BY <2>2 DEF Has
<1>8. ASSUME Has(c, bs, v) PROVE v \in ValuesOf(bs)
  <2>1. PICK i, j, n : /\ i \in 1 .. c /\ j \in 1 .. Len(bs[i]) /\ n \in 1 .. Len(bs[i][j].values)
                       /\ bs[i][j].values[n] = v
    BY <1>8, Zenon DEF Has
  <2>2. v \in In(bs[i])
    BY <1>6, <2>1
  <2> QED
    BY <1>1, <2>1, <2>2
<1> QED
  BY <1>7, <1>8

\* What is in the table is in its places.
LEMMA StoredIs ==
  ASSUME TableTypes, NEW v
  PROVE  v \in Stored <=> \E i, j, n : IsPlace(i, j, n) /\ ValueAt(i, j, n) = v
<1>1. capacity \in Nat /\ buckets \in [1 .. capacity -> Seq(NodeSet)]
  BY DEF TableTypes
<1>2. Stored = ValuesOf(buckets)
  BY DEF Stored, ValuesOf
<1>3. v \in ValuesOf(buckets) <=> Has(capacity, buckets, v)
  BY <1>1, ValuesOfIs
<1>4. Has(capacity, buckets, v) <=> \E i, j, n : IsPlace(i, j, n) /\ ValueAt(i, j, n) = v
  BY Zenon DEF Has, IsPlace, ValueAt
<1> QED
  BY <1>2, <1>3, <1>4, Zenon

\* So it is after a step.
LEMMA StoredWillBe ==
  ASSUME TableTypes', NEW v
  PROVE  v \in Stored' <=> \E i, j, n : IsPlace(i, j, n)' /\ ValueAt(i, j, n)' = v
<1>1. capacity' \in Nat /\ buckets' \in [1 .. capacity' -> Seq(NodeSet)]
  BY DEF TableTypes
<1>2. Stored' = ValuesOf(buckets')
  BY DEF Stored, ValuesOf
<1>3. v \in ValuesOf(buckets') <=> Has(capacity', buckets', v)
  BY <1>1, ValuesOfIs
<1>4. Has(capacity', buckets', v) <=> \E i, j, n : IsPlace(i, j, n)' /\ ValueAt(i, j, n)' = v
  BY Zenon DEF Has, IsPlace, ValueAt
<1> QED
  BY <1>2, <1>3, <1>4, Zenon

-----------------------------------------------------------------------------
(* What an insertion does to the places of the values.                       *)

\* How far the nodes of the bucket i move when the bucket b gets a node in front,
\* and the values of the node j of it when the node m of b gets a value in front.
NodeShift(fresh, b, i) == IF fresh /\ i = b THEN 1 ELSE 0

ValueShift(fresh, b, m, i, j) == IF ~fresh /\ i = b /\ j = m THEN 1 ELSE 0

\* One value more, at the first place of a node that is new or that was there, and
\* every other value where it was but for the shift.
Grown(fresh, b, m, v) ==
  /\ IsPlace(b, m, 1)' /\ ValueAt(b, m, 1)' = v
  /\ \A i, j, n : IsPlace(i, j, n) =>
       /\ IsPlace(i, j + NodeShift(fresh, b, i), n + ValueShift(fresh, b, m, i, j))'
       /\ ValueAt(i, j + NodeShift(fresh, b, i), n + ValueShift(fresh, b, m, i, j))' = ValueAt(i, j, n)
       /\ buckets'[i][j + NodeShift(fresh, b, i)].key = buckets[i][j].key
  /\ \A i, j, n : IsPlace(i, j, n)' =>
       \/ i = b /\ j = m /\ n = 1
       \/ \E jj, nn : /\ IsPlace(i, jj, nn)
                      /\ j = jj + NodeShift(fresh, b, i)
                      /\ n = nn + ValueShift(fresh, b, m, i, jj)

\* A new node.
LEMMA NewNodeGrows ==
  ASSUME TableTypes, Placed, Ready, NEW k \in Keys, NEW v \in Values, NewNode(k, v),
         UNCHANGED <<hash, capacity, allow_multiple>>, NEW b, b = BucketOf(k)
  PROVE  TableTypes' /\ Placed' /\ Grown(TRUE, b, 1, v)
<1> DEFINE s == buckets[b]
           e == [key |-> k, values |-> <<v>>]
           t == <<e>> \o s
<1>1. b \in 1 .. capacity /\ s \in Seq(NodeSet)
  BY BucketIs
<1>2. e \in NodeSet /\ e.key = k /\ e.values = <<v>> /\ Len(e.values) = 1 /\ e.values[1] = v
  BY DEF NodeSet
<1>3. \A j \in 1 .. Len(s) : s[j].key # k
  BY FindIs DEF NewNode
<1>4. /\ buckets' = [buckets EXCEPT ![b] = t]
      /\ size' = size + 1
      /\ hash' = hash /\ capacity' = capacity /\ allow_multiple' = allow_multiple
  BY DEF NewNode
<1> HIDE DEF e
<1>5. /\ t \in Seq(NodeSet) /\ Len(t) = Len(s) + 1 /\ t[1] = e
      /\ \A j \in 1 .. Len(s) : t[j + 1] = s[j]
      /\ \A j \in 2 .. Len(s) + 1 : t[j] = s[j - 1]
  <2> HIDE DEF s
  <2>1. PICK r : r = t
    OBVIOUS
  <2> HIDE DEF t
  <2>2. r = <<e>> \o s
    BY <2>1 DEF t
  <2> QED
    BY <1>1, <1>2, <2>1, <2>2, InFrontIs
<1> HIDE DEF t
<1>6. /\ buckets' \in [1 .. capacity -> Seq(NodeSet)]
      /\ buckets'[b] = t /\ \A i \in 1 .. capacity : i # b => buckets'[i] = buckets[i]
  BY <1>1, <1>4, <1>5 DEF TableTypes
<1>7. TableTypes'
  BY <1>4, <1>6 DEF TableTypes
<1>8. \A q : BucketOf(q)' = BucketOf(q)
  BY <1>4 DEF BucketOf
<1>9. Len(s) \in Nat /\ capacity \in Nat
  BY <1>1 DEF TableTypes
<1>10. Placed'
  <2> SUFFICES ASSUME NEW i \in 1 .. capacity, NEW j \in 1 .. Len(buckets'[i])
               PROVE  /\ buckets'[i][j].values # <<>>
                      /\ BucketOf(buckets'[i][j].key) = i
                      /\ \A m \in 1 .. Len(buckets'[i]) : buckets'[i][m].key = buckets'[i][j].key => m = j
    BY <1>4, <1>8 DEF Placed
  <2>1. CASE i # b
    BY <1>6, <2>1 DEF Placed
  <2>2. CASE i = b /\ j = 1
    <3>1. buckets'[i] = t /\ t[j] = e
      BY <1>5, <1>6, <2>2
    <3>2. e.values # <<>>
      BY <1>2
    <3>3. ASSUME NEW m \in 1 .. Len(t), m # 1 PROVE t[m].key # k
      <4>1. m \in 2 .. Len(s) + 1 /\ m - 1 \in 1 .. Len(s)
        BY <1>5, <1>9, <3>3
      <4> QED
        BY <1>3, <1>5, <4>1
    <3> QED
      BY <1>2, <2>2, <3>1, <3>2, <3>3
  <2>3. CASE i = b /\ j # 1
    <3>1. buckets'[i] = t /\ j \in 2 .. Len(s) + 1 /\ j - 1 \in 1 .. Len(s)
      BY <1>5, <1>6, <1>9, <2>3
    <3>2. t[j] = s[j - 1]
      BY <1>5, <3>1
    <3>3. /\ s[j - 1].values # <<>> /\ BucketOf(s[j - 1].key) = b /\ s[j - 1].key # k
          /\ \A m \in 1 .. Len(s) : s[m].key = s[j - 1].key => m = j - 1
      BY <1>1, <1>3, <3>1 DEF Placed
    <3>4. ASSUME NEW m \in 1 .. Len(t), t[m].key = t[j].key PROVE m = j
      <4>1. m # 1
        BY <1>2, <1>5, <3>2, <3>3, <3>4
      <4>2. m \in 2 .. Len(s) + 1 /\ m - 1 \in 1 .. Len(s)
        BY <1>5, <1>9, <4>1
      <4>3. m - 1 = j - 1
        BY <1>5, <3>2, <3>3, <3>4, <4>2
      <4> QED
        BY <3>1, <4>2, <4>3
    <3> QED
      BY <2>3, <3>1, <3>2, <3>3, <3>4
  <2> QED
    BY <2>1, <2>2, <2>3
<1>11. ASSUME NEW i, NEW j, NEW n, IsPlace(i, j, n)
       PROVE  /\ IsPlace(i, j + NodeShift(TRUE, b, i), n + ValueShift(TRUE, b, 1, i, j))'
              /\ ValueAt(i, j + NodeShift(TRUE, b, i), n + ValueShift(TRUE, b, 1, i, j))' = ValueAt(i, j, n)
              /\ buckets'[i][j + NodeShift(TRUE, b, i)].key = buckets[i][j].key
  <2>1. i \in 1 .. capacity /\ j \in 1 .. Len(buckets[i]) /\ n \in 1 .. Len(buckets[i][j].values)
    BY <1>11 DEF IsPlace
  <2> DEFINE d == j + NodeShift(TRUE, b, i)
             w == n + ValueShift(TRUE, b, 1, i, j)
  <2>2. w = n
    BY <2>1 DEF ValueShift
  <2>3. d \in 1 .. Len(buckets'[i]) /\ buckets'[i][d] = buckets[i][j]
    <3>1. CASE i = b
      <4>1. j \in 1 .. Len(s) /\ d = j + 1 /\ j + 1 \in 1 .. Len(t)
        BY <1>5, <1>9, <2>1, <3>1 DEF NodeShift
      <4>2. buckets'[i] = t /\ t[j + 1] = s[j]
        BY <1>5, <1>6, <3>1, <4>1
      <4> QED
        BY <3>1, <4>1, <4>2
    <3>2. CASE i # b
      <4>1. d = j
        BY <2>1, <3>2 DEF NodeShift
      <4>2. buckets'[i] = buckets[i]
        BY <1>6, <2>1, <3>2
      <4> QED
        BY <2>1, <4>1, <4>2
    <3> QED
      BY <3>1, <3>2
  <2> HIDE DEF d, w
  <2>4. IsPlace(i, d, w)' /\ ValueAt(i, d, w)' = ValueAt(i, j, n)
    BY <1>4, <2>1, <2>2, <2>3 DEF IsPlace, ValueAt
  <2> QED
    BY <2>3, <2>4 DEF d, w
<1>12. ASSUME NEW i, NEW j, NEW n, IsPlace(i, j, n)'
       PROVE  \/ i = b /\ j = 1 /\ n = 1
              \/ \E jj, nn : /\ IsPlace(i, jj, nn)
                             /\ j = jj + NodeShift(TRUE, b, i)
                             /\ n = nn + ValueShift(TRUE, b, 1, i, jj)
  <2>1. i \in 1 .. capacity /\ j \in 1 .. Len(buckets'[i]) /\ n \in 1 .. Len(buckets'[i][j].values)
    BY <1>4, <1>12 DEF IsPlace
  <2>2. \A jj : n = n + ValueShift(TRUE, b, 1, i, jj)
    BY <2>1 DEF ValueShift
  <2>3. CASE i # b
    <3>1. j = j + NodeShift(TRUE, b, i) /\ buckets'[i] = buckets[i]
      BY <1>6, <2>1, <2>3 DEF NodeShift
    <3>2. IsPlace(i, j, n)
      BY <2>1, <3>1 DEF IsPlace
    <3> QED
      BY <2>2, <3>1, <3>2
  <2>4. CASE i = b /\ j = 1
    <3>1. buckets'[i][j] = e
      BY <1>5, <1>6, <2>4
    <3>2. n = 1
      <4>1. n \in 1 .. Len(e.values)
        BY <2>1, <3>1
      <4> QED
        BY <1>2, <4>1
    <3> QED
      BY <2>4, <3>2
  <2>5. CASE i = b /\ j # 1
    <3>1. j \in 2 .. Len(s) + 1 /\ j - 1 \in 1 .. Len(s) /\ j = (j - 1) + NodeShift(TRUE, b, i)
      BY <1>5, <1>6, <1>9, <2>1, <2>5 DEF NodeShift
    <3>2. buckets'[i][j] = buckets[i][j - 1]
      BY <1>5, <1>6, <2>5, <3>1
    <3>3. IsPlace(i, j - 1, n)
      BY <2>1, <2>5, <3>1, <3>2 DEF IsPlace
    <3> QED
      BY <2>2, <3>1, <3>3
  <2> QED
    BY <2>3, <2>4, <2>5
<1>13. IsPlace(b, 1, 1)' /\ ValueAt(b, 1, 1)' = v
  <2>1. 1 \in 1 .. Len(t) /\ 1 \in 1 .. Len(t[1].values) /\ t[1].values[1] = v
    BY <1>2, <1>5, <1>9
  <2> QED
    BY <1>1, <1>4, <1>6, <2>1 DEF IsPlace, ValueAt
<1>14. Grown(TRUE, b, 1, v)
  BY <1>11, <1>12, <1>13 DEF Grown
<1> QED
  BY <1>7, <1>10, <1>14

\* A value in front of those of a node.
LEMMA InFrontGrows ==
  ASSUME TableTypes, Placed, Ready, NEW k \in Keys, NEW v \in Values,
         insert_many(k, v), Find(k) # None, UNCHANGED <<hash, capacity, allow_multiple>>,
         NEW b, b = BucketOf(k), NEW m, m = NodeIn(buckets[b], k)
  PROVE  TableTypes' /\ Placed' /\ Grown(FALSE, b, m, v)
<1> DEFINE s == buckets[b]
           vs == s[m].values
           us == <<v>> \o vs
           e == [s[m] EXCEPT !.values = us]
           t == [s EXCEPT ![m] = e]
<1>1. b \in 1 .. capacity /\ s \in Seq(NodeSet)
  BY BucketIs
<1>2. m \in 1 .. Len(s) /\ s[m].key = k
  <2>1. PICK j \in 1 .. Len(s) : s[j].key = k
    BY FindIs
  <2>2. NodeIn(s, k) = j
    BY <2>1, FindIs
  <2> QED
    BY <2>1, <2>2
<1>3. s[m] \in NodeSet /\ vs \in Seq(Values) /\ Len(vs) \in Nat /\ Len(s) \in Nat
  <2>1. s[m] \in NodeSet
    BY <1>1, <1>2
  <2> QED
    BY <1>1, <2>1 DEF NodeSet
<1>4. /\ buckets' = [buckets EXCEPT ![b] = t]
      /\ size' = size + 1
      /\ hash' = hash /\ capacity' = capacity /\ allow_multiple' = allow_multiple
  BY DEF insert_many, NewNode, InFront
<1> HIDE DEF vs
<1>5. /\ us \in Seq(Values) /\ Len(us) = Len(vs) + 1 /\ us[1] = v
      /\ \A n \in 1 .. Len(vs) : us[n + 1] = vs[n]
      /\ \A n \in 2 .. Len(vs) + 1 : us[n] = vs[n - 1]
  BY <1>3, InFrontIs
<1> HIDE DEF us
<1>6. e \in NodeSet /\ e.key = k /\ e.values = us
  BY <1>2, <1>3, <1>5 DEF NodeSet
<1> HIDE DEF e
<1>7. /\ t \in Seq(NodeSet) /\ Len(t) = Len(s) /\ t[m] = e
      /\ \A j \in 1 .. Len(s) : j # m => t[j] = s[j]
  BY <1>1, <1>2, <1>6
<1> HIDE DEF t
<1>8. /\ buckets' \in [1 .. capacity -> Seq(NodeSet)]
      /\ buckets'[b] = t /\ \A i \in 1 .. capacity : i # b => buckets'[i] = buckets[i]
  <2>1. buckets \in [1 .. capacity -> Seq(NodeSet)]
    BY DEF TableTypes
  <2> HIDE DEF s
  <2> QED
    BY <1>1, <1>4, <1>7, <2>1
<1>9. TableTypes'
  BY <1>4, <1>8 DEF TableTypes
<1>10. \A q : BucketOf(q)' = BucketOf(q)
  BY <1>4 DEF BucketOf
<1>11. ASSUME NEW i \in 1 .. capacity
       PROVE  /\ Len(buckets'[i]) = Len(buckets[i])
              /\ \A j \in 1 .. Len(buckets[i]) :
                   /\ buckets'[i][j].key = buckets[i][j].key
                   /\ i = b /\ j = m => buckets'[i][j].values = us /\ buckets[i][j].values = vs
                   /\ ~(i = b /\ j = m) => buckets'[i][j] = buckets[i][j]
  <2>1. CASE i # b
    BY <1>8, <2>1
  <2>2. CASE i = b
    <3>1. buckets'[i] = t /\ buckets[i] = s
      BY <1>8, <2>2
    <3>2. t[m].key = s[m].key /\ t[m].values = us /\ s[m].values = vs
      BY <1>2, <1>6, <1>7 DEF vs
    <3>3. Len(t) = Len(s) /\ \A j \in 1 .. Len(s) : j # m => t[j] = s[j]
      BY <1>7
    <3>4. ASSUME NEW j \in 1 .. Len(s)
          PROVE  /\ t[j].key = s[j].key
                 /\ j = m => t[j].values = us /\ s[j].values = vs
                 /\ j # m => t[j] = s[j]
      BY <3>2, <3>3
    <3> HIDE DEF s
    <3> QED
      BY <2>2, <3>1, <3>3, <3>4
  <2> QED
    BY <2>1, <2>2
<1>12. Placed'
  <2> SUFFICES ASSUME NEW i \in 1 .. capacity, NEW j \in 1 .. Len(buckets'[i])
               PROVE  /\ buckets'[i][j].values # <<>>
                      /\ BucketOf(buckets'[i][j].key) = i
                      /\ \A l \in 1 .. Len(buckets'[i]) : buckets'[i][l].key = buckets'[i][j].key => l = j
    BY <1>4, <1>10 DEF Placed
  <2>1. j \in 1 .. Len(buckets[i]) /\ buckets'[i][j].key = buckets[i][j].key
    BY <1>11
  <2>2. buckets'[i][j].values # <<>>
    <3>1. us # <<>>
      BY <1>3, <1>5
    <3>2. CASE i = b /\ j = m
      BY <1>11, <2>1, <3>1, <3>2
    <3>3. CASE ~(i = b /\ j = m)
      <4>1. buckets[i][j].values # <<>>
        BY <2>1 DEF Placed
      <4> QED
        BY <1>11, <2>1, <3>3, <4>1
    <3> QED
      BY <3>2, <3>3
  <2>3. \A l \in 1 .. Len(buckets'[i]) : l \in 1 .. Len(buckets[i]) /\ buckets'[i][l].key = buckets[i][l].key
    BY <1>11
  <2> QED
    BY <2>1, <2>2, <2>3 DEF Placed
<1>13. ASSUME NEW i, NEW j, NEW n, IsPlace(i, j, n)
       PROVE  /\ IsPlace(i, j + NodeShift(FALSE, b, i), n + ValueShift(FALSE, b, m, i, j))'
              /\ ValueAt(i, j + NodeShift(FALSE, b, i), n + ValueShift(FALSE, b, m, i, j))' = ValueAt(i, j, n)
              /\ buckets'[i][j + NodeShift(FALSE, b, i)].key = buckets[i][j].key
  <2>1. i \in 1 .. capacity /\ j \in 1 .. Len(buckets[i]) /\ n \in 1 .. Len(buckets[i][j].values)
    BY <1>13 DEF IsPlace
  <2> DEFINE d == j + NodeShift(FALSE, b, i)
             w == n + ValueShift(FALSE, b, m, i, j)
  <2>2. d = j /\ j \in 1 .. Len(buckets'[i]) /\ buckets'[i][j].key = buckets[i][j].key
    BY <1>11, <2>1 DEF NodeShift
  <2>3. w \in 1 .. Len(buckets'[i][j].values) /\ buckets'[i][j].values[w] = buckets[i][j].values[n]
    <3>1. CASE i = b /\ j = m
      <4>1. w = n + 1 /\ buckets'[i][j].values = us /\ buckets[i][j].values = vs
        BY <1>11, <2>1, <3>1 DEF ValueShift
      <4>2. n \in 1 .. Len(vs) /\ n + 1 \in 1 .. Len(us)
        BY <1>3, <1>5, <2>1, <4>1
      <4> QED
        BY <1>5, <4>1, <4>2
    <3>2. CASE ~(i = b /\ j = m)
      <4>1. w = n /\ buckets'[i][j] = buckets[i][j]
        BY <1>11, <2>1, <3>2 DEF ValueShift
      <4> QED
        BY <2>1, <4>1
    <3> QED
      BY <3>1, <3>2
  <2> HIDE DEF d, w
  <2>4. IsPlace(i, d, w)' /\ ValueAt(i, d, w)' = ValueAt(i, j, n)
    BY <1>4, <2>1, <2>2, <2>3 DEF IsPlace, ValueAt
  <2> QED
    BY <2>2, <2>4 DEF d, w
<1>14. ASSUME NEW i, NEW j, NEW n, IsPlace(i, j, n)'
       PROVE  \/ i = b /\ j = m /\ n = 1
              \/ \E jj, nn : /\ IsPlace(i, jj, nn)
                             /\ j = jj + NodeShift(FALSE, b, i)
                             /\ n = nn + ValueShift(FALSE, b, m, i, jj)
  <2>1. i \in 1 .. capacity /\ j \in 1 .. Len(buckets'[i]) /\ n \in 1 .. Len(buckets'[i][j].values)
    BY <1>4, <1>14 DEF IsPlace
  <2>2. j \in 1 .. Len(buckets[i]) /\ j = j + NodeShift(FALSE, b, i)
    BY <1>11, <2>1 DEF NodeShift
  <2>3. CASE ~(i = b /\ j = m)
    <3>1. n = n + ValueShift(FALSE, b, m, i, j) /\ buckets'[i][j] = buckets[i][j]
      BY <1>11, <2>1, <2>2, <2>3 DEF ValueShift
    <3>2. IsPlace(i, j, n)
      BY <2>1, <2>2, <3>1 DEF IsPlace
    <3> QED
      BY <2>2, <3>1, <3>2
  <2>4. CASE i = b /\ j = m /\ n # 1
    <3>1. buckets'[i][j].values = us /\ buckets[i][j].values = vs
      BY <1>11, <2>1, <2>2, <2>4
    <3>2. n - 1 \in 1 .. Len(vs) /\ n = (n - 1) + ValueShift(FALSE, b, m, i, j)
      BY <1>3, <1>5, <2>1, <2>4, <3>1 DEF ValueShift
    <3>3. IsPlace(i, j, n - 1)
      BY <2>1, <2>2, <3>1, <3>2 DEF IsPlace
    <3> QED
      BY <2>2, <3>2, <3>3
  <2> QED
    BY <2>3, <2>4
<1>15. IsPlace(b, m, 1)' /\ ValueAt(b, m, 1)' = v
  <2>1. m \in 1 .. Len(buckets'[b]) /\ buckets'[b][m].values = us /\ 1 \in 1 .. Len(us)
    BY <1>1, <1>2, <1>3, <1>5, <1>11
  <2> QED
    BY <1>1, <1>4, <1>5, <2>1 DEF IsPlace, ValueAt
<1>16. Grown(FALSE, b, m, v)
  BY <1>13, <1>14, <1>15 DEF Grown
<1> QED
  BY <1>9, <1>12, <1>16

\* An insertion adds its value to what is stored, and keeps every other in one place.
LEMMA GrownStored ==
  ASSUME TableTypes, TableTypes', Once, NEW fresh \in BOOLEAN, NEW b, NEW m, NEW v, v \notin Stored,
         Grown(fresh, b, m, v)
  PROVE  Stored' = Stored \cup {v} /\ Once'
<1>1. \A i, j, n : IsPlace(i, j, n) =>
        /\ IsPlace(i, j + NodeShift(fresh, b, i), n + ValueShift(fresh, b, m, i, j))'
        /\ ValueAt(i, j + NodeShift(fresh, b, i), n + ValueShift(fresh, b, m, i, j))' = ValueAt(i, j, n)
  BY DEF Grown
<1>2. ASSUME NEW i, NEW j, NEW n, IsPlace(i, j, n)'
      PROVE  \/ i = b /\ j = m /\ n = 1 /\ ValueAt(i, j, n)' = v
             \/ \E jj, nn : /\ IsPlace(i, jj, nn) /\ ValueAt(i, jj, nn) = ValueAt(i, j, n)'
                            /\ j = jj + NodeShift(fresh, b, i)
                            /\ n = nn + ValueShift(fresh, b, m, i, jj)
  <2>1. CASE i = b /\ j = m /\ n = 1
    BY <2>1 DEF Grown
  <2>2. CASE \E jj, nn : /\ IsPlace(i, jj, nn)
                         /\ j = jj + NodeShift(fresh, b, i)
                         /\ n = nn + ValueShift(fresh, b, m, i, jj)
    <3>1. PICK jj, nn : /\ IsPlace(i, jj, nn)
                        /\ j = jj + NodeShift(fresh, b, i)
                        /\ n = nn + ValueShift(fresh, b, m, i, jj)
      BY <2>2
    <3>2. ValueAt(i, jj, nn) = ValueAt(i, j, n)'
      BY <1>1, <3>1
    <3> QED
      BY <3>1, <3>2
  <2> QED
    BY <1>2, <2>1, <2>2 DEF Grown
<1>3. Stored' = Stored \cup {v}
  <2>1. ASSUME NEW w \in Stored' PROVE w \in Stored \cup {v}
    <3>1. PICK i, j, n : IsPlace(i, j, n)' /\ ValueAt(i, j, n)' = w
      BY <2>1, StoredWillBe
    <3>2. CASE w = v
      BY <3>2
    <3>3. CASE \E jj, nn : IsPlace(i, jj, nn) /\ ValueAt(i, jj, nn) = w
      BY <3>3, StoredIs
    <3> QED
      BY <1>2, <3>1, <3>2, <3>3
  <2>2. v \in Stored'
    BY StoredWillBe DEF Grown
  <2>3. ASSUME NEW w \in Stored PROVE w \in Stored'
    <3>1. PICK i, j, n : IsPlace(i, j, n) /\ ValueAt(i, j, n) = w
      BY <2>3, StoredIs
    <3> QED
      BY <1>1, <3>1, StoredWillBe
  <2> QED
    BY <2>1, <2>2, <2>3
<1>4. Once'
  <2> SUFFICES ASSUME NEW i, NEW j, NEW n, NEW ii, NEW jj, NEW nn,
                      IsPlace(i, j, n)', IsPlace(ii, jj, nn)',
                      ValueAt(i, j, n)' = ValueAt(ii, jj, nn)'
               PROVE  i = ii /\ j = jj /\ n = nn
    BY DEF Once
  <2> DEFINE Old(x, y, z, p, q) == /\ IsPlace(x, p, q) /\ ValueAt(x, p, q) = ValueAt(x, y, z)'
                                   /\ y = p + NodeShift(fresh, b, x)
                                   /\ z = q + ValueShift(fresh, b, m, x, p)
  <2>1. \A x, p, q : IsPlace(x, p, q) => ValueAt(x, p, q) # v
    BY StoredIs
  <2>2. \/ i = b /\ j = m /\ n = 1 /\ ValueAt(i, j, n)' = v
        \/ \E p, q : Old(i, j, n, p, q)
    BY <1>2
  <2>3. \/ ii = b /\ jj = m /\ nn = 1 /\ ValueAt(ii, jj, nn)' = v
        \/ \E p, q : Old(ii, jj, nn, p, q)
    BY <1>2
  <2>4. CASE ValueAt(i, j, n)' = v
    BY <2>1, <2>2, <2>3, <2>4
  <2>5. CASE ValueAt(i, j, n)' # v
    <3>1. PICK p, q : Old(i, j, n, p, q)
      BY <2>2, <2>5
    <3>2. PICK pp, qq : Old(ii, jj, nn, pp, qq)
      BY <2>3, <2>5
    <3>3. i = ii /\ p = pp /\ q = qq
      BY <3>1, <3>2 DEF Once
    <3> QED
      BY <3>1, <3>2, <3>3
  <2> QED
    BY <2>4, <2>5
<1> QED
  BY <1>3, <1>4

-----------------------------------------------------------------------------
(* What an insertion does to the lookups.                                    *)

\* What the search of the bucket s for q finds.
Look(s, q) == LET i == NodeIn(s, q) IN IF i = 0 THEN None ELSE s[i].values

\* A search for q shows what it did in s, but for the key k, that has the values us.
Shows(t, s, k, us, q) == (q = k => Look(t, q) = us) /\ (q # k => Look(t, q) = Look(s, q))

\* A node in front hides the others of its key only.
LEMMA LookInFront ==
  ASSUME NEW s \in Seq(NodeSet), NEW e \in NodeSet, NEW t, t = <<e>> \o s, NEW q
  PROVE  Shows(t, s, e.key, e.values, q)
<1> SUFFICES (e.key = q => Look(t, q) = e.values) /\ (e.key # q => Look(t, q) = Look(s, q))
  BY DEF Shows
<1>1. /\ t \in Seq(NodeSet) /\ Len(t) = Len(s) + 1 /\ t[1] = e /\ Len(s) \in Nat
      /\ \A j \in 1 .. Len(s) : t[j + 1] = s[j]
      /\ \A j \in 2 .. Len(s) + 1 : t[j] = s[j - 1]
  BY InFrontIs
<1> DEFINE i == NodeIn(t, q)
           m == NodeIn(s, q)
<1>2. /\ i \in 0 .. Len(t)
      /\ i = 0 <=> \A j \in 1 .. Len(t) : t[j].key # q
      /\ i # 0 => t[i].key = q
      /\ \A j \in 1 .. Len(t) : t[j].key = q => i <= j
  <2>1. t \in Seq(NodeSet)
    BY <1>1
  <2> QED
    BY <2>1, NodeInIs, Zenon
<1>3. /\ m \in 0 .. Len(s)
      /\ m = 0 <=> \A j \in 1 .. Len(s) : s[j].key # q
      /\ m # 0 => s[m].key = q
      /\ \A j \in 1 .. Len(s) : s[j].key = q => m <= j
  BY NodeInIs
<1>4. Look(t, q) = (IF i = 0 THEN None ELSE t[i].values) /\ Look(s, q) = (IF m = 0 THEN None ELSE s[m].values)
  BY DEF Look
<1> HIDE DEF i, m
<1>5. 1 \in 1 .. Len(t)
  BY <1>1
<1>6. CASE e.key = q
  <2>1. i # 0 /\ i <= 1
    BY <1>1, <1>2, <1>5, <1>6
  <2>2. i = 1
    BY <1>1, <1>2, <2>1
  <2> QED
    BY <1>1, <1>4, <1>6, <2>2
<1>7. CASE e.key # q /\ m = 0
  <2>1. ASSUME NEW j \in 1 .. Len(t), t[j].key = q PROVE FALSE
    <3>1. j # 1
      BY <1>1, <1>7, <2>1
    <3>2. j \in 2 .. Len(s) + 1 /\ j - 1 \in 1 .. Len(s)
      BY <1>1, <3>1
    <3> QED
      BY <1>1, <1>3, <1>7, <2>1, <3>2
  <2>2. i = 0
    BY <1>2, <2>1
  <2> QED
    BY <1>4, <1>7, <2>2
<1>8. CASE e.key # q /\ m # 0
  <2>1. m \in 1 .. Len(s) /\ m + 1 \in 1 .. Len(t) /\ t[m + 1] = s[m] /\ s[m].key = q
    BY <1>1, <1>3, <1>8
  <2>2. i # 0 /\ i <= m + 1
    BY <1>2, <2>1
  <2>3. i # 1
    BY <1>1, <1>2, <1>8, <2>2
  <2>4. i \in 2 .. Len(s) + 1 /\ i - 1 \in 1 .. Len(s)
    BY <1>1, <1>2, <2>2, <2>3
  <2>5. m <= i - 1
    BY <1>1, <1>2, <1>3, <2>2, <2>4
  <2>6. i = m + 1
    BY <1>1, <1>2, <1>3, <2>2, <2>4, <2>5
  <2> QED
    BY <1>4, <1>8, <2>1, <2>2, <2>6
<1> QED
  BY <1>6, <1>7, <1>8

\* New values for a node are found under its key only.
LEMMA LookChanged ==
  ASSUME NEW s \in Seq(NodeSet), NEW k, NEW m, m = NodeIn(s, k), m # 0, NEW e, e.key = k,
         NEW t, t = [s EXCEPT ![m] = e], NEW q
  PROVE  Shows(t, s, k, e.values, q)
<1> SUFFICES (q = k => Look(t, q) = e.values) /\ (q # k => Look(t, q) = Look(s, q))
  BY DEF Shows
<1>1. m \in 1 .. Len(s) /\ s[m].key = k /\ DOMAIN s = 1 .. Len(s)
  BY NodeInIs
<1>2. DOMAIN t = DOMAIN s /\ t[m] = e /\ \A j \in 1 .. Len(s) : j # m => t[j] = s[j]
  BY <1>1
<1>3. \A j \in DOMAIN s : t[j].key = s[j].key
  BY <1>1, <1>2
<1>4. {j \in DOMAIN t : t[j].key = q} = {j \in DOMAIN s : s[j].key = q}
  BY <1>2, <1>3
<1>5. NodeIn(t, q) = NodeIn(s, q)
  BY <1>4, Zenon DEF NodeIn
<1>6. Look(t, q) = (IF NodeIn(s, q) = 0 THEN None ELSE t[NodeIn(s, q)].values)
  BY <1>5 DEF Look
<1>7. Look(s, q) = (IF NodeIn(s, q) = 0 THEN None ELSE s[NodeIn(s, q)].values)
  BY DEF Look
<1>8. CASE q = k
  BY <1>2, <1>6, <1>8
<1>9. CASE q # k
  <2>1. /\ NodeIn(s, q) \in 0 .. Len(s)
        /\ NodeIn(s, q) # 0 => s[NodeIn(s, q)].key = q
    BY NodeInIs
  <2>2. NodeIn(s, q) # 0 => NodeIn(s, q) # m
    BY <1>1, <1>9, <2>1
  <2>3. NodeIn(s, q) # 0 => t[NodeIn(s, q)] = s[NodeIn(s, q)]
    BY <1>2, <2>1, <2>2
  <2> QED
    BY <1>6, <1>7, <1>9, <2>3
<1> QED
  BY <1>8, <1>9

\* Every lookup after an insertion.
LEMMA InsertFinds ==
  ASSUME TableTypes, NEW k \in Keys, NEW v \in Values, cctable_insert(k, v), NEW q \in Keys
  PROVE  Find(q)' = IF q # k THEN Find(q)
                    ELSE IF Find(k) = None THEN <<v>>
                    ELSE IF allow_multiple THEN <<v>> \o Find(k)
                    ELSE Find(k)
<1> DEFINE b == BucketOf(k)
           c == BucketOf(q)
           s == buckets[b]
           m == NodeIn(s, k)
<1>1. /\ Ready /\ hash' = hash /\ capacity' = capacity
      /\ IF allow_multiple THEN insert_many(k, v) ELSE insert_single(k, v)
  BY DEF cctable_insert, Usable
<1>2. /\ b \in 1 .. capacity /\ c \in 1 .. capacity /\ s \in Seq(NodeSet)
      /\ buckets \in [1 .. capacity -> Seq(NodeSet)]
  BY <1>1, BucketIs DEF TableTypes
<1>3. Find(q) = Look(buckets[c], q) /\ Find(k) = Look(s, k)
  BY DEF Find, Look
<1>4. Find(q)' = Look(buckets'[c], q)
  <2>1. BucketOf(q)' = c
    BY <1>1 DEF BucketOf
  <2> QED
    BY <2>1 DEF Find, Look
<1> HIDE DEF b, c, s
<1>5. q = k => c = b
  BY DEF b, c
<1>6. CASE NewNode(k, v)
  <2> DEFINE e == [key |-> k, values |-> <<v>>]
             t == <<e>> \o s
  <2>1. Find(k) = None /\ buckets' = [buckets EXCEPT ![b] = t]
    BY <1>6 DEF NewNode, b, s
  <2>2. e \in NodeSet /\ e.key = k /\ e.values = <<v>>
    BY DEF NodeSet
  <2> HIDE DEF e
  <2>3. (k = q => Look(t, q) = <<v>>) /\ (k # q => Look(t, q) = Look(s, q))
    <3>1. t = <<e>> \o s
      OBVIOUS
    <3> HIDE DEF t
    <3>2. Shows(t, s, e.key, e.values, q)
      BY <1>2, <2>2, <3>1, LookInFront
    <3> QED
      BY <2>2, <3>2 DEF Shows
  <2> HIDE DEF t
  <2>4. CASE c = b
    <3>1. buckets'[c] = t /\ buckets[c] = s
      BY <1>2, <2>1, <2>4 DEF s
    <3> QED
      BY <1>3, <1>4, <2>1, <2>3, <3>1
  <2>5. CASE c # b
    <3>1. buckets'[c] = buckets[c]
      BY <1>2, <2>1, <2>5
    <3> QED
      BY <1>3, <1>4, <1>5, <2>5, <3>1
  <2> QED
    BY <2>4, <2>5
<1>7. CASE allow_multiple /\ ~NewNode(k, v)
  <2> DEFINE us == <<v>> \o s[m].values
             e == [s[m] EXCEPT !.values = us]
             t == [s EXCEPT ![m] = e]
  <2>1. Find(k) # None /\ buckets' = [buckets EXCEPT ![b] = t]
    BY <1>1, <1>7 DEF insert_many, InFront, b, s
  <2>2. m # 0 /\ Find(k) = s[m].values
    BY <1>3, <2>1 DEF Look
  <2>3. m \in 1 .. Len(s) /\ s[m].key = k
    BY <1>2, <2>2, NodeInIs
  <2>4. e.key = k /\ e.values = us
    <3>1. s[m] \in NodeSet
      BY <1>2, <2>3
    <3> HIDE DEF m, us
    <3> QED
      BY <2>3, <3>1 DEF NodeSet
  <2> HIDE DEF e
  <2>5. (q = k => Look(t, q) = us) /\ (q # k => Look(t, q) = Look(s, q))
    <3>1. t = [s EXCEPT ![m] = e] /\ m = NodeIn(s, k)
      OBVIOUS
    <3> HIDE DEF t, m, us
    <3>2. Shows(t, s, k, e.values, q)
      BY <1>2, <2>2, <2>4, <3>1, LookChanged
    <3> QED
      BY <2>4, <3>2 DEF Shows
  <2>6. us = <<v>> \o Find(k)
    BY <2>2
  <2> HIDE DEF t, us, m
  <2>7. CASE c = b
    <3>1. buckets'[c] = t /\ buckets[c] = s
      BY <1>2, <2>1, <2>7 DEF s
    <3> QED
      BY <1>3, <1>4, <1>7, <2>1, <2>5, <2>6, <3>1
  <2>8. CASE c # b
    <3>1. buckets'[c] = buckets[c]
      BY <1>2, <2>1, <2>8
    <3> QED
      BY <1>3, <1>4, <1>5, <2>8, <3>1
  <2> QED
    BY <2>7, <2>8
<1>8. CASE ~allow_multiple /\ ~NewNode(k, v)
  <2>1. Find(k) # None /\ buckets' = buckets
    BY <1>1, <1>8 DEF insert_single
  <2> QED
    BY <1>3, <1>4, <1>8, <2>1
<1> QED
  BY <1>6, <1>7, <1>8

-----------------------------------------------------------------------------
(* The invariant through insertions.                                         *)

\* Nothing is found in empty buckets.
LEMMA EmptyFinds ==
  ASSUME TableTypes', Ready', \A i \in 1 .. capacity' : buckets'[i] = <<>>, NEW q \in Keys
  PROVE  Find(q)' = None
<1>1. BucketOf(q)' \in 1 .. capacity'
  <2>1. hash'[q] \in Nat /\ capacity' \in Nat \ {0}
    BY DEF TableTypes, Ready
  <2>2. hash'[q] % capacity' \in 0 .. capacity' - 1
    BY <2>1
  <2> QED
    BY <2>1, <2>2 DEF BucketOf
<1>2. buckets'[BucketOf(q)'] = <<>>
  BY <1>1
<1>3. NodeIn(<<>>, q) = 0
  BY DEF NodeIn
<1> QED
  BY <1>2, <1>3 DEF Find

\* A table with nothing in its buckets, or with no buckets.
LEMMA EmptySound ==
  ASSUME TableTypes', \A i \in 1 .. capacity' : buckets'[i] = <<>>, size' = 0, clearing' = 0,
         Ready' => mapped' = {},
         fate' \in [Values -> Fates], calls' \in [Values -> Nat], des' \in BOOLEAN,
         \A v \in Values : fate'[v] # "stored" /\ calls'[v] = IF fate'[v] = "due" THEN 1 ELSE 0
  PROVE  TableSound'
<1>1. \A i, j, n : ~IsPlace(i, j, n)'
  BY DEF IsPlace
<1>2. Stored' = {}
  BY <1>1, StoredWillBe
<1>3. Counted'
  BY <1>2, FS_EmptySet DEF Counted
<1>4. FatesSound'
  <2>1. DestroyedOnce'
    BY <1>2 DEF DestroyedOnce
  <2> QED
    BY <1>2, <2>1 DEF FatesSound
<1>5. Once' /\ Singles'
  BY <1>1 DEF Once, Singles
<1>6. Placed'
  BY DEF Placed
<1>7. ClearingSound'
  <2>1. capacity' \in Nat
    BY DEF TableTypes
  <2> QED
    BY <2>1 DEF ClearingSound
<1>8. MappedSound'
  BY EmptyFinds DEF MappedSound, Usable
<1> QED
  BY <1>3, <1>4, <1>5, <1>6, <1>7, <1>8 DEF TableSound

\* cctable_init makes an empty table where there was none.
LEMMA InitSound ==
  ASSUME TableSound, NEW n \in Counts, NEW multiple \in BOOLEAN,
         cctable_init(n, multiple)
  PROVE  TableSound'
<1>1. /\ capacity = 0 /\ capacity' \in Nat \ {0} /\ buckets' = [i \in 1 .. capacity' |-> <<>>]
      /\ size' = 0 /\ allow_multiple' = multiple /\ hash' = hash /\ fate' = fate
      /\ mapped' = {} /\ calls' = calls /\ clearing' = clearing /\ des' = des
  BY NextPowerIs DEF cctable_init, Ready, deinit
<1>2. TableTypes'
  <2>1. buckets' \in [1 .. capacity' -> Seq(NodeSet)]
    BY <1>1
  <2> QED
    BY <1>1, <2>1 DEF TableSound, TableTypes
<1>3. clearing = 0
  BY <1>1 DEF TableSound, ClearingSound, Ready
<1>4. /\ fate \in [Values -> Fates] /\ calls \in [Values -> Nat] /\ des \in BOOLEAN
      /\ \A v \in Values : fate[v] # "stored" /\ calls[v] = IF fate[v] = "due" THEN 1 ELSE 0
  <2>1. \A i, j, n_ : ~IsPlace(i, j, n_)
    BY <1>1 DEF IsPlace
  <2>2. \A v \in Values : v \notin Stored
    BY <2>1, StoredIs DEF TableSound
  <2> QED
    BY <1>3, <2>2 DEF TableSound, FatesSound, DestroyedOnce
<1>5. \A i \in 1 .. capacity' : buckets'[i] = <<>>
  BY <1>1
<1> QED
  BY <1>1, <1>2, <1>3, <1>4, <1>5, EmptySound

\* What an insertion does, in either kind of table: the value is refused, or one more.
LEMMA InsertCases ==
  ASSUME TableSound, NEW k \in Keys, NEW v \in Values, cctable_insert(k, v), NEW b, b = BucketOf(k)
  PROVE  /\ Ready /\ clearing = 0 /\ v \notin Stored
         /\ UNCHANGED <<hash, capacity, allow_multiple, clearing, des, calls, found, walk>>
         /\ \/ /\ ~allow_multiple /\ Find(k) # None
               /\ fate' = [fate EXCEPT ![v] = "refused"] /\ UNCHANGED <<buckets, size>>
            \/ /\ size' = size + 1 /\ fate' = [fate EXCEPT ![v] = "stored"]
               /\ TableTypes' /\ Placed'
               /\ \/ Grown(TRUE, b, 1, v) /\ NewNode(k, v)
                  \/ /\ \E m : m = NodeIn(buckets[b], k) /\ Grown(FALSE, b, m, v)
                     /\ allow_multiple /\ Find(k) # None /\ insert_many(k, v)
<1>1. /\ Ready /\ clearing = 0 /\ fate[v] = "out"
      /\ UNCHANGED <<hash, capacity, allow_multiple, clearing, des, calls, found, walk>>
      /\ IF allow_multiple THEN insert_many(k, v) ELSE insert_single(k, v)
      /\ fate' = [fate EXCEPT ![v] = IF allow_multiple \/ k \notin mapped THEN "stored" ELSE "refused"]
  BY DEF cctable_insert, Usable, deinit
<1>2. v \notin Stored /\ TableTypes /\ Placed /\ (k \in mapped <=> Find(k) # None)
  BY <1>1 DEF TableSound, FatesSound, DestroyedOnce, MappedSound, Usable
<1>3. CASE NewNode(k, v)
  <2>1. size' = size + 1 /\ fate' = [fate EXCEPT ![v] = "stored"]
    BY <1>1, <1>2, <1>3 DEF NewNode
  <2>2. TableTypes' /\ Placed' /\ Grown(TRUE, b, 1, v)
    BY <1>1, <1>2, <1>3, NewNodeGrows
  <2> QED
    BY <1>1, <1>2, <1>3, <2>1, <2>2
<1>4. CASE allow_multiple /\ ~NewNode(k, v)
  <2>1. insert_many(k, v) /\ Find(k) # None /\ size' = size + 1 /\ fate' = [fate EXCEPT ![v] = "stored"]
    BY <1>1, <1>4 DEF insert_many
  <2>2. PICK m : m = NodeIn(buckets[b], k)
    OBVIOUS
  <2>3. TableTypes' /\ Placed' /\ Grown(FALSE, b, m, v)
    BY <1>1, <1>2, <2>1, <2>2, InFrontGrows
  <2> QED
    BY <1>1, <1>2, <1>4, <2>1, <2>2, <2>3
<1>5. CASE ~allow_multiple /\ ~NewNode(k, v)
  <2>1. Find(k) # None /\ fate' = [fate EXCEPT ![v] = "refused"] /\ UNCHANGED <<buckets, size>>
    BY <1>1, <1>2, <1>5 DEF insert_single
  <2> QED
    BY <1>1, <1>2, <1>5, <2>1
<1> QED
  BY <1>3, <1>4, <1>5

\* The keys that an insertion makes found are those inserted.
LEMMA InsertMapped ==
  ASSUME TableSound, NEW k \in Keys, NEW v \in Values, cctable_insert(k, v) PROVE MappedSound'
<1>1. TableTypes /\ Placed /\ Usable /\ mapped' = mapped \cup {k}
  BY DEF TableSound, cctable_insert
<1>2. ASSUME NEW q \in Keys PROVE q \in mapped' <=> Find(q)' # None
  <2> DEFINE one == <<v>>
  <2>1. one \in Seq(Values)
    OBVIOUS
  <2> HIDE DEF one
  <2>2. Find(q)' = IF q # k THEN Find(q)
                   ELSE IF Find(k) = None THEN one
                   ELSE IF allow_multiple THEN one \o Find(k)
                   ELSE Find(k)
    BY <1>1, InsertFinds DEF one
  <2>3. Find(k) # None => Find(k) \in Seq(Values)
    BY <1>1, FindIs DEF Usable
  <2>4. q \in mapped <=> Find(q) # None
    BY <1>1 DEF TableSound, MappedSound
  <2>5. Find(k) # None => one \o Find(k) \in Seq(Values)
    BY <2>1, <2>3
  <2> QED
    BY <1>1, <2>1, <2>2, <2>3, <2>4, <2>5
<1> QED
  BY <1>2 DEF MappedSound

\* A table of single values gets new nodes only.
LEMMA GrownSingles ==
  ASSUME Singles, allow_multiple' = allow_multiple, NEW fresh, NEW b, NEW m, NEW v,
         Grown(fresh, b, m, v), ~allow_multiple => fresh /\ m = 1
  PROVE  Singles'
<1>0. SUFFICES ASSUME ~allow_multiple, NEW i, NEW j, NEW n, IsPlace(i, j, n)' PROVE n = 1
  BY DEF Singles
<1>1. \A x, y, z : IsPlace(x, y, z)' =>
         \/ x = b /\ y = m /\ z = 1
         \/ \E jj, nn : /\ IsPlace(x, jj, nn) /\ y = jj + NodeShift(fresh, b, x)
                        /\ z = nn + ValueShift(fresh, b, m, x, jj)
  BY DEF Grown
<1>2. \A jj, nn : IsPlace(i, jj, nn) => nn = 1 /\ ValueShift(fresh, b, m, i, jj) = 0
  BY <1>0 DEF Singles, ValueShift
<1>3. ASSUME NEW jj, NEW nn, IsPlace(i, jj, nn), n = nn + ValueShift(fresh, b, m, i, jj) PROVE n = 1
  <2>1. nn = 1 /\ ValueShift(fresh, b, m, i, jj) = 0
    BY <1>2, <1>3, Zenon
  <2> QED
    BY <1>3, <2>1
<1> QED
  BY <1>0, <1>1, <1>3, Zenon

\* cctable_insert keeps the invariant.
LEMMA InsertSound ==
  ASSUME TableSound, NEW k \in Keys, NEW v \in Values, cctable_insert(k, v) PROVE TableSound'
<1>1. PICK b : b = BucketOf(k)
  OBVIOUS
<1>2. /\ Ready /\ clearing = 0 /\ v \notin Stored
      /\ UNCHANGED <<hash, capacity, allow_multiple, clearing, des, calls, found, walk>>
  BY <1>1, InsertCases
<1>3. ClearingSound'
  <2>1. capacity \in Nat
    BY DEF TableSound, TableTypes
  <2> QED
    BY <1>2, <2>1 DEF TableSound, ClearingSound
<1>4. MappedSound'
  BY InsertMapped
<1>5. fate \in [Values -> Fates] /\ calls \in [Values -> Nat] /\ des \in BOOLEAN /\ DestroyedOnce
  BY DEF TableSound, FatesSound
<1>6. ASSUME NEW f \in {"stored", "refused"}, fate' = [fate EXCEPT ![v] = f],
             Stored' = IF f = "stored" THEN Stored \cup {v} ELSE Stored
      PROVE  FatesSound'
  <2>1. fate' \in [Values -> Fates] /\ fate'[v] = f /\ \A w \in Values : w # v => fate'[w] = fate[w]
    BY <1>5, <1>6 DEF Fates
  <2>2. fate[v] = "out"
    BY DEF cctable_insert
  <2>3. ASSUME NEW w \in Values
        PROVE  /\ fate'[w] = "stored" <=> clearing' = 0 /\ w \in Stored'
               /\ calls'[w] = IF fate'[w] = "due" /\ w \notin Stored' THEN 1 ELSE 0
    <3>1. CASE w = v
      BY <1>2, <1>5, <1>6, <2>1, <2>2, <3>1 DEF DestroyedOnce
    <3>2. CASE w # v
      BY <1>2, <1>5, <1>6, <2>1, <3>2 DEF DestroyedOnce
    <3> QED
      BY <3>1, <3>2
  <2>4. DestroyedOnce'
    BY <2>3 DEF DestroyedOnce
  <2> QED
    BY <1>2, <1>5, <2>1, <2>4 DEF FatesSound
<1>7. CASE fate' = [fate EXCEPT ![v] = "refused"] /\ UNCHANGED <<buckets, size>>
  <2>1. UNCHANGED <<hash, capacity, allow_multiple, buckets, size>>
    BY <1>2, <1>7
  <2>2. TableTypes'
    BY <2>1 DEF TableSound, TableTypes
  <2>3. Stored' = Stored /\ Placed' /\ Once' /\ Singles'
    BY <2>1 DEF TableSound, Stored, Placed, BucketOf, Once, Singles, IsPlace, ValueAt
  <2>4. Counted'
    BY <1>2, <2>1, <2>3 DEF TableSound, Counted
  <2>5. FatesSound'
    BY <1>6, <1>7, <2>3
  <2> QED
    BY <1>3, <1>4, <2>2, <2>3, <2>4, <2>5 DEF TableSound
<1>8. ASSUME size' = size + 1, fate' = [fate EXCEPT ![v] = "stored"], TableTypes', Placed',
             NEW fresh \in BOOLEAN, NEW m, Grown(fresh, b, m, v),
             ~allow_multiple => fresh /\ m = 1
      PROVE  TableSound'
  <2>1. Stored' = Stored \cup {v} /\ Once'
    BY <1>2, <1>8, GrownStored DEF TableSound
  <2>2. Counted'
    <3>1. IsFiniteSet(Stored) /\ size = Cardinality(Stored)
      BY <1>2 DEF TableSound, Counted
    <3>2. IsFiniteSet(Stored \cup {v}) /\ Cardinality(Stored \cup {v}) = Cardinality(Stored) + 1
      BY <1>2, <3>1, FS_AddElement
    <3> QED
      BY <1>8, <2>1, <3>1, <3>2 DEF Counted
  <2>3. FatesSound'
    BY <1>6, <1>8, <2>1
  <2>4. Singles'
    BY <1>2, <1>8, GrownSingles DEF TableSound
  <2> QED
    BY <1>3, <1>4, <1>8, <2>1, <2>2, <2>3, <2>4 DEF TableSound
<1> QED
  BY <1>1, <1>7, <1>8, InsertCases, Zenon

-----------------------------------------------------------------------------
(* The invariant through the loop of cctable_deinit.                         *)

\* One value less, the first of the bucket b, with its node or alone, and every other
\* value where it was but for the shift.
Shrunk(freed, b, v) ==
  /\ IsPlace(b, 1, 1) /\ ValueAt(b, 1, 1) = v
  /\ \A i, j, n : IsPlace(i, j, n)' =>
       /\ IsPlace(i, j + NodeShift(freed, b, i), n + ValueShift(freed, b, 1, i, j))
       /\ ValueAt(i, j + NodeShift(freed, b, i), n + ValueShift(freed, b, 1, i, j)) = ValueAt(i, j, n)'
  /\ \A i, j, n : IsPlace(i, j, n) =>
       \/ i = b /\ j = 1 /\ n = 1
       \/ \E jj, nn : /\ IsPlace(i, jj, nn)'
                      /\ j = jj + NodeShift(freed, b, i)
                      /\ n = nn + ValueShift(freed, b, 1, i, jj)

\* A sequence of two or more, without its first, and a sequence with another element.
LEMMA TailIs ==
  ASSUME NEW S, NEW s \in Seq(S), s # <<>>, Len(s) # 1
  PROVE  /\ Len(s) \in Nat /\ Len(s) > 1 /\ 2 \in 1 .. Len(s)
         /\ Tail(s) \in Seq(S) /\ Len(Tail(s)) = Len(s) - 1
         /\ \A n \in 1 .. Len(Tail(s)) : Tail(s)[n] = s[n + 1]
<1>1. Len(s) \in Nat /\ Len(s) # 0
  OBVIOUS
<1>2. PICK l : l = Len(s)
  OBVIOUS
<1>3. l \in Nat /\ l # 0 /\ l # 1
  BY <1>1, <1>2
<1>4. l > 1 /\ 2 \in 1 .. l
  BY <1>3
<1> QED
  BY <1>1, <1>2, <1>4

LEMMA ChangedIs ==
  ASSUME NEW S, NEW s \in Seq(S), NEW m \in 1 .. Len(s), NEW e \in S, NEW t, t = [s EXCEPT ![m] = e]
  PROVE  t \in Seq(S) /\ Len(t) = Len(s) /\ t[m] = e /\ \A j \in 1 .. Len(s) : j # m => t[j] = s[j]
OBVIOUS

\* The first node goes when it has one value.
LEMMA NodeFreed ==
  ASSUME TableTypes, Placed, NEW b \in 1 .. capacity, buckets[b] # <<>>,
         Len(buckets[b][1].values) = 1, buckets' = [buckets EXCEPT ![b] = Tail(buckets[b])],
         UNCHANGED <<hash, capacity, size, allow_multiple>>
  PROVE  TableTypes' /\ Placed' /\ Shrunk(TRUE, b, buckets[b][1].values[1])
<1> DEFINE s == buckets[b]
           t == Tail(s)
<1>1. s \in Seq(NodeSet) /\ s # <<>>
  BY DEF TableTypes
<1>2. buckets' = [buckets EXCEPT ![b] = t] /\ buckets[b] = s /\ Len(s[1].values) = 1
  OBVIOUS
<1> HIDE DEF s
<1>3. /\ t \in Seq(NodeSet) /\ Len(s) \in Nat \ {0} /\ Len(t) = Len(s) - 1
      /\ \A j \in 1 .. Len(t) : t[j] = s[j + 1]
  BY <1>1
<1> HIDE DEF t
<1>4. /\ buckets' \in [1 .. capacity -> Seq(NodeSet)]
      /\ buckets'[b] = t /\ \A i \in 1 .. capacity : i # b => buckets'[i] = buckets[i]
  BY <1>2, <1>3 DEF TableTypes
<1>5. TableTypes'
  BY <1>4 DEF TableTypes
<1>6. \A q : BucketOf(q)' = BucketOf(q)
  BY DEF BucketOf
<1>7. Placed'
  <2> SUFFICES ASSUME NEW i \in 1 .. capacity, NEW j \in 1 .. Len(buckets'[i])
               PROVE  /\ buckets'[i][j].values # <<>>
                      /\ BucketOf(buckets'[i][j].key) = i
                      /\ \A m \in 1 .. Len(buckets'[i]) : buckets'[i][m].key = buckets'[i][j].key => m = j
    BY <1>6 DEF Placed
  <2>1. CASE i # b
    BY <1>4, <2>1 DEF Placed
  <2>2. CASE i = b
    <3>1. buckets'[i] = t /\ j \in 1 .. Len(t) /\ j + 1 \in 1 .. Len(s) /\ t[j] = s[j + 1]
      BY <1>3, <1>4, <2>2
    <3>2. /\ s[j + 1].values # <<>> /\ BucketOf(s[j + 1].key) = b
          /\ \A m \in 1 .. Len(s) : s[m].key = s[j + 1].key => m = j + 1
      BY <1>2, <3>1 DEF Placed
    <3>3. ASSUME NEW m \in 1 .. Len(t), t[m].key = t[j].key PROVE m = j
      <4>1. m + 1 \in 1 .. Len(s) /\ t[m] = s[m + 1]
        BY <1>3, <3>1
      <4>2. m + 1 = j + 1
        BY <3>1, <3>2, <3>3, <4>1
      <4> QED
        BY <3>1, <4>2
    <3> QED
      BY <2>2, <3>1, <3>2, <3>3
  <2> QED
    BY <2>1, <2>2
<1>8. ASSUME NEW i, NEW j, NEW n, IsPlace(i, j, n)'
      PROVE  /\ IsPlace(i, j + NodeShift(TRUE, b, i), n + ValueShift(TRUE, b, 1, i, j))
             /\ ValueAt(i, j + NodeShift(TRUE, b, i), n + ValueShift(TRUE, b, 1, i, j)) = ValueAt(i, j, n)'
  <2>1. i \in 1 .. capacity /\ j \in 1 .. Len(buckets'[i]) /\ n \in 1 .. Len(buckets'[i][j].values)
    BY <1>8 DEF IsPlace
  <2> DEFINE d == j + NodeShift(TRUE, b, i)
             w == n + ValueShift(TRUE, b, 1, i, j)
  <2>2. w = n
    BY <2>1 DEF ValueShift
  <2>3. d \in 1 .. Len(buckets[i]) /\ buckets[i][d] = buckets'[i][j]
    <3>1. CASE i = b
      <4>1. buckets'[i] = t /\ j \in 1 .. Len(t) /\ d = j + 1
        BY <1>4, <2>1, <3>1 DEF NodeShift
      <4>2. j + 1 \in 1 .. Len(s) /\ t[j] = s[j + 1]
        BY <1>3, <4>1
      <4> QED
        BY <1>2, <3>1, <4>1, <4>2
    <3>2. CASE i # b
      BY <1>4, <2>1, <3>2 DEF NodeShift
    <3> QED
      BY <3>1, <3>2
  <2> HIDE DEF d, w
  <2>4. IsPlace(i, d, w) /\ ValueAt(i, d, w) = ValueAt(i, j, n)'
    BY <2>1, <2>2, <2>3 DEF IsPlace, ValueAt
  <2> QED
    BY <2>4 DEF d, w
<1>9. ASSUME NEW i, NEW j, NEW n, IsPlace(i, j, n)
      PROVE  \/ i = b /\ j = 1 /\ n = 1
             \/ \E jj, nn : /\ IsPlace(i, jj, nn)'
                            /\ j = jj + NodeShift(TRUE, b, i)
                            /\ n = nn + ValueShift(TRUE, b, 1, i, jj)
  <2>1. i \in 1 .. capacity /\ j \in 1 .. Len(buckets[i]) /\ n \in 1 .. Len(buckets[i][j].values)
    BY <1>9 DEF IsPlace
  <2>2. \A jj : n = n + ValueShift(TRUE, b, 1, i, jj)
    BY <2>1 DEF ValueShift
  <2>3. CASE i # b
    <3>1. j = j + NodeShift(TRUE, b, i) /\ buckets'[i] = buckets[i]
      BY <1>4, <2>1, <2>3 DEF NodeShift
    <3>2. IsPlace(i, j, n)'
      BY <2>1, <3>1 DEF IsPlace
    <3> QED
      BY <2>2, <3>1, <3>2
  <2>4. CASE i = b /\ j = 1
    <3>1. n \in 1 .. Len(s[1].values)
      BY <1>2, <2>1, <2>4
    <3> QED
      BY <1>2, <2>4, <3>1
  <2>5. CASE i = b /\ j # 1
    <3>1. PICK h : h = j - 1
      OBVIOUS
    <3>2. h \in 1 .. Len(t) /\ j = h + 1 /\ j = h + NodeShift(TRUE, b, i)
      BY <1>2, <1>3, <2>1, <2>5, <3>1 DEF NodeShift
    <3>3. buckets'[i] = t /\ t[h] = buckets[i][j]
      BY <1>2, <1>3, <1>4, <2>5, <3>2
    <3>4. IsPlace(i, h, n)'
      BY <2>1, <3>2, <3>3 DEF IsPlace
    <3> QED
      BY <2>2, <3>2, <3>4
  <2> QED
    BY <2>3, <2>4, <2>5
<1>10. IsPlace(b, 1, 1)
  BY <1>2, <1>3 DEF IsPlace
<1>11. Shrunk(TRUE, b, buckets[b][1].values[1])
  BY <1>8, <1>9, <1>10 DEF Shrunk, ValueAt
<1> QED
  BY <1>5, <1>7, <1>11

\* A bucket without the first value of its first node.
FirstLess(s) == [s EXCEPT ![1].values = Tail(s[1].values)]

LEMMA FirstLessIs ==
  ASSUME NEW s \in Seq(NodeSet), s # <<>>, s[1].values # <<>>
  PROVE  /\ FirstLess(s) \in Seq(NodeSet) /\ Len(FirstLess(s)) = Len(s)
         /\ FirstLess(s)[1].values = Tail(s[1].values)
         /\ \A j \in 1 .. Len(s) : /\ FirstLess(s)[j].key = s[j].key
                                   /\ j # 1 => FirstLess(s)[j] = s[j]
<1>1. 1 \in 1 .. Len(s) /\ s[1] \in NodeSet
  OBVIOUS
<1>2. PICK vs : vs = s[1].values
  OBVIOUS
<1>3. vs \in Seq(Values)
  BY <1>1, <1>2 DEF NodeSet
<1>4. PICK us : us = Tail(vs)
  OBVIOUS
<1>5. us \in Seq(Values)
  BY <1>2, <1>3, <1>4
<1>6. PICK e : e = [s[1] EXCEPT !.values = us]
  OBVIOUS
<1>7. e \in NodeSet /\ e.key = s[1].key /\ e.values = us
  BY <1>1, <1>5, <1>6 DEF NodeSet
<1>8. PICK t : t = [s EXCEPT ![1] = e]
  OBVIOUS
<1>9. t \in Seq(NodeSet) /\ Len(t) = Len(s) /\ t[1] = e /\ \A j \in 1 .. Len(s) : j # 1 => t[j] = s[j]
  BY <1>1, <1>7, <1>8, ChangedIs
<1>10. FirstLess(s) = t
  BY <1>2, <1>4, <1>6, <1>8 DEF FirstLess
<1> QED
  BY <1>2, <1>4, <1>7, <1>9, <1>10

\* The first value of the first node goes when there are more.
LEMMA ValueFreed ==
  ASSUME TableTypes, Placed, NEW b \in 1 .. capacity, buckets[b] # <<>>,
         Len(buckets[b][1].values) # 1,
         NEW t, t = FirstLess(buckets[b]),
         buckets' = [buckets EXCEPT ![b] = t],
         UNCHANGED <<hash, capacity, size, allow_multiple>>
  PROVE  TableTypes' /\ Placed' /\ Shrunk(FALSE, b, buckets[b][1].values[1])
<1> DEFINE s == buckets[b]
           vs == s[1].values
           us == Tail(vs)
<1>1. s \in Seq(NodeSet) /\ s # <<>> /\ Len(s) \in Nat /\ 1 \in 1 .. Len(s)
  <2>1. s \in Seq(NodeSet) /\ s # <<>>
    BY DEF TableTypes
  <2> QED
    BY <2>1
<1>2. s[1] \in NodeSet /\ vs \in Seq(Values) /\ vs # <<>>
  <2>1. s[1] \in NodeSet
    BY <1>1
  <2> QED
    BY <1>1, <2>1 DEF NodeSet, Placed
<1>4. buckets[b] = s
  OBVIOUS
<1>7. /\ t \in Seq(NodeSet) /\ Len(t) = Len(s) /\ t[1].values = us
      /\ \A j \in 1 .. Len(s) : t[j].key = s[j].key /\ (j # 1 => t[j] = s[j])
  BY <1>1, <1>2, FirstLessIs
<1>3. Len(vs) # 1
  OBVIOUS
<1> HIDE DEF vs
<1>5. /\ us \in Seq(Values) /\ Len(vs) \in Nat /\ Len(vs) > 1 /\ Len(us) = Len(vs) - 1
      /\ \A n \in 1 .. Len(us) : us[n] = vs[n + 1]
  BY <1>2, <1>3, TailIs
<1> HIDE DEF us
<1>8. /\ buckets' \in [1 .. capacity -> Seq(NodeSet)]
      /\ buckets'[b] = t /\ \A i \in 1 .. capacity : i # b => buckets'[i] = buckets[i]
  <2>1. buckets \in [1 .. capacity -> Seq(NodeSet)]
    BY DEF TableTypes
  <2> HIDE DEF s
  <2> QED
    BY <1>7, <2>1
<1>9. TableTypes'
  BY <1>8 DEF TableTypes
<1>10. \A q : BucketOf(q)' = BucketOf(q)
  BY DEF BucketOf
<1>11. ASSUME NEW i \in 1 .. capacity
       PROVE  /\ Len(buckets'[i]) = Len(buckets[i])
              /\ \A j \in 1 .. Len(buckets[i]) :
                   /\ buckets'[i][j].key = buckets[i][j].key
                   /\ i = b /\ j = 1 => buckets'[i][j].values = us /\ buckets[i][j].values = vs
                   /\ ~(i = b /\ j = 1) => buckets'[i][j] = buckets[i][j]
  <2>1. CASE i # b
    BY <1>8, <2>1
  <2>2. CASE i = b
    <3>1. buckets'[i] = t /\ buckets[i] = s
      BY <1>4, <1>8, <2>2
    <3>2. s[1].values = vs
      BY DEF vs
    <3> HIDE DEF s
    <3> QED
      BY <1>7, <2>2, <3>1, <3>2
  <2> QED
    BY <2>1, <2>2
<1>12. Placed'
  <2> SUFFICES ASSUME NEW i \in 1 .. capacity, NEW j \in 1 .. Len(buckets'[i])
               PROVE  /\ buckets'[i][j].values # <<>>
                      /\ BucketOf(buckets'[i][j].key) = i
                      /\ \A l \in 1 .. Len(buckets'[i]) : buckets'[i][l].key = buckets'[i][j].key => l = j
    BY <1>10 DEF Placed
  <2>1. j \in 1 .. Len(buckets[i]) /\ buckets'[i][j].key = buckets[i][j].key
    BY <1>11
  <2>2. buckets'[i][j].values # <<>>
    <3>1. us # <<>>
      BY <1>5
    <3>2. CASE i = b /\ j = 1
      BY <1>11, <2>1, <3>1, <3>2
    <3>3. CASE ~(i = b /\ j = 1)
      <4>1. buckets[i][j].values # <<>>
        BY <2>1 DEF Placed
      <4> QED
        BY <1>11, <2>1, <3>3, <4>1
    <3> QED
      BY <3>2, <3>3
  <2>3. \A l \in 1 .. Len(buckets'[i]) : l \in 1 .. Len(buckets[i]) /\ buckets'[i][l].key = buckets[i][l].key
    BY <1>11
  <2> QED
    BY <2>1, <2>2, <2>3 DEF Placed
<1>13. ASSUME NEW i, NEW j, NEW n, IsPlace(i, j, n)'
       PROVE  /\ IsPlace(i, j + NodeShift(FALSE, b, i), n + ValueShift(FALSE, b, 1, i, j))
              /\ ValueAt(i, j + NodeShift(FALSE, b, i), n + ValueShift(FALSE, b, 1, i, j)) = ValueAt(i, j, n)'
  <2>1. i \in 1 .. capacity /\ j \in 1 .. Len(buckets'[i]) /\ n \in 1 .. Len(buckets'[i][j].values)
    BY <1>13 DEF IsPlace
  <2> DEFINE d == j + NodeShift(FALSE, b, i)
             w == n + ValueShift(FALSE, b, 1, i, j)
  <2>2. d = j /\ j \in 1 .. Len(buckets[i])
    BY <1>11, <2>1 DEF NodeShift
  <2>3. w \in 1 .. Len(buckets[i][j].values) /\ buckets[i][j].values[w] = buckets'[i][j].values[n]
    <3>1. CASE i = b /\ j = 1
      <4>1. w = n + 1 /\ buckets'[i][j].values = us /\ buckets[i][j].values = vs
        BY <1>11, <2>1, <2>2, <3>1 DEF ValueShift
      <4>2. n \in 1 .. Len(us) /\ n + 1 \in 1 .. Len(vs)
        BY <1>5, <2>1, <4>1
      <4> QED
        BY <1>5, <4>1, <4>2
    <3>2. CASE ~(i = b /\ j = 1)
      <4>1. w = n /\ buckets'[i][j] = buckets[i][j]
        BY <1>11, <2>1, <2>2, <3>2 DEF ValueShift
      <4> QED
        BY <2>1, <4>1
    <3> QED
      BY <3>1, <3>2
  <2> HIDE DEF d, w
  <2>4. IsPlace(i, d, w) /\ ValueAt(i, d, w) = ValueAt(i, j, n)'
    BY <2>1, <2>2, <2>3 DEF IsPlace, ValueAt
  <2> QED
    BY <2>4 DEF d, w
<1>14. ASSUME NEW i, NEW j, NEW n, IsPlace(i, j, n)
       PROVE  \/ i = b /\ j = 1 /\ n = 1
              \/ \E jj, nn : /\ IsPlace(i, jj, nn)'
                             /\ j = jj + NodeShift(FALSE, b, i)
                             /\ n = nn + ValueShift(FALSE, b, 1, i, jj)
  <2>1. i \in 1 .. capacity /\ j \in 1 .. Len(buckets[i]) /\ n \in 1 .. Len(buckets[i][j].values)
    BY <1>14 DEF IsPlace
  <2>2. j \in 1 .. Len(buckets'[i]) /\ j = j + NodeShift(FALSE, b, i)
    BY <1>11, <2>1 DEF NodeShift
  <2>3. CASE ~(i = b /\ j = 1)
    <3>1. n = n + ValueShift(FALSE, b, 1, i, j) /\ buckets'[i][j] = buckets[i][j]
      BY <1>11, <2>1, <2>3 DEF ValueShift
    <3>2. IsPlace(i, j, n)'
      BY <2>1, <2>2, <3>1 DEF IsPlace
    <3> QED
      BY <2>2, <3>1, <3>2
  <2>4. CASE i = b /\ j = 1 /\ n # 1
    <3>1. buckets'[i][j].values = us /\ buckets[i][j].values = vs
      BY <1>11, <2>1, <2>4
    <3>2. PICK h : h = n - 1
      OBVIOUS
    <3>3. h \in 1 .. Len(us) /\ n = h + ValueShift(FALSE, b, 1, i, j)
      BY <1>5, <2>1, <2>4, <3>1, <3>2 DEF ValueShift
    <3>4. IsPlace(i, j, h)'
      BY <2>1, <2>2, <3>1, <3>3 DEF IsPlace
    <3> QED
      BY <2>2, <3>3, <3>4
  <2> QED
    BY <2>3, <2>4
<1>15. IsPlace(b, 1, 1) /\ ValueAt(b, 1, 1) = buckets[b][1].values[1]
  <2>1. 1 \in 1 .. Len(buckets[b]) /\ 1 \in 1 .. Len(buckets[b][1].values)
    BY <1>1, <1>5 DEF vs
  <2> QED
    BY <2>1 DEF IsPlace, ValueAt
<1>16. Shrunk(FALSE, b, buckets[b][1].values[1])
  BY <1>13, <1>14, <1>15 DEF Shrunk
<1> QED
  BY <1>9, <1>12, <1>16

\* What goes is stored no more, and every other value is in one place.
LEMMA ShrunkStored ==
  ASSUME TableTypes, TableTypes', Once, Singles, allow_multiple' = allow_multiple,
         NEW freed \in BOOLEAN, NEW b, NEW v, Shrunk(freed, b, v), ~allow_multiple => freed
  PROVE  v \in Stored /\ Stored' = Stored \ {v} /\ Once' /\ Singles'
<1> DEFINE D(i) == NodeShift(freed, b, i)
           W(i, j) == ValueShift(freed, b, 1, i, j)
<1>1. \A i, j, n : IsPlace(i, j, n)' =>
        /\ IsPlace(i, j + D(i), n + W(i, j))
        /\ ValueAt(i, j + D(i), n + W(i, j)) = ValueAt(i, j, n)'
  BY DEF Shrunk
<1>2. \A i, j, n : IsPlace(i, j, n) =>
        \/ i = b /\ j = 1 /\ n = 1
        \/ \E jj, nn : IsPlace(i, jj, nn)' /\ j = jj + D(i) /\ n = nn + W(i, jj)
  BY DEF Shrunk
<1>3. IsPlace(b, 1, 1) /\ ValueAt(b, 1, 1) = v
  BY DEF Shrunk
<1>4. \A i, j, n : IsPlace(i, j, n)' => ~(i = b /\ j + D(i) = 1 /\ n + W(i, j) = 1)
  <2> SUFFICES ASSUME NEW i, NEW j, NEW n, IsPlace(i, j, n)', i = b, j + D(i) = 1, n + W(i, j) = 1
               PROVE  FALSE
    OBVIOUS
  <2>1. j \in Nat \ {0} /\ n \in Nat \ {0}
    BY DEF IsPlace
  <2> QED
    BY <2>1 DEF NodeShift, ValueShift
<1>5. \A i, j, n : IsPlace(i, j, n)' => ValueAt(i, j, n)' # v
  <2> HIDE DEF D, W
  <2> QED
    BY <1>1, <1>3, <1>4 DEF Once
<1>6. Stored' = Stored \ {v}
  <2>1. ASSUME NEW w \in Stored' PROVE w \in Stored /\ w # v
    <3>1. PICK i, j, n : IsPlace(i, j, n)' /\ ValueAt(i, j, n)' = w
      BY <2>1, StoredWillBe
    <3> HIDE DEF D, W
    <3> QED
      BY <1>1, <1>5, <3>1, StoredIs
  <2>2. ASSUME NEW w \in Stored, w # v PROVE w \in Stored'
    <3>1. PICK i, j, n : IsPlace(i, j, n) /\ ValueAt(i, j, n) = w
      BY <2>2, StoredIs
    <3> HIDE DEF D, W
    <3>2. PICK jj, nn : IsPlace(i, jj, nn)' /\ j = jj + D(i) /\ n = nn + W(i, jj)
      BY <1>2, <1>3, <2>2, <3>1
    <3>3. ValueAt(i, jj, nn)' = w
      BY <1>1, <3>1, <3>2
    <3> QED
      BY <3>2, <3>3, StoredWillBe
  <2> QED
    BY <2>1, <2>2
<1>7. Once'
  <2> SUFFICES ASSUME NEW i, NEW j, NEW n, NEW ii, NEW jj, NEW nn,
                      IsPlace(i, j, n)', IsPlace(ii, jj, nn)',
                      ValueAt(i, j, n)' = ValueAt(ii, jj, nn)'
               PROVE  i = ii /\ j = jj /\ n = nn
    BY DEF Once
  <2>1. i = ii /\ j + D(i) = jj + D(ii) /\ n + W(i, j) = nn + W(ii, jj)
    <3> HIDE DEF D, W
    <3> QED
      BY <1>1 DEF Once
  <2>2. j \in Nat /\ jj \in Nat /\ n \in Nat /\ nn \in Nat
    BY DEF IsPlace
  <2> QED
    BY <2>1, <2>2 DEF NodeShift, ValueShift
<1>8. Singles'
  <2> SUFFICES ASSUME ~allow_multiple, NEW i, NEW j, NEW n, IsPlace(i, j, n)' PROVE n = 1
    BY DEF Singles
  <2>1. n + W(i, j) = 1 /\ n \in Nat
    <3>1. n + W(i, j) = 1
      <4> HIDE DEF D, W
      <4> QED
        BY <1>1 DEF Singles
    <3>2. n \in Nat
      BY DEF IsPlace
    <3> QED
      BY <3>1, <3>2
  <2> QED
    BY <2>1 DEF ValueShift
<1>9. v \in Stored
  BY <1>3, StoredIs
<1> QED
  BY <1>6, <1>7, <1>8, <1>9

\* The node destructor of the kind of the table takes one value.
LEMMA DeinitValueSound == ASSUME TableSound, DeinitValue PROVE TableSound'
<1>1. PICK b : b = clearing
  OBVIOUS
<1>2. PICK v : v = buckets[b][1].values[1]
  OBVIOUS
<1>3. /\ TableTypes /\ Placed /\ Once /\ Singles /\ Counted /\ ClearingSound /\ FatesSound
      /\ capacity \in Nat /\ buckets \in [1 .. capacity -> Seq(NodeSet)]
  BY DEF TableSound, TableTypes
<1>4. /\ b \in 1 .. capacity /\ buckets[b] # <<>>
      /\ calls' = IF des THEN [calls EXCEPT ![v] = @ + 1] ELSE calls
      /\ buckets' = [buckets EXCEPT ![b] = node_destructor(buckets[b])]
      /\ UNCHANGED <<hash, capacity, size, allow_multiple, clearing, des, mapped, fate>>
  BY <1>1, <1>2, <1>3 DEF DeinitValue, deinit
<1>5. PICK freed \in BOOLEAN : /\ TableTypes' /\ Placed' /\ Shrunk(freed, b, v)
                               /\ ~allow_multiple => freed
  <2>1. CASE Len(buckets[b][1].values) = 1
    <3>1. buckets' = [buckets EXCEPT ![b] = Tail(buckets[b])]
      BY <1>4, <2>1 DEF node_destructor, node_destructor_many, node_destructor_single
    <3> QED
      BY <1>2, <1>3, <1>4, <2>1, <3>1, NodeFreed
  <2>2. CASE Len(buckets[b][1].values) # 1
    <3>1. allow_multiple
      <4>1. buckets[b] \in Seq(NodeSet) /\ 1 \in 1 .. Len(buckets[b])
        BY <1>3, <1>4
      <4>5. buckets[b][1] \in NodeSet
        BY <4>1
      <4>2. buckets[b][1].values \in Seq(Values) /\ buckets[b][1].values # <<>>
        BY <1>3, <1>4, <4>1, <4>5 DEF NodeSet, Placed
      <4>3. 2 \in 1 .. Len(buckets[b][1].values)
        BY <2>2, <4>2, TailIs
      <4>4. IsPlace(b, 1, 2)
        BY <1>4, <4>1, <4>3 DEF IsPlace
      <4> QED
        BY <1>3, <4>4 DEF Singles
    <3>2. PICK t : t = FirstLess(buckets[b])
      OBVIOUS
    <3>3. buckets' = [buckets EXCEPT ![b] = t]
      BY <1>4, <2>2, <3>1, <3>2 DEF node_destructor, node_destructor_many, FirstLess
    <3> QED
      BY <1>2, <1>3, <1>4, <2>2, <3>1, <3>2, <3>3, ValueFreed
  <2> QED
    BY <2>1, <2>2
<1>6. v \in Stored /\ Stored' = Stored \ {v} /\ Once' /\ Singles'
  BY <1>3, <1>4, <1>5, ShrunkStored
<1>7. clearing # 0 /\ clearing' # 0
  BY <1>1, <1>3, <1>4
<1>8. Counted'
  BY <1>3, <1>6, <1>7, FS_Subset DEF Counted
<1>9. ClearingSound'
  <2>1. Ready' /\ clearing' \in 0 .. capacity' + 1
    BY <1>3, <1>4 DEF ClearingSound, Ready
  <2>2. ASSUME NEW i \in 1 .. capacity', i < clearing' PROVE buckets'[i] = <<>>
    <3>1. i # b /\ i \in 1 .. capacity /\ i < clearing
      BY <1>1, <1>3, <1>4, <2>2
    <3> QED
      BY <1>3, <1>4, <3>1 DEF ClearingSound
  <2> QED
    BY <2>1, <2>2 DEF ClearingSound
<1>10. FatesSound'
  <2>1. /\ fate \in [Values -> Fates] /\ calls \in [Values -> Nat] /\ des \in BOOLEAN /\ DestroyedOnce
        /\ \A w \in Stored : fate[w] = IF des THEN "due" ELSE "left"
    BY <1>3, <1>7 DEF FatesSound
  <2>2. calls' \in [Values -> Nat]
    <3>1. des => calls' = [calls EXCEPT ![v] = @ + 1]
      BY <1>4
    <3>2. ~des => calls' = calls
      BY <1>4
    <3> QED
      BY <2>1, <3>1, <3>2
  <2>3. ASSUME NEW w \in Values
        PROVE  /\ fate'[w] = "stored" <=> clearing' = 0 /\ w \in Stored'
               /\ calls'[w] = IF fate'[w] = "due" /\ w \notin Stored' THEN 1 ELSE 0
    <3>1. /\ fate[w] # "stored"
          /\ calls[w] = IF fate[w] = "due" /\ w \notin Stored THEN 1 ELSE 0
      BY <1>7, <2>1 DEF DestroyedOnce
    <3>2. CASE w # v
      <4>1. calls'[w] = calls[w]
        BY <1>4, <2>1, <3>2
      <4> QED
        BY <1>4, <1>6, <1>7, <3>1, <3>2, <4>1
    <3>3. CASE w = v
      <4>1. fate[w] = (IF des THEN "due" ELSE "left") /\ calls[w] = 0
        BY <1>6, <2>1, <3>1, <3>3
      <4>2. calls'[w] = IF des THEN 1 ELSE 0
        BY <1>4, <2>1, <3>3, <4>1
      <4> QED
        BY <1>4, <1>6, <1>7, <3>1, <3>3, <4>1, <4>2
    <3> QED
      BY <3>2, <3>3
  <2>4. DestroyedOnce'
    BY <2>3 DEF DestroyedOnce
  <2> QED
    BY <1>4, <1>6, <2>1, <2>2, <2>4 DEF FatesSound
<1>11. MappedSound'
  BY <1>7 DEF MappedSound, Usable
<1> QED
  BY <1>5, <1>6, <1>8, <1>9, <1>10, <1>11 DEF TableSound

\* The steps of cctable_deinit that leave the values where they are.
LEMMA DeinitMoves ==
  ASSUME TableSound, UNCHANGED <<hash, capacity, buckets, size, allow_multiple, calls>>,
         clearing' # 0, ClearingSound', FatesSound'
  PROVE  TableSound'
<1>1. TableTypes'
  BY DEF TableSound, TableTypes
<1>2. Stored' = Stored /\ Placed' /\ Once' /\ Singles'
  BY DEF TableSound, Stored, Placed, BucketOf, Once, Singles, IsPlace, ValueAt
<1>3. Counted'
  BY <1>2 DEF TableSound, Counted
<1>4. MappedSound'
  BY DEF MappedSound, Usable
<1> QED
  BY <1>1, <1>2, <1>3, <1>4 DEF TableSound

\* What is in the table is due to the destructor, or left to the caller.
LEMMA DeinitBeginSound ==
  ASSUME TableSound, NEW destructor \in BOOLEAN, DeinitBegin(destructor) PROVE TableSound'
<1>1. /\ Ready /\ clearing = 0 /\ clearing' = 1 /\ des' = destructor
      /\ fate' = [v \in Values |-> IF fate[v] # "stored" THEN fate[v]
                                   ELSE IF destructor THEN "due" ELSE "left"]
      /\ UNCHANGED <<hash, capacity, buckets, size, allow_multiple, calls>>
  BY DEF DeinitBegin, Usable, table
<1>2. ClearingSound'
  <2>1. capacity \in Nat
    BY DEF TableSound, TableTypes
  <2> QED
    BY <1>1, <2>1 DEF ClearingSound, Ready
<1>3. FatesSound'
  <2>1. fate \in [Values -> Fates] /\ calls \in [Values -> Nat] /\ DestroyedOnce
    BY DEF TableSound, FatesSound
  <2>2. Stored' = Stored
    BY <1>1 DEF Stored
  <2>3. ASSUME NEW v \in Values
        PROVE  /\ fate'[v] = IF fate[v] # "stored" THEN fate[v] ELSE IF destructor THEN "due" ELSE "left"
               /\ fate'[v] \in Fates /\ fate'[v] # "stored"
               /\ calls'[v] = IF fate'[v] = "due" /\ v \notin Stored' THEN 1 ELSE 0
    <3>1. fate'[v] = IF fate[v] # "stored" THEN fate[v] ELSE IF destructor THEN "due" ELSE "left"
      BY <1>1
    <3>2. /\ fate[v] = "stored" <=> v \in Stored
          /\ calls[v] = IF fate[v] = "due" /\ v \notin Stored THEN 1 ELSE 0
          /\ fate[v] \in Fates
      BY <1>1, <2>1 DEF DestroyedOnce
    <3> QED
      BY <1>1, <2>2, <3>1, <3>2 DEF Fates
  <2>4. DestroyedOnce'
    BY <1>1, <2>3 DEF DestroyedOnce
  <2>5. fate' \in [Values -> Fates]
    BY <1>1, <2>3
  <2>6. ASSUME NEW v \in Stored' PROVE fate'[v] = IF des' THEN "due" ELSE "left"
    <3>1. v \in Values
      <4>1. TableTypes
        BY DEF TableSound
      <4>2. PICK i, j, n : IsPlace(i, j, n) /\ ValueAt(i, j, n) = v
        BY <2>2, <2>6, <4>1, StoredIs
      <4>3. /\ i \in 1 .. capacity /\ j \in 1 .. Len(buckets[i]) /\ n \in 1 .. Len(buckets[i][j].values)
            /\ buckets[i][j].values[n] = v
        BY <4>2 DEF IsPlace, ValueAt
      <4>4. buckets[i] \in Seq(NodeSet)
        BY <4>1, <4>3 DEF TableTypes
      <4>5. buckets[i][j] \in NodeSet
        BY <4>3, <4>4
      <4>6. buckets[i][j].values \in Seq(Values)
        BY <4>5 DEF NodeSet
      <4> QED
        BY <4>3, <4>6
    <3>2. fate[v] = "stored"
      BY <1>1, <2>1, <2>2, <2>6, <3>1 DEF DestroyedOnce
    <3> QED
      BY <1>1, <2>3, <3>1, <3>2
  <2> QED
    BY <1>1, <2>1, <2>4, <2>5, <2>6 DEF FatesSound
<1> QED
  BY <1>1, <1>2, <1>3, DeinitMoves

\* The loop leaves an empty bucket.
LEMMA DeinitBucketSound == ASSUME TableSound, DeinitBucket PROVE TableSound'
<1>1. /\ capacity \in Nat /\ buckets \in [1 .. capacity -> Seq(NodeSet)]
      /\ ClearingSound /\ FatesSound
  BY DEF TableSound, TableTypes
<1>2. /\ clearing \in 1 .. capacity /\ buckets[clearing] = <<>> /\ clearing' = clearing + 1
      /\ UNCHANGED <<hash, capacity, buckets, size, allow_multiple, calls, fate, des>>
  BY <1>1 DEF DeinitBucket, table, expected
<1>3. clearing # 0 /\ clearing' # 0
  BY <1>1, <1>2
<1>4. ClearingSound'
  <2>1. Ready' /\ clearing' \in 0 .. capacity' + 1
    BY <1>1, <1>2 DEF ClearingSound, Ready
  <2>2. ASSUME NEW i \in 1 .. capacity', i < clearing' PROVE buckets'[i] = <<>>
    <3>1. i \in 1 .. capacity /\ (i = clearing \/ i < clearing)
      BY <1>1, <1>2, <2>2
    <3> QED
      BY <1>1, <1>2, <3>1 DEF ClearingSound
  <2> QED
    BY <2>1, <2>2 DEF ClearingSound
<1>5. FatesSound'
  <2>1. Stored' = Stored
    BY <1>2 DEF Stored
  <2>2. DestroyedOnce'
    BY <1>1, <1>2, <1>3, <2>1 DEF FatesSound, DestroyedOnce
  <2> QED
    BY <1>1, <1>2, <1>3, <2>1, <2>2 DEF FatesSound
<1> QED
  BY <1>2, <1>3, <1>4, <1>5, DeinitMoves

\* At the end nothing is stored, and what was due has been destroyed.
LEMMA DeinitEndSound == ASSUME TableSound, DeinitEnd PROVE TableSound'
<1>1. /\ capacity \in Nat /\ TableTypes /\ ClearingSound /\ FatesSound
  BY DEF TableSound, TableTypes
<1>2. /\ clearing = capacity + 1 /\ buckets' = <<>> /\ capacity' = 0 /\ size' = 0 /\ clearing' = 0
      /\ des' = FALSE /\ UNCHANGED <<hash, allow_multiple, fate, calls>>
  BY DEF DeinitEnd, expected
<1>3. TableTypes'
  <2>1. buckets' \in [1 .. capacity' -> Seq(NodeSet)]
    BY <1>2
  <2> QED
    BY <1>1, <1>2, <2>1 DEF TableTypes
<1>4. clearing # 0 /\ \A i \in 1 .. capacity : buckets[i] = <<>>
  BY <1>1, <1>2 DEF ClearingSound
<1>5. \A w : w \notin Stored
  <2>1. \A i, j, n : ~IsPlace(i, j, n)
    BY <1>4 DEF IsPlace
  <2> QED
    BY <1>1, <2>1, StoredIs
<1>6. \A v \in Values : fate'[v] # "stored" /\ calls'[v] = IF fate'[v] = "due" THEN 1 ELSE 0
  BY <1>1, <1>2, <1>4, <1>5 DEF FatesSound, DestroyedOnce
<1>7. fate' \in [Values -> Fates] /\ calls' \in [Values -> Nat] /\ des' \in BOOLEAN
  BY <1>1, <1>2 DEF FatesSound
<1>8. ~Ready' /\ \A i \in 1 .. capacity' : buckets'[i] = <<>>
  BY <1>2 DEF Ready
<1> QED
  BY <1>2, <1>3, <1>6, <1>7, <1>8, EmptySound

\* Every step keeps the invariant.
LEMMA SoundStep == ASSUME TableSound, [Next]_vars PROVE TableSound'
<1>1. ASSUME UNCHANGED <<hash, buckets, capacity, size, allow_multiple, deinit, expected>>
      PROVE  TableSound'
  <2>1. TableTypes'
    BY <1>1 DEF TableSound, TableTypes
  <2>2. Placed'
    BY <1>1 DEF TableSound, Placed, BucketOf
  <2>3. Stored' = Stored /\ clearing' = clearing /\ des' = des /\ fate' = fate /\ calls' = calls
    BY <1>1 DEF Stored, deinit, expected
  <2>4. Once' /\ Singles'
    <3>1. \A i, j, n : IsPlace(i, j, n)' = IsPlace(i, j, n) /\ ValueAt(i, j, n)' = ValueAt(i, j, n)
      BY <1>1, Zenon DEF IsPlace, ValueAt
    <3>2. Once'
      BY <3>1, Zenon DEF TableSound, Once
    <3>3. Singles'
      BY <1>1, <3>1 DEF TableSound, Singles
    <3> QED
      BY <3>2, <3>3
  <2>5. Counted'
    BY <1>1, <2>3 DEF TableSound, Counted
  <2>6. FatesSound'
    <3>1. DestroyedOnce'
      BY <2>3 DEF TableSound, FatesSound, DestroyedOnce
    <3> QED
      BY <2>3, <3>1 DEF TableSound, FatesSound
  <2>7. ClearingSound'
    BY <1>1, <2>3 DEF TableSound, ClearingSound, Ready
  <2>8. MappedSound'
    <3>1. \A q : Find(q)' = Find(q)
      BY <1>1 DEF Find, BucketOf
    <3> QED
      BY <1>1, <2>3, <3>1 DEF TableSound, MappedSound, Usable, Ready, expected
  <2> QED
    BY <2>1, <2>2, <2>4, <2>5, <2>6, <2>7, <2>8 DEF TableSound
<1>2. CASE UNCHANGED vars
  BY <1>1, <1>2 DEF vars, table
<1>3. ASSUME NEW k \in Keys, cctable_get(k) PROVE TableSound'
  BY <1>1, <1>3 DEF cctable_get, table
<1>4. CASE IterBegin \/ IterVisit
  BY <1>1, <1>4 DEF IterBegin, IterVisit, table
<1>5. CASE cctable_deinit
  BY <1>5, DeinitBeginSound, DeinitValueSound, DeinitBucketSound, DeinitEndSound DEF cctable_deinit
<1> QED
  BY <1>2, <1>3, <1>4, <1>5, InitSound, InsertSound DEF Next

\* Init has no table and no value stored.
LEMMA SoundInit == Init => TableSound
<1> SUFFICES ASSUME Init PROVE TableSound
  OBVIOUS
<1>1. /\ hash \in [Keys -> Hashes] /\ buckets = <<>> /\ capacity = 0 /\ size = 0
      /\ allow_multiple \in BOOLEAN /\ fate = [v \in Values |-> "out"]
      /\ clearing = 0 /\ des = FALSE /\ calls = [v \in Values |-> 0]
  BY DEF Init
<1>2. TableTypes
  <2>1. buckets \in [1 .. capacity -> Seq(NodeSet)]
    BY <1>1
  <2>2. hash \in [Keys -> Nat]
    BY <1>1
  <2> QED
    BY <1>1, <2>1, <2>2 DEF TableTypes
<1>3. \A i, j, n : ~IsPlace(i, j, n)
  BY <1>1 DEF IsPlace
<1>4. Stored = {}
  BY <1>2, <1>3, StoredIs
<1>5. Counted
  BY <1>1, <1>4, FS_EmptySet DEF Counted
<1>6. FatesSound
  BY <1>1, <1>4 DEF FatesSound, DestroyedOnce, Fates
<1>7. Once /\ Singles /\ Placed
  BY <1>1, <1>3 DEF Once, Singles, Placed
<1>8. ClearingSound /\ MappedSound
  BY <1>1 DEF ClearingSound, MappedSound, Usable, Ready
<1> QED
  BY <1>2, <1>5, <1>6, <1>7, <1>8 DEF TableSound

\* The invariant holds of every table.
LEMMA TableSafety == Spec => []TableSound
<1>1. TableSound /\ [Next]_vars => TableSound'
  BY SoundStep
<1> QED
  BY <1>1, SoundInit, PTL DEF Spec

\* One node for each key, in the bucket of the key, and a size that counts the values,
\* through any insertions into either kind of table.
THEOREM TableIsSound == Spec => []TableInv
<1>1. TableSound => TableInv
  <2> SUFFICES ASSUME TableSound PROVE NodesPlaced /\ SizeCounts
    BY DEF TableInv
  <2>1. SizeCounts
    BY DEF TableSound, Counted, SizeCounts
  <2>2. ASSUME NEW i \in DOMAIN buckets, NEW j \in DOMAIN buckets[i]
        PROVE  /\ buckets[i][j].values # <<>>
               /\ BucketOf(buckets[i][j].key) = i
               /\ NodeIn(buckets[i], buckets[i][j].key) = j
    <3>1. i \in 1 .. capacity /\ buckets[i] \in Seq(NodeSet) /\ j \in 1 .. Len(buckets[i])
      BY <2>2 DEF TableSound, TableTypes
    <3> DEFINE s == buckets[i]
               k == s[j].key
    <3>2. /\ s[j].values # <<>> /\ BucketOf(k) = i
          /\ \A m \in 1 .. Len(s) : s[m].key = k => m = j
      BY <3>1 DEF TableSound, Placed
    <3> HIDE DEF s, k
    <3>3. NodeIn(s, k) \in 1 .. Len(s) /\ s[NodeIn(s, k)].key = k
      BY <3>1, NodeInIs DEF s, k
    <3> QED
      BY <3>2, <3>3 DEF s, k
  <2> QED
    BY <2>1, <2>2 DEF NodesPlaced
<1> QED
  BY <1>1, TableSafety, PTL

\* The destructors of either kind of table call the one that cctable_deinit was given once
\* with every value that the table had to keep, whatever was inserted and refused before,
\* and with nothing else; the table keeps all that it had to until then.
THEOREM ValuesAreDestroyedOnce == Spec => []DestroyedOnce
<1>1. TableSound => DestroyedOnce
  BY DEF TableSound, FatesSound
<1> QED
  BY <1>1, TableSafety, PTL

-----------------------------------------------------------------------------
(* The table is a map.                                                       *)

\* What the map of the table is.
Contents == [k \in Keys |-> IF Usable /\ Find(k) # None THEN Find(k) ELSE <<>>]

\* A key has no values just when a lookup finds none.
LEMMA ContentsIs ==
  ASSUME TableSound, Usable, NEW q \in Keys
  PROVE  \/ Find(q) = None /\ Contents[q] = <<>>
         \/ Find(q) # None /\ Contents[q] = Find(q) /\ Find(q) \in Seq(Values) \ {<<>>}
<1> DEFINE s == buckets[BucketOf(q)]
<1>1. CASE Find(q) = None
  BY <1>1 DEF Contents
<1>2. CASE Find(q) # None
  <2>1. PICK j \in 1 .. Len(s) : s[j].key = q
    BY <1>2, FindIs DEF TableSound, Usable
  <2>2. Find(q) \in Seq(Values) \ {<<>>}
    BY <2>1, FindIs DEF TableSound, Usable
  <2> QED
    BY <1>2, <2>2 DEF Contents
<1> QED
  BY <1>1, <1>2

\* An insertion into the table is one into the map.
LEMMA InsertMaps ==
  ASSUME TableSound, NEW k \in Keys, NEW v \in Values, cctable_insert(k, v)
  PROVE  Map!Insert(k, v)
<1>1. Usable /\ Usable' /\ allow_multiple' = allow_multiple /\ found' = found
  BY DEF cctable_insert, Usable, Ready, deinit
<1> DEFINE one == <<v>>
           new == [Contents EXCEPT ![k] = one \o @]
           result == IF allow_multiple \/ Contents[k] = <<>> THEN new ELSE Contents
<1>2. one \in Seq(Values) /\ one # None /\ one \o <<>> = one
  <2>1. one \in Seq(Values)
    OBVIOUS
  <2> HIDE DEF one
  <2> QED
    BY <2>1, ConcatEmptySeq
<1> HIDE DEF one
<1>3. ASSUME NEW q \in Keys PROVE Contents'[q] = result[q]
  <2>1. Contents'[q] = IF Find(q)' # None THEN Find(q)' ELSE <<>>
    BY <1>1 DEF Contents
  <2>2. \/ Find(q) = None /\ Contents[q] = <<>>
        \/ Find(q) # None /\ Contents[q] = Find(q) /\ Find(q) \in Seq(Values) \ {<<>>}
    BY <1>1, ContentsIs
  <2>3. Find(q)' = IF q # k THEN Find(q)
                   ELSE IF Find(k) = None THEN one
                   ELSE IF allow_multiple THEN one \o Find(k)
                   ELSE Find(k)
    BY InsertFinds DEF one, TableSound
  <2>4. new[q] = IF q = k THEN one \o Contents[q] ELSE Contents[q]
    BY DEF Contents
  <2>5. CASE q # k
    <3>1. result[q] = Contents[q]
      BY <2>4, <2>5
    <3> QED
      BY <2>1, <2>2, <2>3, <2>5, <3>1
  <2>6. CASE q = k /\ Find(k) = None
    <3>1. result[q] = one
      BY <1>2, <2>2, <2>4, <2>6
    <3> QED
      BY <1>2, <2>1, <2>3, <2>6, <3>1
  <2>7. CASE q = k /\ Find(k) # None /\ allow_multiple
    <3>1. result[q] = one \o Find(k)
      BY <2>2, <2>4, <2>7
    <3>2. one \o Find(k) \in Seq(Values)
      BY <1>2, <2>2, <2>7
    <3> QED
      BY <2>1, <2>3, <2>7, <3>1, <3>2
  <2>8. CASE q = k /\ Find(k) # None /\ ~allow_multiple
    <3>1. result[q] = Find(k)
      BY <2>2, <2>8
    <3> QED
      BY <2>1, <2>3, <2>8, <3>1
  <2> QED
    BY <2>5, <2>6, <2>7, <2>8
<1>4. Contents' = [q \in Keys |-> Contents'[q]] /\ result = [q \in Keys |-> result[q]]
  BY DEF Contents
<1>5. Contents' = result
  <2> HIDE DEF result
  <2> QED
    BY <1>3, <1>4
<1> QED
  BY <1>1, <1>5 DEF Map!Insert, Contents, one

\* A table that is made, or unmade, is a map with nothing in it.
LEMMA EmptyMap ==
  ASSUME TableSound', Usable' => \A i \in 1 .. capacity' : buckets'[i] = <<>>
  PROVE  Contents' = Map!Empty
<1>1. ASSUME NEW q \in Keys, Usable' PROVE Find(q)' = None
  BY <1>1, EmptyFinds DEF TableSound, Usable
<1> QED
  BY <1>1 DEF Contents, Map!Empty

\* Every step of the table is one of the map, or none.
LEMMA MapStep == ASSUME TableSound, [Next]_vars PROVE [Map!Next]_(Map!vars)
<1>1. TableSound'
  BY SoundStep
<1>2. ASSUME UNCHANGED <<hash, buckets, capacity, clearing>>
      PROVE  Contents' = Contents /\ Usable' = Usable
  BY <1>2 DEF Contents, Usable, Ready, Find, BucketOf
<1>3. CASE UNCHANGED vars
  <2>1. UNCHANGED <<Contents, Usable, allow_multiple, found>>
    BY <1>2, <1>3 DEF vars, table, deinit
  <2> QED
    BY <2>1 DEF Contents, Map!vars
<1>4. ASSUME NEW n \in Counts, NEW multiple \in BOOLEAN, cctable_init(n, multiple) PROVE Map!Next
  <2>1. /\ ~Ready /\ capacity' # 0 /\ allow_multiple' \in BOOLEAN /\ found' = found
        /\ clearing' = clearing
    BY <1>4, NextPowerIs DEF cctable_init, deinit
  <2>2. Contents' = Map!Empty
    BY <1>1, <1>4, EmptyMap DEF cctable_init
  <2>3. ~Usable /\ Contents = Map!Empty
    BY <2>1 DEF Contents, Usable, Map!Empty
  <2>4. Usable'
    BY <2>1 DEF TableSound, ClearingSound, Usable, Ready
  <2>5. Map!Open
    BY <2>1, <2>2, <2>3, <2>4 DEF Map!Open, Contents
  <2> QED
    BY <2>5 DEF Map!Next
<1>5. ASSUME NEW destructor \in BOOLEAN, DeinitBegin(destructor) PROVE Map!Next
  <2>1. Usable /\ ~Usable' /\ allow_multiple' = allow_multiple /\ found' = found
    BY <1>5 DEF DeinitBegin, Usable, table
  <2>2. Contents' = Map!Empty
    BY <1>1, <2>1, EmptyMap
  <2>3. Map!Close
    BY <2>1, <2>2 DEF Map!Close, Contents
  <2> QED
    BY <2>3 DEF Map!Next
<1>9. CASE DeinitValue \/ DeinitBucket \/ DeinitEnd
  <2>1. ~Usable /\ ~Usable'
    <3>1. capacity \in Nat /\ buckets \in [1 .. capacity -> Seq(NodeSet)] /\ clearing \in 0 .. capacity + 1
      BY DEF TableSound, TableTypes, ClearingSound
    <3>2. CASE DeinitValue
      BY <3>1, <3>2 DEF DeinitValue, deinit, Usable
    <3>3. CASE DeinitBucket
      BY <3>1, <3>3 DEF DeinitBucket, Usable
    <3>4. CASE DeinitEnd
      BY <3>1, <3>4 DEF DeinitEnd, Usable, Ready
    <3> QED
      BY <1>9, <3>2, <3>3, <3>4
  <2>2. allow_multiple' = allow_multiple /\ found' = found
    BY <1>9 DEF DeinitValue, DeinitBucket, DeinitEnd, table
  <2>3. Contents' = Map!Empty /\ Contents = Map!Empty
    BY <2>1 DEF Contents, Map!Empty
  <2>4. Usable' = Usable
    BY <2>1, Zenon DEF Usable
  <2> QED
    BY <2>2, <2>3, <2>4 DEF Contents, Map!vars
<1>6. ASSUME NEW k \in Keys, NEW v \in Values, cctable_insert(k, v) PROVE Map!Next
  BY <1>6, InsertMaps DEF Map!Next
<1>7. ASSUME NEW k \in Keys, cctable_get(k) PROVE Map!Next
  <2>1. Usable /\ found' = Find(k) /\ UNCHANGED <<hash, buckets, capacity, allow_multiple, clearing>>
    BY <1>7 DEF cctable_get, table, deinit
  <2>2. Contents' = Contents /\ Usable' = Usable
    BY <1>2, <2>1
  <2>3. found' = IF Contents[k] = <<>> THEN None ELSE Contents[k]
    BY <2>1, ContentsIs
  <2>4. Map!Lookup(k)
    BY <2>1, <2>2, <2>3 DEF Map!Lookup, Contents
  <2> QED
    BY <2>4 DEF Map!Next
<1>8. CASE IterBegin \/ IterVisit
  <2>1. UNCHANGED <<hash, buckets, capacity, allow_multiple, clearing, found>>
    BY <1>8 DEF IterBegin, IterVisit, table, deinit
  <2>2. UNCHANGED <<Contents, Usable, allow_multiple, found>>
    BY <1>2, <2>1
  <2> QED
    BY <2>2 DEF Contents, Map!vars
<1> QED
  BY <1>3, <1>4, <1>5, <1>6, <1>7, <1>8, <1>9 DEF Next, cctable_deinit

\* The table with its buckets, its search and its two ways to insert is a map from keys
\* to the values stored under them, newest first, for every hash function.
THEOREM TableIsMap == Spec => ImplementsTableMap
<1>1. Init => Map!Init
  <2> SUFFICES ASSUME Init PROVE Map!Init
    OBVIOUS
  <2>1. ~Usable /\ allow_multiple \in BOOLEAN /\ found = None
    BY DEF Init, Usable, Ready
  <2> QED
    BY <2>1 DEF Map!Init, Map!Empty
<1>2. TableSound /\ [Next]_vars => [Map!Next]_(Map!vars)
  BY MapStep
<1> QED
  BY <1>1, <1>2, TableSafety, PTL DEF Spec, ImplementsTableMap, Map!Spec

-----------------------------------------------------------------------------
(* A walk over the places of the table.                                      *)

IsNode(i, j) == i \in 1 .. capacity /\ j \in 1 .. Len(buckets[i])

\* The order of the walk, on nodes and on places.
NotBehind(i, j, ii, jj) == i < ii \/ (i = ii /\ j <= jj)

Before(i, j, n, ii, jj, nn) == \/ i < ii
                               \/ i = ii /\ j < jj
                               \/ i = ii /\ j = jj /\ n < nn

\* A node and its parts.
LEMMA NodeIs ==
  ASSUME TableSound, NEW i, NEW j, IsNode(i, j)
  PROVE  /\ i \in Nat \ {0} /\ j \in Nat \ {0} /\ buckets[i] \in Seq(NodeSet)
         /\ buckets[i][j].key \in Keys /\ buckets[i][j].values \in Seq(Values)
         /\ Len(buckets[i][j].values) \in Nat \ {0}
<1>1. capacity \in Nat /\ i \in 1 .. capacity /\ buckets[i] \in Seq(NodeSet)
  BY DEF IsNode, TableSound, TableTypes
<1>2. Len(buckets[i]) \in Nat /\ j \in 1 .. Len(buckets[i])
  BY <1>1 DEF IsNode
<1>3. buckets[i][j] \in NodeSet
  BY <1>1, <1>2
<1>4. buckets[i][j].key \in Keys /\ buckets[i][j].values \in Seq(Values)
  BY <1>3 DEF NodeSet
<1>5. buckets[i][j].values # <<>>
  BY <1>1, <1>2 DEF TableSound, Placed
<1> QED
  BY <1>1, <1>2, <1>4, <1>5

\* A place and its parts.
LEMMA PlaceIs ==
  ASSUME TableSound, NEW i, NEW j, NEW n, IsPlace(i, j, n)
  PROVE  IsNode(i, j) /\ n \in 1 .. Len(buckets[i][j].values) /\ n \in Nat \ {0} /\ ValueAt(i, j, n) \in Values
<1>1. IsNode(i, j) /\ n \in 1 .. Len(buckets[i][j].values)
  BY DEF IsPlace, IsNode
<1>2. buckets[i][j].values \in Seq(Values) /\ Len(buckets[i][j].values) \in Nat
  BY <1>1, NodeIs
<1> QED
  BY <1>1, <1>2 DEF ValueAt

\* A bucket has no more nodes than there are keys.
LEMMA NodesFit ==
  ASSUME TableSound, NEW i, NEW j, IsNode(i, j) PROVE j \in 1 .. Cardinality(Keys)
<1> DEFINE s == buckets[i]
           f == [m \in 1 .. Len(s) |-> s[m].key]
<1>1. i \in 1 .. capacity /\ j \in 1 .. Len(s) /\ s \in Seq(NodeSet)
  BY NodeIs DEF IsNode
<1>2. ASSUME NEW m \in 1 .. Len(s) PROVE s[m].key \in Keys
  <2> HIDE DEF s
  <2>1. s[m] \in NodeSet
    BY <1>1
  <2> QED
    BY <2>1 DEF NodeSet
<1>3. \A m, n \in 1 .. Len(s) : s[m].key = s[n].key => m = n
  BY <1>1 DEF TableSound, Placed
<1>4. Len(s) \in Nat
  BY <1>1
<1> HIDE DEF s
<1>5. f \in Injection(1 .. Len(s), Keys)
  BY <1>2, <1>3 DEF Injection, IsInjective
<1> HIDE DEF f
<1>6. Cardinality(1 .. Len(s)) <= Cardinality(Keys)
  <2>1. IsFiniteSet(Keys)
    OBVIOUS
  <2> QED
    BY <1>5, <2>1, FS_Injection, Zenon
<1>7. Cardinality(1 .. Len(s)) = Len(s)
  <2>1. 1 \in Int /\ Len(s) \in Int
    BY <1>4
  <2>2. Cardinality(1 .. Len(s)) = IF 1 > Len(s) THEN 0 ELSE Len(s) - 1 + 1
    BY <2>1, FS_Interval, Zenon
  <2> QED
    BY <1>4, <2>2
<1>8. Cardinality(Keys) \in Nat
  <2>1. IsFiniteSet(Keys)
    OBVIOUS
  <2> QED
    BY <2>1, FS_CardinalityType, Zenon
<1> QED
  BY <1>1, <1>4, <1>6, <1>7, <1>8

\* A set of pairs that is not empty has a first one.
LEMMA FirstPair ==
  ASSUME NEW S \in SUBSET (Nat \X Nat), S # {}
  PROVE  \E p \in S : \A q \in S : p[1] < q[1] \/ (p[1] = q[1] /\ p[2] <= q[2])
<1> DEFINE I == {p[1] : p \in S}
           a == Min(I)
           J == {p[2] : p \in {q \in S : q[1] = a}}
           b == Min(J)
<1>1. I \in SUBSET Nat /\ I # {}
  OBVIOUS
<1>2. a \in I /\ \A y \in I : a <= y
  <2> HIDE DEF I
  <2> QED
    BY <1>1, MinIs
<1> HIDE DEF a
<1>3. J \in SUBSET Nat /\ J # {}
  BY <1>2
<1>4. b \in J /\ \A y \in J : b <= y
  <2> HIDE DEF J
  <2> QED
    BY <1>3, MinIs
<1> HIDE DEF b
<1>5. PICK p \in S : p[1] = a /\ p[2] = b
  BY <1>4
<1>6. ASSUME NEW q \in S PROVE p[1] < q[1] \/ (p[1] = q[1] /\ p[2] <= q[2])
  <2>1. a \in Nat /\ q[1] \in Nat /\ a <= q[1]
    BY <1>1, <1>2
  <2>2. CASE q[1] = a
    BY <1>4, <1>5, <2>2
  <2>3. CASE q[1] # a
    BY <1>5, <2>1, <2>3
  <2> QED
    BY <2>2, <2>3
<1> QED
  BY <1>5, <1>6

\* The position of a place.
At(i, j, n) == [bucket |-> i, key |-> buckets[i][j].key, value |-> ValueAt(i, j, n)]

Positions == [bucket : Nat, key : Keys, value : Values]

\* p is the first value of the first node that is not behind the node j of i.
Leads(i, j, p) ==
  \/ /\ p = None
     /\ \A ii, jj : IsNode(ii, jj) => ~NotBehind(i, j, ii, jj)
  \/ \E a, b : /\ IsNode(a, b) /\ NotBehind(i, j, a, b) /\ p = At(a, b, 1)
               /\ \A ii, jj : IsNode(ii, jj) /\ NotBehind(i, j, ii, jj) => NotBehind(a, b, ii, jj)

\* Where the walk goes from a node.
LEMMA PositionIs ==
  ASSUME TableSound, NEW i \in 1 .. capacity, NEW j \in Nat \ {0}
  PROVE  Leads(i, j, Position(i, j))
<1> DEFINE places == {p \in (i .. capacity) \X (1 .. Cardinality(Keys)) :
                        p[2] \in DOMAIN buckets[p[1]] /\ (p[1] = i => p[2] >= j)}
           first == CHOOSE p \in places :
                      \A q \in places : p[1] < q[1] \/ (p[1] = q[1] /\ p[2] <= q[2])
           node == buckets[first[1]][first[2]]
<1>1. Position(i, j) = IF places = {} THEN None
                       ELSE [bucket |-> first[1], key |-> node.key, value |-> node.values[1]]
  BY DEF Position
<1>2. capacity \in Nat /\ i \in Nat \ {0} /\ \A a \in 1 .. capacity : DOMAIN buckets[a] = 1 .. Len(buckets[a])
  BY DEF TableSound, TableTypes
<1>3. \A a, b : <<a, b>> \in places <=> IsNode(a, b) /\ NotBehind(i, j, a, b)
  <2>1. ASSUME NEW a, NEW b, <<a, b>> \in places PROVE IsNode(a, b) /\ NotBehind(i, j, a, b)
    <3>1. a \in i .. capacity /\ b \in 1 .. Cardinality(Keys) /\ b \in DOMAIN buckets[a] /\ (a = i => b >= j)
      BY <2>1
    <3>2. a \in 1 .. capacity /\ (i < a \/ i = a)
      BY <1>2, <3>1
    <3>3. b \in 1 .. Len(buckets[a])
      BY <1>2, <3>1, <3>2
    <3>4. IsNode(a, b)
      BY <3>2, <3>3 DEF IsNode
    <3>5. b \in Nat
      BY <3>4, NodeIs
    <3> QED
      BY <3>1, <3>2, <3>4, <3>5 DEF NotBehind
  <2>2. ASSUME NEW a, NEW b, IsNode(a, b), NotBehind(i, j, a, b) PROVE <<a, b>> \in places
    <3>1. a \in Nat \ {0} /\ b \in Nat \ {0} /\ b \in 1 .. Cardinality(Keys)
      BY <2>2, NodeIs, NodesFit
    <3>2. a \in i .. capacity /\ (a = i => b >= j)
      BY <1>2, <2>2, <3>1 DEF IsNode, NotBehind
    <3>3. b \in DOMAIN buckets[a]
      BY <1>2, <2>2 DEF IsNode
    <3> QED
      BY <3>1, <3>2, <3>3
  <2> QED
    BY <2>1, <2>2, Zenon
<1>4. \A p \in places : p = <<p[1], p[2]>> /\ p[1] \in Nat /\ p[2] \in Nat
  <2> SUFFICES ASSUME NEW p \in (i .. capacity) \X (1 .. Cardinality(Keys))
               PROVE  p = <<p[1], p[2]>> /\ p[1] \in Nat /\ p[2] \in Nat
    OBVIOUS
  <2> QED
    BY <1>2
<1> HIDE DEF places, first, node
<1>5. CASE places = {}
  <2>1. \A a, b : ~(IsNode(a, b) /\ NotBehind(i, j, a, b))
    BY <1>3, <1>5
  <2> QED
    BY <1>1, <1>5, <2>1 DEF Leads
<1>6. CASE places # {}
  <2>1. places \in SUBSET (Nat \X Nat)
    BY <1>4
  <2>2. \E p \in places : \A q \in places : p[1] < q[1] \/ (p[1] = q[1] /\ p[2] <= q[2])
    BY <1>6, <2>1, FirstPair
  <2>3. first \in places /\ \A q \in places : first[1] < q[1] \/ (first[1] = q[1] /\ first[2] <= q[2])
    BY <2>2 DEF first
  <2> DEFINE a == first[1]
             b == first[2]
  <2>4. IsNode(a, b) /\ NotBehind(i, j, a, b)
    BY <1>3, <1>4, <2>3
  <2>5. Position(i, j) = At(a, b, 1)
    BY <1>1, <1>6 DEF At, ValueAt, node
  <2>6. ASSUME NEW ii, NEW jj, IsNode(ii, jj), NotBehind(i, j, ii, jj) PROVE NotBehind(a, b, ii, jj)
    <3>1. <<ii, jj>> \in places
      BY <1>3, <2>6
    <3> HIDE DEF a, b
    <3>2. a < ii \/ (a = ii /\ b <= jj)
      BY <2>3, <3>1 DEF a, b
    <3> QED
      BY <3>2 DEF NotBehind
  <2> HIDE DEF a, b
  <2> QED
    BY <2>4, <2>5, <2>6 DEF Leads
<1> QED
  BY <1>5, <1>6

\* A value is at a place that the walk has left, or is still to come to.
Behind(v, i, j, n) == \E a, b, c : IsPlace(a, b, c) /\ ValueAt(a, b, c) = v /\ Before(a, b, c, i, j, n)

Ahead(v, i, j, n) == \E a, b, c : IsPlace(a, b, c) /\ ValueAt(a, b, c) = v /\ ~Before(a, b, c, i, j, n)

\* The walk that has visited w and is at a place has left every value of w, and has not
\* left out one of S.
Reached(w, S, i, j, n) ==
  /\ \A v \in ToSet(w) : Behind(v, i, j, n)
  /\ \A v \in S : v \in ToSet(w) \/ Ahead(v, i, j, n)

\* What holds while cctable_iter is at p.
Walking(p, w, S) ==
  /\ Ready /\ w \in Seq(Values) /\ IsInjective(w)
  /\ \E i, j, n : IsPlace(i, j, n) /\ p = At(i, j, n) /\ Reached(w, S, i, j, n)

\* Two places with the same places behind them.
LEMMA ReachedSame ==
  ASSUME NEW w, NEW S, NEW i, NEW j, NEW n, NEW ii, NEW jj, NEW nn, Reached(w, S, i, j, n),
         \A a, b, c : IsPlace(a, b, c) => (Before(a, b, c, i, j, n) <=> Before(a, b, c, ii, jj, nn))
  PROVE  Reached(w, S, ii, jj, nn)
<1>1. \A v : Behind(v, i, j, n) => Behind(v, ii, jj, nn)
  BY Zenon DEF Behind
<1>2. \A v : Ahead(v, i, j, n) => Ahead(v, ii, jj, nn)
  BY Zenon DEF Ahead
<1> QED
  BY <1>1, <1>2 DEF Reached

\* One value more at the end of a sequence.
LEMMA AppendIs ==
  ASSUME NEW w \in Seq(Values), NEW v \in Values, NEW u, u = Append(w, v)
  PROVE  /\ u \in Seq(Values) /\ ToSet(u) = ToSet(w) \cup {v}
         /\ IsInjective(w) /\ v \notin ToSet(w) => IsInjective(u)
<1>1. /\ u \in Seq(Values) /\ Len(w) \in Nat /\ Len(u) = Len(w) + 1 /\ u[Len(w) + 1] = v
      /\ \A i \in 1 .. Len(w) : u[i] = w[i]
      /\ DOMAIN w = 1 .. Len(w) /\ DOMAIN u = 1 .. Len(w) + 1
  OBVIOUS
<1>2. ASSUME NEW x PROVE x \in ToSet(u) <=> x \in ToSet(w) \cup {v}
  <2>1. x \in ToSet(u) <=> \E i \in 1 .. Len(w) + 1 : u[i] = x
    BY <1>1 DEF ToSet
  <2>2. x \in ToSet(w) <=> \E i \in 1 .. Len(w) : w[i] = x
    BY <1>1 DEF ToSet
  <2>3. Len(w) + 1 \in 1 .. Len(w) + 1 /\ \A i \in 1 .. Len(w) + 1 : i = Len(w) + 1 \/ i \in 1 .. Len(w)
    BY <1>1
  <2>4. \A i \in 1 .. Len(w) : i \in 1 .. Len(w) + 1
    BY <1>1
  <2> QED
    BY <1>1, <2>1, <2>2, <2>3, <2>4
<1>3. ToSet(u) = ToSet(w) \cup {v}
  BY <1>2
<1>4. ASSUME IsInjective(w), v \notin ToSet(w) PROVE IsInjective(u)
  <2>1. \A i \in 1 .. Len(w) : w[i] # v
    BY <1>1, <1>4 DEF ToSet
  <2>2. \A i, j \in 1 .. Len(w) : w[i] = w[j] => i = j
    BY <1>1, <1>4 DEF IsInjective
  <2> SUFFICES ASSUME NEW i \in 1 .. Len(w) + 1, NEW j \in 1 .. Len(w) + 1, u[i] = u[j] PROVE i = j
    BY <1>1 DEF IsInjective
  <2>3. (i = Len(w) + 1 \/ i \in 1 .. Len(w)) /\ (j = Len(w) + 1 \/ j \in 1 .. Len(w))
    BY <1>1
  <2> QED
    BY <1>1, <2>1, <2>2, <2>3
<1> QED
  BY <1>1, <1>3, <1>4

\* A visit takes the walk past the value it is at.
LEMMA VisitReaches ==
  ASSUME TableSound, NEW w \in Seq(Values), NEW S, NEW i, NEW j, NEW n, IsPlace(i, j, n),
         Reached(w, S, i, j, n), IsInjective(w), NEW u, u = Append(w, ValueAt(i, j, n))
  PROVE  u \in Seq(Values) /\ IsInjective(u) /\ Reached(u, S, i, j, n + 1)
<1> DEFINE v == ValueAt(i, j, n)
<1>1. v \in Values /\ i \in Nat /\ j \in Nat /\ n \in Nat
  BY PlaceIs, NodeIs
<1>2. v \notin ToSet(w)
  <2>1. ASSUME Behind(v, i, j, n) PROVE FALSE
    <3>1. PICK a, b, c : IsPlace(a, b, c) /\ ValueAt(a, b, c) = v /\ Before(a, b, c, i, j, n)
      BY <2>1 DEF Behind
    <3>2. a = i /\ b = j /\ c = n
      BY <3>1, Zenon DEF TableSound, Once
    <3> QED
      BY <1>1, <3>1, <3>2 DEF Before
  <2> QED
    BY <2>1 DEF Reached
<1> HIDE DEF v
<1>3. u \in Seq(Values) /\ IsInjective(u) /\ ToSet(u) = ToSet(w) \cup {v}
  <2>1. u = Append(w, v)
    BY DEF v
  <2> QED
    BY <1>1, <1>2, <2>1, AppendIs
<1>4. \A a, b, c : IsPlace(a, b, c) => a \in Nat /\ b \in Nat /\ c \in Nat
  BY PlaceIs, NodeIs
<1>5. \A a, b, c : IsPlace(a, b, c) /\ Before(a, b, c, i, j, n) => Before(a, b, c, i, j, n + 1)
  BY <1>1, <1>4 DEF Before
<1>6. \A a, b, c : IsPlace(a, b, c) /\ ~Before(a, b, c, i, j, n) =>
        (a = i /\ b = j /\ c = n) \/ ~Before(a, b, c, i, j, n + 1)
  BY <1>1, <1>4 DEF Before
<1>7. Behind(v, i, j, n + 1)
  <2>1. Before(i, j, n, i, j, n + 1)
    BY <1>1 DEF Before
  <2> QED
    BY <2>1 DEF Behind, v
<1>8. \A x : Behind(x, i, j, n) => Behind(x, i, j, n + 1)
  BY <1>5, Zenon DEF Behind
<1>9. \A x : Ahead(x, i, j, n) => x = v \/ Ahead(x, i, j, n + 1)
  BY <1>6, Zenon DEF Ahead, v
<1>10. Reached(u, S, i, j, n + 1)
  BY <1>3, <1>7, <1>8, <1>9 DEF Reached
<1> QED
  BY <1>3, <1>10

\* The next node keeps what the walk has reached, and when there is none it has reached all.
LEMMA LeadReaches ==
  ASSUME TableSound, Ready, NEW w \in Seq(Values), IsInjective(w), NEW S, NEW i \in Nat, NEW j \in Nat,
         Reached(w, S, i, j, 1), NEW p, Leads(i, j, p)
  PROVE  (p = None => S \subseteq ToSet(w)) /\ (p # None => Walking(p, w, S))
<1>1. \A a, b, c : IsPlace(a, b, c) => /\ a \in Nat /\ b \in Nat /\ c \in Nat \ {0} /\ IsNode(a, b)
                                       /\ Before(a, b, c, i, j, 1) <=> ~NotBehind(i, j, a, b)
  <2> SUFFICES ASSUME NEW a, NEW b, NEW c, IsPlace(a, b, c)
               PROVE  /\ a \in Nat /\ b \in Nat /\ c \in Nat \ {0} /\ IsNode(a, b)
                      /\ Before(a, b, c, i, j, 1) <=> ~NotBehind(i, j, a, b)
    OBVIOUS
  <2>1. a \in Nat /\ b \in Nat /\ c \in Nat \ {0} /\ IsNode(a, b)
    BY PlaceIs, NodeIs
  <2> QED
    BY <2>1 DEF Before, NotBehind
<1>2. CASE p = None /\ \A ii, jj : IsNode(ii, jj) => ~NotBehind(i, j, ii, jj)
  <2>1. \A v : ~Ahead(v, i, j, 1)
    BY <1>1, <1>2, Zenon DEF Ahead
  <2> QED
    BY <1>2, <2>1 DEF Reached
<1>3. ASSUME NEW a, NEW b, IsNode(a, b), NotBehind(i, j, a, b), p = At(a, b, 1),
             \A ii, jj : IsNode(ii, jj) /\ NotBehind(i, j, ii, jj) => NotBehind(a, b, ii, jj)
      PROVE  p # None /\ Walking(p, w, S)
  <2>1. a \in Nat /\ b \in Nat /\ IsPlace(a, b, 1)
    <3>1. a \in Nat /\ b \in Nat /\ Len(buckets[a][b].values) \in Nat \ {0}
      BY <1>3, NodeIs
    <3>2. 1 \in 1 .. Len(buckets[a][b].values)
      BY <3>1
    <3> QED
      BY <1>3, <3>1, <3>2 DEF IsNode, IsPlace
  <2>2. ASSUME NEW x, NEW y, NEW z, IsPlace(x, y, z)
        PROVE  Before(x, y, z, i, j, 1) <=> Before(x, y, z, a, b, 1)
    <3>1. /\ x \in Nat /\ y \in Nat /\ z \in Nat \ {0} /\ IsNode(x, y)
          /\ Before(x, y, z, i, j, 1) <=> ~NotBehind(i, j, x, y)
      BY <1>1, <2>2
    <3>2. NotBehind(i, j, x, y) => NotBehind(a, b, x, y)
      BY <1>3, <3>1
    <3>3. Before(x, y, z, a, b, 1) <=> ~NotBehind(a, b, x, y)
      BY <2>1, <3>1 DEF Before, NotBehind
    <3>4. NotBehind(a, b, x, y) => NotBehind(i, j, x, y)
      BY <1>3, <2>1, <3>1 DEF NotBehind
    <3> QED
      BY <3>1, <3>2, <3>3, <3>4
  <2>3. Reached(w, S, a, b, 1)
    BY <2>2, ReachedSame
  <2>4. p # None
    <3>1. p \in Positions
      BY <1>3, <2>1, NodeIs, PlaceIs DEF At, Positions
    <3> QED
      BY <3>1 DEF Positions
  <2> QED
    BY <1>3, <2>1, <2>3, <2>4 DEF Walking
<1> QED
  BY <1>2, <1>3 DEF Leads

\* Where the walk goes from a place.
LEMMA AfterIs ==
  ASSUME TableSound, NEW i, NEW j, NEW n, IsPlace(i, j, n), NEW p, p = At(i, j, n)
  PROVE  /\ n < Len(buckets[i][j].values) => After(p) = At(i, j, n + 1)
         /\ ~(n < Len(buckets[i][j].values)) => After(p) = Position(i, j + 1)
<1> DEFINE s == buckets[i]
           values == s[j].values
           m == CHOOSE x \in DOMAIN values : values[x] = p.value
<1>1. /\ p.bucket = i /\ p.key = s[j].key /\ p.value = values[n]
      /\ \A v : [p EXCEPT !.value = v] = [bucket |-> i, key |-> s[j].key, value |-> v]
  BY DEF At, ValueAt
<1>2. /\ i \in 1 .. capacity /\ s \in Seq(NodeSet) /\ j \in 1 .. Len(s)
      /\ values \in Seq(Values) /\ n \in 1 .. Len(values) /\ DOMAIN values = 1 .. Len(values)
  BY PlaceIs, NodeIs DEF IsNode
<1>3. NodeIn(s, p.key) = j
  <2>1. \A x \in 1 .. Len(s) : s[x].key = s[j].key => x = j
    BY <1>2 DEF TableSound, Placed
  <2> HIDE DEF s
  <2>2. NodeIn(s, p.key) \in 1 .. Len(s) /\ s[NodeIn(s, p.key)].key = s[j].key
    BY <1>1, <1>2, NodeInIs
  <2> QED
    BY <2>1, <2>2
<1>4. m = n
  <2>1. m \in 1 .. Len(values) /\ values[m] = values[n]
    <3> HIDE DEF values
    <3> QED
      BY <1>1, <1>2
  <2>2. IsPlace(i, j, m) /\ ValueAt(i, j, m) = ValueAt(i, j, n)
    BY <1>2, <2>1 DEF IsPlace, ValueAt
  <2> HIDE DEF m
  <2> QED
    BY <2>2, Zenon DEF TableSound, Once
<1>5. After(p) = IF m < Len(values) THEN [p EXCEPT !.value = values[m + 1]] ELSE Position(i, j + 1)
  BY <1>1, <1>3 DEF After
<1> HIDE DEF m, values, s
<1> QED
  BY <1>1, <1>4, <1>5 DEF At, ValueAt, values, s

\* A walk begins with everything ahead.
LEMMA BeginWalks ==
  ASSUME TableSound, Ready, NEW p, p = Position(1, 1), p # None
  PROVE  Walking(p, <<>>, Stored)
<1>1. 1 \in 1 .. capacity
  BY DEF Ready, TableSound, TableTypes
<1>2. Leads(1, 1, p)
  BY <1>1, PositionIs
<1>3. <<>> \in Seq(Values) /\ IsInjective(<<>>) /\ ToSet(<<>>) = {}
  BY DEF IsInjective, ToSet
<1>4. ASSUME NEW v \in Stored PROVE Ahead(v, 1, 1, 1)
  <2>1. PICK a, b, c : IsPlace(a, b, c) /\ ValueAt(a, b, c) = v
    BY <1>4, StoredIs DEF TableSound
  <2>2. a \in Nat \ {0} /\ b \in Nat \ {0} /\ c \in Nat \ {0}
    BY <2>1, PlaceIs, NodeIs
  <2>3. ~Before(a, b, c, 1, 1, 1)
    BY <2>2 DEF Before
  <2> QED
    BY <2>1, <2>3 DEF Ahead
<1>5. Reached(<<>>, Stored, 1, 1, 1)
  BY <1>3, <1>4 DEF Reached
<1> QED
  BY <1>2, <1>3, <1>5, LeadReaches

\* A visit keeps the walk going, and at its end it has visited all.
LEMMA VisitWalks ==
  ASSUME TableSound, Walking(at, visited, present),
         NEW p, p = After(at), NEW w, w = Append(visited, at.value)
  PROVE  /\ IsInjective(w)
         /\ p = None => present \subseteq ToSet(w)
         /\ p # None => Walking(p, w, present)
<1>1. PICK i, j, n : IsPlace(i, j, n) /\ at = At(i, j, n) /\ Reached(visited, present, i, j, n)
  BY DEF Walking
<1>2. Ready /\ visited \in Seq(Values) /\ IsInjective(visited) /\ at.value = ValueAt(i, j, n)
  BY <1>1 DEF Walking, At
<1>3. w \in Seq(Values) /\ IsInjective(w) /\ Reached(w, present, i, j, n + 1)
  BY <1>1, <1>2, VisitReaches
<1>4. /\ i \in 1 .. capacity /\ i \in Nat /\ j \in Nat \ {0} /\ IsNode(i, j)
      /\ n \in 1 .. Len(buckets[i][j].values) /\ n \in Nat /\ Len(buckets[i][j].values) \in Nat
  BY <1>1, PlaceIs, NodeIs DEF IsNode
<1>5. CASE n < Len(buckets[i][j].values)
  <2>1. p = At(i, j, n + 1)
    BY <1>1, <1>5, AfterIs
  <2>2. IsPlace(i, j, n + 1)
    BY <1>4, <1>5 DEF IsPlace, IsNode
  <2>3. p # None
    <3>1. p \in Positions
      BY <1>4, <2>1, <2>2, NodeIs, PlaceIs DEF At, Positions
    <3> QED
      BY <3>1 DEF Positions
  <2>4. Walking(p, w, present)
    BY <1>2, <1>3, <2>1, <2>2 DEF Walking
  <2> QED
    BY <1>3, <2>3, <2>4
<1>6. CASE ~(n < Len(buckets[i][j].values))
  <2>1. p = Position(i, j + 1)
    BY <1>1, <1>6, AfterIs
  <2>2. Leads(i, j + 1, p)
    BY <1>4, <2>1, PositionIs
  <2>3. ASSUME NEW a, NEW b, NEW c, IsPlace(a, b, c)
        PROVE  Before(a, b, c, i, j, n + 1) <=> Before(a, b, c, i, j + 1, 1)
    <3>1. a \in Nat /\ b \in Nat /\ c \in Nat \ {0} /\ c \in 1 .. Len(buckets[a][b].values)
      BY <2>3, PlaceIs, NodeIs
    <3>2. a = i /\ b = j => c < n + 1
      BY <1>4, <1>6, <3>1
    <3> QED
      BY <1>4, <3>1, <3>2 DEF Before
  <2>4. Reached(w, present, i, j + 1, 1)
    BY <1>3, <2>3, ReachedSame
  <2>5. PICK next \in Nat : next = j + 1
    BY <1>4
  <2>6. Leads(i, next, p) /\ Reached(w, present, i, next, 1)
    BY <2>2, <2>4, <2>5
  <2>7. (p = None => present \subseteq ToSet(w)) /\ (p # None => Walking(p, w, present))
    BY <1>2, <1>3, <1>4, <2>6, LeadReaches, Zenon
  <2> QED
    BY <1>3, <2>7
<1> QED
  BY <1>5, <1>6

\* An insertion moves the places and keeps their order.
LEMMA ShiftKeepsOrder ==
  ASSUME NEW fresh \in BOOLEAN, NEW b, NEW m, NEW i \in Nat, NEW j \in Nat, NEW n \in Nat,
         NEW ii \in Nat, NEW jj \in Nat, NEW nn \in Nat
  PROVE  Before(i, j, n, ii, jj, nn) <=>
           Before(i, j + NodeShift(fresh, b, i), n + ValueShift(fresh, b, m, i, j),
                  ii, jj + NodeShift(fresh, b, ii), nn + ValueShift(fresh, b, m, ii, jj))
<1>1. NodeShift(fresh, b, i) \in {0, 1} /\ NodeShift(fresh, b, ii) \in {0, 1}
  BY DEF NodeShift
<1>2. ValueShift(fresh, b, m, i, j) \in {0, 1} /\ ValueShift(fresh, b, m, ii, jj) \in {0, 1}
  BY DEF ValueShift
<1>3. i = ii => NodeShift(fresh, b, i) = NodeShift(fresh, b, ii)
  OBVIOUS
<1>4. i = ii /\ j = jj => ValueShift(fresh, b, m, i, j) = ValueShift(fresh, b, m, ii, jj)
  OBVIOUS
<1> QED
  BY <1>1, <1>2, <1>3, <1>4 DEF Before

\* What an insertion in the callback does to the walk.
LEMMA GrownWalks ==
  ASSUME TableSound, TableSound', Walking(at, visited, present), UNCHANGED walk, Ready',
         NEW fresh \in BOOLEAN, NEW b, NEW m, NEW v, Grown(fresh, b, m, v)
  PROVE  Walking(at, visited, present)'
<1>1. PICK i, j, n : IsPlace(i, j, n) /\ at = At(i, j, n) /\ Reached(visited, present, i, j, n)
  BY DEF Walking
<1> DEFINE J == j + NodeShift(fresh, b, i)
           N == n + ValueShift(fresh, b, m, i, j)
<1>2. IsPlace(i, J, N)' /\ ValueAt(i, J, N)' = ValueAt(i, j, n) /\ buckets'[i][J].key = buckets[i][j].key
  BY <1>1 DEF Grown
<1>3. at' = at /\ visited' = visited /\ present' = present
  BY DEF walk
<1>4. at' = At(i, J, N)'
  BY <1>1, <1>2, <1>3 DEF At
<1>5. i \in Nat /\ j \in Nat /\ n \in Nat
  BY <1>1, PlaceIs, NodeIs
<1>6. ASSUME NEW x, NEW c, NEW d, NEW e, IsPlace(c, d, e), ValueAt(c, d, e) = x
      PROVE  \E dd, ee : /\ IsPlace(c, dd, ee)' /\ ValueAt(c, dd, ee)' = x
                         /\ Before(c, d, e, i, j, n) <=> Before(c, dd, ee, i, J, N)
  <2> DEFINE dd == d + NodeShift(fresh, b, c)
             ee == e + ValueShift(fresh, b, m, c, d)
  <2>1. IsPlace(c, dd, ee)' /\ ValueAt(c, dd, ee)' = x
    BY <1>6 DEF Grown
  <2>2. c \in Nat /\ d \in Nat /\ e \in Nat
    BY <1>6, PlaceIs, NodeIs
  <2>3. Before(c, d, e, i, j, n) <=> Before(c, dd, ee, i, J, N)
    BY <1>5, <2>2, ShiftKeepsOrder
  <2> QED
    BY <2>1, <2>3
<1> HIDE DEF J, N
<1>7. ASSUME NEW x, Behind(x, i, j, n) PROVE Behind(x, i, J, N)'
  <2>1. PICK c, d, e : IsPlace(c, d, e) /\ ValueAt(c, d, e) = x /\ Before(c, d, e, i, j, n)
    BY <1>7 DEF Behind
  <2>2. PICK dd, ee : IsPlace(c, dd, ee)' /\ ValueAt(c, dd, ee)' = x /\ Before(c, dd, ee, i, J, N)
    BY <1>6, <2>1
  <2> QED
    BY <2>2 DEF Behind
<1>8. ASSUME NEW x, Ahead(x, i, j, n) PROVE Ahead(x, i, J, N)'
  <2>1. PICK c, d, e : IsPlace(c, d, e) /\ ValueAt(c, d, e) = x /\ ~Before(c, d, e, i, j, n)
    BY <1>8 DEF Ahead
  <2>2. PICK dd, ee : IsPlace(c, dd, ee)' /\ ValueAt(c, dd, ee)' = x /\ ~Before(c, dd, ee, i, J, N)
    BY <1>6, <2>1
  <2> QED
    BY <2>2 DEF Ahead
<1>9. Reached(visited, present, i, J, N)'
  BY <1>1, <1>3, <1>7, <1>8 DEF Reached
<1>10. visited' \in Seq(Values) /\ IsInjective(visited')
  BY <1>3 DEF Walking
<1> QED
  BY <1>2, <1>4, <1>9, <1>10 DEF Walking

\* What holds of the walk at any time.
WalkSound == at # None => clearing = 0 /\ Walking(at, visited, present)

\* Nothing that leaves the nodes alone disturbs a walk.
LEMMA WalkingKept ==
  ASSUME NEW p, NEW w, NEW S, Walking(p, w, S), UNCHANGED <<buckets, capacity>>
  PROVE  Walking(p, w, S)'
<1>1. Ready' /\ \A i, j, n : /\ IsPlace(i, j, n)' = IsPlace(i, j, n)
                             /\ ValueAt(i, j, n)' = ValueAt(i, j, n)
                             /\ At(i, j, n)' = At(i, j, n)
  BY DEF Walking, Ready, IsPlace, ValueAt, At
<1>2. \A i, j, n : Reached(w, S, i, j, n) => Reached(w, S, i, j, n)'
  <2>1. \A v, i, j, n : Behind(v, i, j, n) => Behind(v, i, j, n)'
    BY <1>1, Zenon DEF Behind
  <2>2. \A v, i, j, n : Ahead(v, i, j, n) => Ahead(v, i, j, n)'
    BY <1>1, Zenon DEF Ahead
  <2> QED
    BY <2>1, <2>2 DEF Reached
<1>3. PICK i, j, n : IsPlace(i, j, n) /\ p = At(i, j, n) /\ Reached(w, S, i, j, n)
  BY DEF Walking
<1>4. IsPlace(i, j, n)' /\ p = At(i, j, n)' /\ Reached(w, S, i, j, n)'
  BY <1>1, <1>2, <1>3
<1> QED
  BY <1>1, <1>4 DEF Walking

\* Every step keeps the walk, and its last one has visited everything.
LEMMA WalkStep ==
  ASSUME TableSound, WalkSound, [Next]_vars
  PROVE  /\ WalkSound'
         /\ IterVisit /\ at' = None => present \subseteq ToSet(visited') /\ IsInjective(visited')
<1>1. TableSound'
  BY SoundStep
<1>2. ASSUME UNCHANGED <<buckets, capacity, clearing, walk>> PROVE WalkSound'
  <2> SUFFICES ASSUME at # None PROVE clearing' = 0 /\ Walking(at, visited, present)'
    BY <1>2 DEF WalkSound, walk
  <2>0. clearing' = 0
    BY <1>2 DEF WalkSound
  <2>1. PICK p, w, S : p = at /\ w = visited /\ S = present
    OBVIOUS
  <2>2. Walking(p, w, S)'
    BY <1>2, <2>1, WalkingKept DEF WalkSound
  <2>3. at' = p /\ visited' = w /\ present' = S
    BY <1>2, <2>1 DEF walk
  <2> QED
    BY <2>0, <2>2, <2>3 DEF Walking, Reached
<1>3. CASE UNCHANGED vars
  <2>1. UNCHANGED <<buckets, capacity, clearing, walk>> /\ ~(IterVisit /\ at' = None)
    BY <1>3 DEF vars, table, deinit, walk, IterVisit
  <2> QED
    BY <1>2, <2>1
<1>4. CASE IterVisit
  <2>1. at # None /\ visited' = Append(visited, at.value) /\ at' = After(at)
        /\ present' = present /\ UNCHANGED <<buckets, capacity, clearing>>
    BY <1>4 DEF IterVisit, table, deinit
  <2>2. PICK p, w, S : p = at' /\ w = visited' /\ S = present
    OBVIOUS
  <2>3. /\ IsInjective(w)
        /\ p = None => present \subseteq ToSet(w)
        /\ p # None => Walking(p, w, present)
    BY <2>1, <2>2, VisitWalks DEF WalkSound
  <2>4. p # None => Walking(p, w, S)'
    BY <2>1, <2>2, <2>3, WalkingKept
  <2>5. WalkSound'
    BY <2>1, <2>2, <2>4 DEF WalkSound, Walking, Reached
  <2> QED
    BY <2>2, <2>3, <2>5
<1>5. CASE IterBegin
  <2>1. /\ Ready /\ at = None /\ at' = Position(1, 1) /\ visited' = <<>> /\ present' = Stored
        /\ UNCHANGED <<buckets, capacity>> /\ clearing' = 0
    BY <1>5 DEF IterBegin, Usable, table, deinit
  <2>2. PICK p, w, S : p = at' /\ w = <<>> /\ S = Stored
    OBVIOUS
  <2>3. p # None => Walking(p, w, S)
    BY <2>1, <2>2, BeginWalks
  <2>4. p # None => Walking(p, w, S)'
    BY <2>1, <2>3, WalkingKept
  <2>5. WalkSound'
    BY <2>1, <2>2, <2>4 DEF WalkSound, Walking, Reached
  <2> QED
    BY <2>1, <2>5 DEF IterVisit
<1>6. ASSUME UNCHANGED walk, at = None PROVE WalkSound' /\ ~IterVisit
  BY <1>6 DEF WalkSound, walk, IterVisit
<1>7. ASSUME NEW n \in Counts, NEW multiple \in BOOLEAN, cctable_init(n, multiple)
      PROVE  WalkSound' /\ ~IterVisit
  <2>1. ~Ready /\ UNCHANGED walk
    BY <1>7 DEF cctable_init
  <2>2. at = None
    BY <2>1 DEF WalkSound, Walking
  <2> QED
    BY <1>6, <2>1, <2>2
<1>8. CASE cctable_deinit
  <2>1. UNCHANGED walk
    BY <1>8 DEF cctable_deinit, DeinitBegin, DeinitValue, DeinitBucket, DeinitEnd
  <2>2. at = None
    <3>1. capacity \in Nat /\ buckets \in [1 .. capacity -> Seq(NodeSet)]
      BY DEF TableSound, TableTypes
    <3>2. clearing # 0 \/ \E destructor \in BOOLEAN : DeinitBegin(destructor)
      BY <1>8, <3>1 DEF cctable_deinit, DeinitValue, DeinitBucket, DeinitEnd
    <3> QED
      BY <3>2 DEF WalkSound, DeinitBegin
  <2> QED
    BY <1>6, <2>1, <2>2
<1>9. ASSUME NEW k \in Keys, cctable_get(k) PROVE WalkSound' /\ ~(IterVisit /\ at' = None)
  <2>1. UNCHANGED <<buckets, capacity, clearing, walk>>
    BY <1>9 DEF cctable_get, table, deinit
  <2>2. ~(IterVisit /\ at' = None)
    BY <2>1 DEF walk, IterVisit
  <2> QED
    BY <1>2, <2>1, <2>2
<1>10. ASSUME NEW k \in Keys, NEW v \in Values, cctable_insert(k, v)
       PROVE  WalkSound' /\ ~(IterVisit /\ at' = None)
  <2>1. PICK b : b = BucketOf(k)
    OBVIOUS
  <2>2. Ready /\ Ready' /\ UNCHANGED <<capacity, clearing, walk>>
    BY <1>10 DEF cctable_insert, Usable, Ready, deinit
  <2>3. UNCHANGED buckets \/ \E fresh \in BOOLEAN : \E m : Grown(fresh, b, m, v)
    BY <1>10, <2>1, InsertCases, Zenon
  <2>4. WalkSound'
    <3>1. CASE UNCHANGED buckets
      BY <1>2, <2>2, <3>1
    <3>2. ASSUME NEW fresh \in BOOLEAN, NEW m, Grown(fresh, b, m, v), at # None PROVE WalkSound'
      <4>1. clearing = 0 /\ Walking(at, visited, present)
        BY <3>2 DEF WalkSound
      <4>2. Walking(at, visited, present)'
        BY <1>1, <2>2, <3>2, <4>1, GrownWalks
      <4> QED
        BY <2>2, <4>1, <4>2 DEF WalkSound
    <3>3. CASE at = None
      BY <1>6, <2>2, <3>3
    <3> QED
      BY <2>3, <3>1, <3>2, <3>3
  <2>5. ~(IterVisit /\ at' = None)
    BY <2>2 DEF walk, IterVisit
  <2> QED
    BY <2>4, <2>5
<1> QED
  BY <1>3, <1>4, <1>5, <1>7, <1>8, <1>9, <1>10 DEF Next

\* A walk gives every value that was in the table when it began to the callback, and no
\* value twice, whatever the callback inserts meanwhile and wherever it falls.
THEOREM WalkIsComplete == Spec => WalkVisitsAll
<1>1. Init => WalkSound
  BY DEF Init, WalkSound
<1>2. TableSound /\ WalkSound /\ [Next]_vars => WalkSound'
  BY WalkStep
<1>3. TableSound /\ WalkSound /\ [Next]_vars
      => [IterVisit /\ at' = None => present \subseteq ToSet(visited') /\ IsInjective(visited')]_vars
  BY WalkStep
<1> QED
  BY <1>1, <1>2, <1>3, TableSafety, PTL DEF Spec, WalkVisitsAll
=============================================================================
