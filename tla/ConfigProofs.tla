---------------------------- MODULE ConfigProofs ----------------------------
(***************************************************************************)
(* Proofs about Config and Pid, for files of any lines and programs with    *)
(* any gains: what the getters find is what the file says, every string is  *)
(* freed once, and a controller is loaded whole and settles.                *)
(***************************************************************************)
EXTENDS Pid, SequenceTheorems, TLAPS

USE ConfigAssumption DEF ConfigAssumption

-----------------------------------------------------------------------------
(* The inductive invariant.                                                  *)

Owned == [at : Nat, text : Keys \cup Strings]

EntrySet ==
  [key : Owned, kind : {"nil", "str", "num", "bool"}, str : Owned \cup {Null, Wild},
   f64 : Int \cup {Wild}, i64 : Int \cup {Wild}, b : BOOLEAN \cup {Wild}]

LineSet == Lines \cup {Comment, NoColon}

CfgTypes ==
  /\ cfg \in {"none", "parsing", "loaded", "deleted"}
  /\ entries \in Seq(EntrySet)
  /\ capacity \in Nat
  /\ heap \subseteq Owned
  /\ allocs \in Nat
  /\ seen \in Seq(LineSet)
  /\ success \in BOOLEAN
  /\ fault \in BOOLEAN

Places == 1 .. Len(entries)

\* Every entry has a key of its own.
Keyed == /\ \A i \in Places : entries[i].key.text \in Keys
         /\ \A i, j \in Places : entries[i].key.text = entries[j].key.text => i = j

\* What the getters rely on to find v in e, with the strings h on the heap.
Holds(h, e, v) ==
  /\ v.class = "number" => e.kind = "num" /\ e.f64 = v.is /\ e.i64 \in ToInt(v.is)
  /\ v.class = "text" => e.kind = "str" /\ e.str \in h /\ e.str.text = v.is
  /\ v.class \in {"true", "false"} => e.kind = "bool" /\ e.b = (v.class = "true")

\* The last of some lines.
LastOf(S, m) == m \in S /\ \A j \in S : j <= m

\* A key that the file gives a good value has an entry, with the last of them.
Follows ==
  \A k \in Keys : GoodFor(k) # {} =>
    \E m \in DOMAIN seen, i \in Places :
      LastOf(GoodFor(k), m) /\ entries[i].key.text = k /\ Holds(heap, entries[i], seen[m].value)

\* A string on the heap is reached from an entry, or its line was overruled.
Kept(s) == \E i \in Places : s = entries[i].key \/ (entries[i].kind = "str" /\ s = entries[i].str)

Overruled(s) ==
  \E i, j \in DOMAIN seen :
    /\ i < j
    /\ {i, j} \subseteq UNION {GoodFor(k) : k \in Keys}
    /\ seen[i].key = seen[j].key
    /\ seen[i].value = [class |-> "text", is |-> s.text]

\* The keys are on the heap, which holds nothing else that is not accounted for.
HeapKept == /\ \A s \in heap : s.at \in 1 .. allocs /\ (Kept(s) \/ Overruled(s))
            /\ \A i \in Places : entries[i].key \in heap

\* The texts of entries are on the heap, and each is pointed to once.
TextsOwned ==
  \A i \in Places : entries[i].kind = "str" =>
    /\ entries[i].str \in heap
    /\ \A j \in Places : /\ entries[i].str # entries[j].key
                         /\ entries[j].kind = "str" /\ entries[i].str = entries[j].str => i = j

\* No entry is left without a value: what an error leaves is not.
Backed == \A i \in Places : GoodFor(entries[i].key.text) # {}

CfgInv ==
  /\ CfgTypes /\ Keyed
  /\ Len(entries) <= capacity
  /\ cfg \in {"none", "parsing"} => success
  /\ cfg # "deleted" => ~fault /\ Follows /\ HeapKept
  /\ cfg # "deleted" /\ success => Backed /\ TextsOwned
  /\ cfg = "deleted" => (success => ~fault) /\ \A s \in heap : Overruled(s)

-----------------------------------------------------------------------------
(* Looking entries and lines up.                                             *)

\* The search finds the one entry of a key.
LEMMA FindIs ==
  ASSUME CfgTypes, Keyed, NEW k
  PROVE  /\ find_entry(k) = 0 <=> \A i \in Places : entries[i].key.text # k
         /\ \A i \in Places : entries[i].key.text = k => find_entry(k) = i
<1> DEFINE hits == {i \in DOMAIN entries : entries[i].key.text = k}
<1>1. DOMAIN entries = Places /\ Len(entries) \in Nat
  BY DEF CfgTypes, Places
<1>2. find_entry(k) = IF hits = {} THEN 0 ELSE CHOOSE i \in hits : \A j \in hits : i <= j
  BY DEF find_entry
<1>3. ASSUME NEW i \in Places, entries[i].key.text = k PROVE find_entry(k) = i
  <2>1. hits = {i}
    BY <1>1, <1>3 DEF Keyed
  <2>2. i <= i
    BY <1>1 DEF Places
  <2> HIDE DEF hits
  <2>3. (CHOOSE x \in hits : \A y \in hits : x <= y) = i
    BY <2>1, <2>2
  <2> QED
    BY <1>2, <2>1, <2>3
<1>4. (\A i \in Places : entries[i].key.text # k) => find_entry(k) = 0
  BY <1>1, <1>2
<1>5. find_entry(k) = 0 => \A i \in Places : entries[i].key.text # k
  BY <1>1, <1>3 DEF Places
<1> QED
  BY <1>3, <1>4, <1>5

\* The line that was read is the last of its key, if it is good, and of no other.
LEMMA GoodIs ==
  ASSUME CfgTypes, NEW line \in LineSet, seen' = Append(seen, line), NEW k
  PROVE  /\ Len(seen) \in Nat /\ Len(seen') = Len(seen) + 1
         /\ seen' \in Seq(LineSet) /\ seen'[Len(seen) + 1] = line
         /\ \A m \in 1 .. Len(seen) : seen'[m] = seen[m]
         /\ GoodFor(k) \subseteq 1 .. Len(seen)
         /\ GoodFor(k)' = GoodFor(k) \cup (IF line.key = k /\ line.value.class # "bad"
                                           THEN {Len(seen) + 1} ELSE {})
<1> DEFINE t == Append(seen, line)
<1>1. seen \in Seq(LineSet) /\ Len(seen) \in Nat
  BY DEF CfgTypes
<1>2. /\ t \in Seq(LineSet) /\ Len(t) = Len(seen) + 1 /\ t[Len(seen) + 1] = line
      /\ \A m \in 1 .. Len(seen) : t[m] = seen[m]
      /\ DOMAIN seen = 1 .. Len(seen) /\ DOMAIN t = 1 .. Len(seen) + 1
  BY <1>1
<1>3. seen' = t
  OBVIOUS
<1> HIDE DEF t
<1>4. GoodFor(k) = {i \in 1 .. Len(seen) : seen[i].key = k /\ seen[i].value.class # "bad"}
  BY <1>2 DEF GoodFor
<1>5. GoodFor(k)' = {i \in 1 .. Len(seen) + 1 : t[i].key = k /\ t[i].value.class # "bad"}
  BY <1>2, <1>3 DEF GoodFor
<1>6. \A i : i \in 1 .. Len(seen) + 1 <=> i \in 1 .. Len(seen) \/ i = Len(seen) + 1
  BY <1>1
<1>7. GoodFor(k)' = GoodFor(k) \cup (IF line.key = k /\ line.value.class # "bad"
                                     THEN {Len(seen) + 1} ELSE {})
  BY <1>2, <1>4, <1>5, <1>6
<1> QED
  BY <1>1, <1>2, <1>3, <1>4, <1>7

-----------------------------------------------------------------------------
(* What a line does.                                                         *)

\* What an entry becomes by a value that is good; n numbers the string of a text.
Becomes(e, v, n) ==
  /\ v.class = "number" => e.kind = "num" /\ e.f64 = v.is /\ e.i64 \in ToInt(v.is)
  /\ v.class = "text" => e.kind = "str" /\ e.str = String(n, v.is)
  /\ v.class \in {"true", "false"} => e.kind = "bool" /\ e.b = (v.class = "true")

\* A value is of one of five classes.
LEMMA ClassIs ==
  ASSUME NEW v \in Values
  PROVE  /\ v.class \in {"number", "text", "true", "false", "bad"}
         /\ v.class = "number" => v.is \in Numbers
         /\ v.class = "text" => v.is \in Strings
         /\ v.class = "text" => v = [class |-> "text", is |-> v.is]
<1>1. CASE v \in [class : {"number"}, is : Numbers]
  BY <1>1
<1>2. CASE v \in [class : {"text"}, is : Strings]
  BY <1>2
<1>3. CASE v \in [class : {"true", "false", "bad"}, is : {Null}]
  BY <1>3
<1> QED
  BY <1>1, <1>2, <1>3 DEF Values

\* A double is taken to an int.
LEMMA IntIs == ASSUME NEW n \in Int PROVE ToInt(n) \subseteq Int
<1> DEFINE whole == IF n < 0 THEN -((-n) \div 2) ELSE n \div 2
<1>1. ToInt(n) = IF whole \in -IntMax - 1 .. IntMax THEN {whole} ELSE {0, IntMax, -IntMax - 1}
  BY DEF ToInt
<1>2. whole \in Int
  OBVIOUS
<1> HIDE DEF whole
<1> QED
  BY <1>1, <1>2

\* An entry by its fields.
Record(k, kind, s, f, i, b) == [key |-> k, kind |-> kind, str |-> s, f64 |-> f, i64 |-> i, b |-> b]

\* The entry e is d, but for new values in all the fields but the key.
Changed(d, e, kind, f, i, b, s) ==
  \/ e = [d EXCEPT !.kind = kind, !.f64 = f, !.i64 = i, !.b = b, !.str = s]
  \/ e = [d EXCEPT !.kind = kind, !.str = s, !.b = b, !.i64 = i, !.f64 = f]

\* What such an entry is.
IsNow(d, e, kind, f, i, b, s) ==
  /\ e \in EntrySet /\ e.key = d.key
  /\ e.kind = kind /\ e.f64 = f /\ e.i64 = i /\ e.b = b /\ e.str = s

\* An entry that is changed is one.
LEMMA ChangedIs ==
  ASSUME NEW d \in EntrySet, NEW kind \in {"num", "str", "bool"}, NEW f \in Int, NEW i \in Int,
         NEW b \in BOOLEAN, NEW s \in Owned \cup {Null, Wild}, NEW e, Changed(d, e, kind, f, i, b, s)
  PROVE  IsNow(d, e, kind, f, i, b, s)
<1>1. d = Record(d.key, d.kind, d.str, d.f64, d.i64, d.b)
  BY Zenon DEF EntrySet, Record
<1>2. PICK k, c, ss, ff, ii, bb : k = d.key /\ d = Record(k, c, ss, ff, ii, bb)
  BY <1>1
<1>3. kind \in {"nil", "str", "num", "bool"} /\ f \in Int \cup {Wild} /\ i \in Int \cup {Wild}
      /\ b \in BOOLEAN \cup {Wild}
  BY Zenon
<1>4. e = Record(k, kind, s, f, i, b)
  <2>1. CASE e = [d EXCEPT !.kind = kind, !.f64 = f, !.i64 = i, !.b = b, !.str = s]
    BY <1>2, <2>1, Zenon DEF Record
  <2>2. CASE e = [d EXCEPT !.kind = kind, !.str = s, !.b = b, !.i64 = i, !.f64 = f]
    BY <1>2, <2>2, Zenon DEF Record
  <2> QED
    BY <2>1, <2>2, Zenon DEF Changed
<1>5. e.key = k /\ e.kind = kind /\ e.f64 = f /\ e.i64 = i /\ e.b = b /\ e.str = s
  BY <1>4, Zenon DEF Record
<1>6. k \in Owned
  BY <1>2 DEF EntrySet
<1>7. e \in EntrySet
  BY <1>3, <1>4, <1>6, Zenon DEF Record, EntrySet
<1> QED
  BY <1>2, <1>5, <1>7, Zenon DEF IsNow

\* What parse_value makes of an entry.
LEMMA ValueIs ==
  ASSUME NEW d \in EntrySet, NEW v \in Values, NEW n \in Nat, NEW e \in parse_value(d, v, n)
  PROVE  /\ e \in EntrySet /\ e.key = d.key /\ Becomes(e, v, n)
         /\ v.class = "bad" => e = d
<1>1. CASE v.class = "number"
  <2>1. v.is \in Int /\ ToInt(v.is) \subseteq Int
    BY <1>1, ClassIs, IntIs
  <2>2. e \in parse_number(d, v.is)
    BY <1>1 DEF parse_value
  <2>3. PICK i \in ToInt(v.is) :
          e = [d EXCEPT !.kind = "num", !.f64 = v.is, !.i64 = i, !.b = i # 0, !.str = Null]
    BY <2>2, Zenon DEF parse_number
  <2>4. PICK b \in BOOLEAN, f \in Int : b = (i # 0) /\ f = v.is
    BY <2>1
  <2>5. i \in Int /\ Changed(d, e, "num", f, i, b, Null)
    BY <2>1, <2>3, <2>4, Zenon DEF Changed
  <2>6. IsNow(d, e, "num", f, i, b, Null)
    BY <2>5, ChangedIs
  <2>7. e \in EntrySet /\ e.key = d.key /\ e.kind = "num" /\ e.f64 = f /\ e.i64 = i
    BY <2>6, Zenon DEF IsNow
  <2> QED
    BY <1>1, <2>3, <2>4, <2>7 DEF Becomes
<1>2. CASE v.class = "text"
  <2>1. PICK s \in Owned : s = String(n, v.is)
    BY <1>2, ClassIs DEF String, Owned
  <2>2. e = [d EXCEPT !.kind = "str", !.f64 = 0, !.i64 = 0, !.b = TRUE, !.str = s]
    BY <1>2, <2>1 DEF parse_value, parse_string
  <2>3. PICK i \in Int : i = 0
    OBVIOUS
  <2>4. Changed(d, e, "str", i, i, TRUE, s) /\ TRUE \in BOOLEAN
    BY <2>2, <2>3, Zenon DEF Changed
  <2>5. IsNow(d, e, "str", i, i, TRUE, s)
    BY <2>4, ChangedIs
  <2>6. e \in EntrySet /\ e.key = d.key /\ e.kind = "str" /\ e.str = s
    BY <2>5, Zenon DEF IsNow
  <2> QED
    BY <1>2, <2>1, <2>6 DEF Becomes
<1>3. CASE v.class \in {"true", "false"}
  <2>1. PICK b \in BOOLEAN : b = (v.class = "true")
    OBVIOUS
  <2>2. e \in parse_bool(d, b)
    BY <1>3, <2>1 DEF parse_value
  <2>3. PICK i \in Int, f \in Int : i = (IF b THEN 1 ELSE 0) /\ f = (IF b THEN 2 ELSE 0)
    OBVIOUS
  <2>4. e = [d EXCEPT !.kind = "bool", !.str = Null, !.b = b, !.i64 = i, !.f64 = f]
    BY <2>2, <2>3, Zenon DEF parse_bool
  <2>5. Changed(d, e, "bool", f, i, b, Null)
    BY <2>4, Zenon DEF Changed
  <2>6. IsNow(d, e, "bool", f, i, b, Null)
    BY <2>5, ChangedIs
  <2>7. e \in EntrySet /\ e.key = d.key /\ e.kind = "bool" /\ e.b = b
    BY <2>6, Zenon DEF IsNow
  <2> QED
    BY <1>3, <2>1, <2>7 DEF Becomes
<1>4. CASE v.class = "bad"
  <2>1. e = d
    BY <1>4 DEF parse_value
  <2> QED
    BY <1>4, <2>1 DEF Becomes
<1> QED
  BY <1>1, <1>2, <1>3, <1>4, ClassIs

\* The texts that a line puts on the heap in the entry e.
Texts(line, e) == IF line.value.class = "text" THEN {e.str} ELSE {}

\* What a line with a key does: the entry i becomes e and all others stay.
Writes(line, i, e) ==
  /\ entries' \in Seq(EntrySet) /\ i \in 1 .. Len(entries') /\ entries'[i] = e
  /\ \A j \in Places : j # i => entries'[j] = entries[j]
  /\ e.key.text = line.key

WritesOld(line, i, e) ==
  /\ Writes(line, i, e)
  /\ i \in Places /\ entries[i].key = e.key /\ Len(entries') = Len(entries) /\ capacity' = capacity
  /\ Becomes(e, line.value, allocs + 1)
  /\ line.value.class = "bad" => e = entries[i]
  /\ heap' = heap \cup Texts(line, e)
  /\ allocs' = IF line.value.class = "text" THEN allocs + 1 ELSE allocs

WritesNew(line, i, e) ==
  /\ Writes(line, i, e)
  /\ i = Len(entries) + 1 /\ Len(entries') = Len(entries) + 1 /\ capacity' = ensure
  /\ \A j \in Places : entries[j].key.text # line.key
  /\ e.key = String(allocs + 1, line.key)
  /\ Becomes(e, line.value, allocs + 2)
  /\ heap' = heap \cup {e.key} \cup Texts(line, e)
  /\ allocs' = IF line.value.class = "text" THEN allocs + 2 ELSE allocs + 1

\* A line writes an entry that was there or a new one.
LEMMA ParseIs ==
  ASSUME CfgTypes, Keyed, NEW line \in Lines, ParseEntry(line)
  PROVE  \E i, e : WritesOld(line, i, e) \/ WritesNew(line, i, e)
<1> DEFINE k == line.key
           v == line.value
           added == IF find_entry(k) = 0 THEN 1 ELSE 0
           texts == IF v.class = "text" THEN 1 ELSE 0
<1>1. k \in Keys /\ v \in Values
  BY DEF Lines
<1>2. entries \in Seq(EntrySet) /\ Len(entries) \in Nat /\ allocs \in Nat
  BY DEF CfgTypes
<1>3. /\ heap' = heap \cup {String(allocs + 1, k) : i \in 1 .. added}
                      \cup {String(allocs + added + 1, v.is) : i \in 1 .. texts}
      /\ allocs' = allocs + added + texts
  BY DEF ParseEntry
<1>4. PICK slot \in find_entry_or_add(k) :
        \E e \in parse_value(slot.in[slot.at], v, allocs + added + 1) :
          /\ entries' = [slot.in EXCEPT ![slot.at] = e]
          /\ capacity' = IF Len(slot.in) > Len(entries) THEN ensure ELSE capacity
  BY DEF ParseEntry
<1>5. PICK e \in parse_value(slot.in[slot.at], v, allocs + added + 1) :
        /\ entries' = [slot.in EXCEPT ![slot.at] = e]
        /\ capacity' = IF Len(slot.in) > Len(entries) THEN ensure ELSE capacity
  BY <1>4
<1> HIDE DEF k, v
<1>6. v.class = "text" => {String(allocs + added + 1, v.is) : i \in 1 .. texts} = {String(allocs + added + 1, v.is)}
  OBVIOUS
<1>7. v.class # "text" => {String(allocs + added + 1, v.is) : i \in 1 .. texts} = {}
  OBVIOUS
<1>8. CASE find_entry(k) # 0
  <2> DEFINE i == find_entry(k)
  <2>1. i \in Places /\ entries[i].key.text = k
    BY <1>8, FindIs
  <2>2. slot.at = i /\ slot.in = entries
    BY <1>8 DEF find_entry_or_add
  <2>3. entries[i] \in EntrySet
    BY <1>2, <2>1 DEF Places
  <2>4. added = 0 /\ allocs + added + 1 = allocs + 1 /\ allocs + 1 \in Nat
    BY <1>2, <1>8
  <2>5. e \in EntrySet /\ e.key = entries[i].key /\ Becomes(e, v, allocs + 1) /\ (v.class = "bad" => e = entries[i])
    <3>1. e \in parse_value(entries[i], v, allocs + 1)
      BY <1>5, <2>2, <2>4
    <3> HIDE DEF i, added
    <3> QED
      BY <1>1, <2>3, <2>4, <3>1, ValueIs
  <2>6. capacity' = capacity /\ entries' = [entries EXCEPT ![i] = e]
    BY <1>2, <1>5, <2>2
  <2> HIDE DEF i
  <2>7. /\ entries' \in Seq(EntrySet) /\ Len(entries') = Len(entries) /\ entries'[i] = e
        /\ \A j \in Places : j # i => entries'[j] = entries[j]
    BY <1>2, <2>1, <2>5, <2>6 DEF Places
  <2>8. heap' = heap \cup Texts(line, e)
    <3>1. {String(allocs + 1, k) : x \in 1 .. added} = {}
      BY <2>4
    <3>2. v.class = "text" => String(allocs + added + 1, v.is) = e.str
      BY <2>4, <2>5 DEF Becomes
    <3> HIDE DEF added, texts
    <3> QED
      BY <1>3, <1>6, <1>7, <3>1, <3>2 DEF Texts, v
  <2>9. allocs' = IF v.class = "text" THEN allocs + 1 ELSE allocs
    BY <1>2, <1>3, <2>4
  <2>10. WritesOld(line, i, e)
    BY <2>1, <2>5, <2>6, <2>7, <2>8, <2>9 DEF WritesOld, Writes, Places, k, v
  <2> QED
    BY <2>10
<1>9. CASE find_entry(k) = 0
  <2> DEFINE i == Len(entries) + 1
  <2>1. \A j \in Places : entries[j].key.text # k
    BY <1>9, FindIs
  <2>2. PICK f \in Fresh(k) : slot.at = i /\ slot.in = Append(entries, f)
    BY <1>9 DEF find_entry_or_add
  <2>3. f \in EntrySet /\ f.key = String(allocs + 1, k)
    <3>1. String(allocs + 1, k) \in Owned
      BY <1>1, <1>2 DEF String, Owned
    <3> DEFINE s == String(allocs + 1, k)
    <3> HIDE DEF s
    <3>2. f \in [key : {s}, kind : {"nil", "str", "num", "bool"},
                 str : {Wild}, f64 : {Wild}, i64 : {Wild}, b : {Wild}]
      BY <2>2 DEF Fresh, s
    <3>3. s \in Owned
      BY <3>1 DEF s
    <3>4. f \in EntrySet /\ f.key = s
      BY <3>2, <3>3, Zenon DEF EntrySet
    <3> QED
      BY <3>4 DEF s
  <2> DEFINE t == Append(entries, f)
  <2>4. /\ t \in Seq(EntrySet) /\ Len(t) = Len(entries) + 1 /\ t[i] = f
        /\ \A j \in Places : t[j] = entries[j]
    BY <1>2, <2>3 DEF Places
  <2>5. added = 1 /\ allocs + added + 1 = allocs + 2 /\ allocs + 2 \in Nat
    BY <1>2, <1>9
  <2>6. entries' = [t EXCEPT ![i] = e] /\ e \in parse_value(t[i], v, allocs + 2)
    BY <1>5, <2>2, <2>5
  <2> HIDE DEF t
  <2>7. capacity' = ensure
    <3>1. Len(slot.in) > Len(entries)
      BY <1>2, <2>2, <2>4 DEF t
    <3> QED
      BY <1>5, <3>1
  <2>8. e \in EntrySet /\ e.key = String(allocs + 1, k) /\ Becomes(e, v, allocs + 2)
    <3>1. e \in parse_value(f, v, allocs + 2)
      BY <2>4, <2>6
    <3> HIDE DEF i, added
    <3> QED
      BY <1>1, <2>3, <2>5, <3>1, ValueIs
  <2>9. /\ entries' \in Seq(EntrySet) /\ Len(entries') = Len(entries) + 1 /\ i \in 1 .. Len(entries')
        /\ entries'[i] = e
    BY <1>2, <2>4, <2>6, <2>8
  <2>10. \A j \in Places : j # i /\ entries'[j] = entries[j]
    BY <1>2, <2>4, <2>6 DEF Places
  <2>11. heap' = heap \cup {e.key} \cup Texts(line, e)
    <3>1. {String(allocs + 1, k) : x \in 1 .. added} = {e.key}
      BY <2>5, <2>8
    <3>2. v.class = "text" => String(allocs + added + 1, v.is) = e.str
      BY <2>5, <2>8 DEF Becomes
    <3> HIDE DEF added, texts
    <3> QED
      BY <1>3, <1>6, <1>7, <3>1, <3>2 DEF Texts, v
  <2>12. allocs' = IF v.class = "text" THEN allocs + 2 ELSE allocs + 1
    BY <1>2, <1>3, <2>5
  <2>13. e.key.text = k
    BY <2>8 DEF String
  <2>14. WritesNew(line, i, e)
    BY <2>1, <2>7, <2>8, <2>9, <2>10, <2>11, <2>12, <2>13 DEF WritesNew, Writes, k, v
  <2> QED
    BY <2>14
<1> QED
  BY <1>8, <1>9

\* What the two have in common, for the strings and the places.
Wrote(line, i, e, n) ==
  /\ Writes(line, i, e)
  /\ n \in Nat /\ allocs < n /\ allocs' \in Nat /\ allocs <= allocs'
  /\ line.value.class = "text" => n <= allocs'
  /\ e.key.at \in 1 .. allocs' /\ e.key.at < n
  /\ Becomes(e, line.value, n)
  /\ heap' = heap \cup {e.key} \cup Texts(line, e)
  /\ i \in Places => entries[i].key = e.key /\ (line.value.class = "bad" => e = entries[i])
  /\ i \notin Places => e.key.at > allocs /\ \A j \in Places : entries[j].key.text # line.key
  /\ Places' = Places \cup {i}
  /\ Len(entries') <= capacity' /\ capacity' \in Nat

\* A line with a key writes one entry and what that points to.
LEMMA WroteIs ==
  ASSUME CfgInv, cfg # "deleted", NEW line \in Lines, ParseEntry(line)
  PROVE  \E i, e, n : Wrote(line, i, e, n)
<1>1. CfgTypes /\ Keyed /\ HeapKept /\ Len(entries) <= capacity
  BY DEF CfgInv
<1>2. Len(entries) \in Nat /\ capacity \in Nat /\ allocs \in Nat
  BY <1>1 DEF CfgTypes
<1>3. PICK i, e : WritesOld(line, i, e) \/ WritesNew(line, i, e)
  BY <1>1, ParseIs
<1>4. CASE WritesOld(line, i, e)
  <2>1. /\ Writes(line, i, e) /\ i \in Places /\ entries[i].key = e.key /\ Len(entries') = Len(entries)
        /\ capacity' = capacity /\ Becomes(e, line.value, allocs + 1)
        /\ line.value.class = "bad" => e = entries[i]
        /\ heap' = heap \cup Texts(line, e)
        /\ allocs' = IF line.value.class = "text" THEN allocs + 1 ELSE allocs
    BY <1>4 DEF WritesOld
  <2>2. e.key \in heap /\ e.key.at \in 1 .. allocs
    BY <1>1, <2>1 DEF HeapKept
  <2>3. heap' = heap \cup {e.key} \cup Texts(line, e)
    BY <2>1, <2>2
  <2>4. Places' = Places \cup {i}
    BY <2>1 DEF Places
  <2>5. Wrote(line, i, e, allocs + 1)
    BY <1>1, <1>2, <2>1, <2>2, <2>3, <2>4 DEF Wrote
  <2> QED
    BY <2>5
<1>5. CASE WritesNew(line, i, e)
  <2>1. /\ Writes(line, i, e) /\ i = Len(entries) + 1 /\ Len(entries') = Len(entries) + 1
        /\ capacity' = ensure /\ Becomes(e, line.value, allocs + 2)
        /\ \A j \in Places : entries[j].key.text # line.key
        /\ e.key = String(allocs + 1, line.key)
        /\ heap' = heap \cup {e.key} \cup Texts(line, e)
        /\ allocs' = IF line.value.class = "text" THEN allocs + 2 ELSE allocs + 1
    BY <1>5 DEF WritesNew
  <2>2. e.key.at = allocs + 1
    BY <2>1 DEF String
  <2>3. i \notin Places /\ Places' = Places \cup {i}
    BY <1>2, <2>1 DEF Places
  <2>4. ensure \in Nat /\ Len(entries) + 1 <= ensure
    BY <1>1, <1>2 DEF ensure
  <2>5. Wrote(line, i, e, allocs + 2)
    BY <1>2, <2>1, <2>2, <2>3, <2>4 DEF Wrote
  <2> QED
    BY <2>5
<1> QED
  BY <1>3, <1>4, <1>5

\* A good line is one with a colon, and its value is not bad.
LEMMA LineIs ==
  ASSUME CfgTypes, NEW k \in Keys, NEW m \in GoodFor(k)
  PROVE  /\ m \in 1 .. Len(seen) /\ m \in DOMAIN seen /\ seen[m].key = k
         /\ seen[m].value \in Values /\ seen[m].value.class # "bad"
<1>1. seen \in Seq(LineSet) /\ m \in DOMAIN seen /\ seen[m].key = k /\ seen[m].value.class # "bad"
  BY DEF CfgTypes, GoodFor
<1>2. m \in 1 .. Len(seen) /\ seen[m] \in LineSet
  BY <1>1
<1>3. Comment.key = Null /\ NoColon.key = Null
  BY DEF Comment, NoColon
<1>4. seen[m] \in Lines
  BY <1>1, <1>2, <1>3 DEF LineSet
<1> QED
  BY <1>1, <1>2, <1>4 DEF Lines

-----------------------------------------------------------------------------
(* A line keeps the invariant.                                               *)

\* Every entry still has a key of its own, and a place in the array.
LEMMA LineKeyed ==
  ASSUME CfgTypes, Keyed, NEW line \in Lines, NEW i, NEW e, NEW n, Wrote(line, i, e, n)
  PROVE  Keyed'
<1>1. /\ Places' = Places \cup {i} /\ entries'[i] = e /\ e.key.text = line.key
      /\ \A j \in Places : j # i => entries'[j] = entries[j]
      /\ i \in Places => entries[i].key = e.key
      /\ i \notin Places => \A j \in Places : entries[j].key.text # line.key
  BY DEF Wrote, Writes
<1>2. line.key \in Keys
  BY DEF Lines
<1>3. \A j \in Places' : entries'[j].key.text \in Keys
  BY <1>1, <1>2 DEF Keyed
<1>4. \A j \in Places : j # i => entries[j].key.text # line.key
  BY <1>1 DEF Keyed
<1>5. \A j, l \in Places' : entries'[j].key.text = entries'[l].key.text => j = l
  BY <1>1, <1>4 DEF Keyed
<1> QED
  BY <1>3, <1>5 DEF Keyed

\* A string stays overruled.
LEMMA OverruledStays ==
  ASSUME CfgTypes, NEW line \in LineSet, seen' = Append(seen, line), NEW s, Overruled(s)
  PROVE  Overruled(s)'
<1>1. PICK a, b \in DOMAIN seen : /\ a < b
                                  /\ {a, b} \subseteq UNION {GoodFor(k) : k \in Keys}
                                  /\ seen[a].key = seen[b].key
                                  /\ seen[a].value = [class |-> "text", is |-> s.text]
  BY DEF Overruled
<1>2. /\ \A m \in 1 .. Len(seen) : seen'[m] = seen[m]
      /\ Len(seen) \in Nat /\ Len(seen') = Len(seen) + 1 /\ seen' \in Seq(LineSet)
  BY GoodIs
<1>3. DOMAIN seen = 1 .. Len(seen) /\ DOMAIN seen' = 1 .. Len(seen')
  BY <1>2 DEF CfgTypes
<1>4. a \in DOMAIN seen' /\ b \in DOMAIN seen' /\ seen'[a] = seen[a] /\ seen'[b] = seen[b]
  BY <1>2, <1>3
<1>5. \A k \in Keys : GoodFor(k) \subseteq GoodFor(k)'
  <2> TAKE k \in Keys
  <2>1. GoodFor(k)' = GoodFor(k) \cup (IF line.key = k /\ line.value.class # "bad"
                                       THEN {Len(seen) + 1} ELSE {})
    BY GoodIs
  <2> QED
    BY <2>1
<1>6. {a, b} \subseteq UNION {GoodFor(k)' : k \in Keys}
  BY <1>1, <1>5
<1> QED
  BY <1>1, <1>4, <1>6, Zenon DEF Overruled

\* The last good line of each key is in its entry.
LEMMA LineFollows ==
  ASSUME CfgTypes, Keyed, Follows, NEW line \in Lines, seen' = Append(seen, line),
         NEW i, NEW e, NEW n, Wrote(line, i, e, n)
  PROVE  Follows'
<1>1. /\ Places' = Places \cup {i} /\ entries'[i] = e /\ e.key.text = line.key
      /\ \A j \in Places : j # i => entries'[j] = entries[j]
      /\ i \in Places => entries[i].key = e.key /\ (line.value.class = "bad" => e = entries[i])
      /\ i \notin Places => \A j \in Places : entries[j].key.text # line.key
      /\ heap' = heap \cup {e.key} \cup Texts(line, e) /\ Becomes(e, line.value, n)
  BY DEF Wrote, Writes
<1>2. line \in LineSet /\ line.key \in Keys
  BY DEF LineSet, Lines
<1>3. /\ Len(seen) \in Nat /\ Len(seen') = Len(seen) + 1 /\ seen' \in Seq(LineSet)
      /\ seen'[Len(seen) + 1] = line
      /\ \A m \in 1 .. Len(seen) : seen'[m] = seen[m]
  BY <1>2, GoodIs
<1>4. DOMAIN seen = 1 .. Len(seen) /\ DOMAIN seen' = 1 .. Len(seen) + 1
  BY <1>3 DEF CfgTypes
<1> SUFFICES ASSUME NEW k \in Keys, GoodFor(k)' # {}
             PROVE  \E m \in DOMAIN seen', j \in Places' :
                      /\ LastOf(GoodFor(k)', m) /\ entries'[j].key.text = k
                      /\ Holds(heap', entries'[j], seen'[m].value)
  BY Zenon DEF Follows
<1>5. /\ GoodFor(k)' = GoodFor(k) \cup (IF line.key = k /\ line.value.class # "bad"
                                        THEN {Len(seen) + 1} ELSE {})
      /\ GoodFor(k) \subseteq 1 .. Len(seen)
  BY <1>2, GoodIs
<1>6. CASE line.key = k /\ line.value.class # "bad"
  <2>1. LastOf(GoodFor(k)', Len(seen) + 1)
    BY <1>3, <1>5, <1>6 DEF LastOf
  <2>2. Holds(heap', e, line.value)
    BY <1>1 DEF Becomes, Holds, Texts, String
  <2>3. Len(seen) + 1 \in DOMAIN seen' /\ i \in Places'
    BY <1>1, <1>3, <1>4
  <2> QED
    BY <1>1, <1>3, <1>6, <2>1, <2>2, <2>3
<1>7. CASE ~(line.key = k /\ line.value.class # "bad")
  <2>1. GoodFor(k)' = GoodFor(k)
    BY <1>5, <1>7
  <2>2. PICK m \in DOMAIN seen, j \in Places :
          /\ LastOf(GoodFor(k), m) /\ entries[j].key.text = k
          /\ Holds(heap, entries[j], seen[m].value)
    BY <2>1 DEF Follows
  <2>3. seen'[m] = seen[m] /\ m \in DOMAIN seen'
    BY <1>3, <1>4, <2>2
  <2>4. LastOf(GoodFor(k)', m)
    BY <2>1, <2>2
  <2>5. entries'[j] = entries[j]
    <3>1. CASE j = i
      BY <1>1, <1>7, <2>2, <3>1
    <3>2. CASE j # i
      BY <1>1, <3>2
    <3> QED
      BY <3>1, <3>2
  <2>6. Holds(heap', entries'[j], seen'[m].value)
    BY <1>1, <2>2, <2>3, <2>5 DEF Holds
  <2> QED
    BY <1>1, <2>2, <2>3, <2>4, <2>5, <2>6
<1> QED
  BY <1>6, <1>7

\* The text of an entry is what the last good line of its key says.
LEMMA TextIs ==
  ASSUME CfgTypes, Keyed, Follows, Backed, NEW i \in Places, entries[i].kind = "str"
  PROVE  \E m \in GoodFor(entries[i].key.text) :
           seen[m].value = [class |-> "text", is |-> entries[i].str.text]
<1>1. entries[i].key.text \in Keys /\ GoodFor(entries[i].key.text) # {}
  BY DEF Keyed, Backed
<1>2. PICK k \in Keys : k = entries[i].key.text
  BY <1>1
<1>3. PICK m \in DOMAIN seen, j \in Places :
        LastOf(GoodFor(k), m) /\ entries[j].key.text = k /\ Holds(heap, entries[j], seen[m].value)
  BY <1>1, <1>2 DEF Follows
<1>4. j = i
  BY <1>2, <1>3 DEF Keyed
<1>5. m \in GoodFor(k)
  BY <1>3 DEF LastOf
<1>6. seen[m].value \in Values /\ seen[m].value.class # "bad"
  BY <1>5, LineIs
<1>7. PICK v \in Values : v = seen[m].value
  BY <1>6
<1>8. v.class = "text"
  BY <1>3, <1>4, <1>6, <1>7, ClassIs DEF Holds
<1>9. v = [class |-> "text", is |-> v.is]
  BY <1>8, ClassIs
<1>10. v.is = entries[i].str.text
  BY <1>3, <1>4, <1>7, <1>8 DEF Holds
<1> QED
  BY <1>2, <1>5, <1>7, <1>9, <1>10

\* The heap holds nothing that is not accounted for.
LEMMA LineHeap ==
  ASSUME CfgTypes, Keyed, Follows, Backed, HeapKept, NEW line \in Lines,
         seen' = Append(seen, line), NEW i, NEW e, NEW n, Wrote(line, i, e, n)
  PROVE  HeapKept'
<1>1. /\ Places' = Places \cup {i} /\ entries'[i] = e /\ e.key.text = line.key
      /\ \A j \in Places : j # i => entries'[j] = entries[j]
      /\ i \in Places => entries[i].key = e.key /\ (line.value.class = "bad" => e = entries[i])
      /\ heap' = heap \cup {e.key} \cup Texts(line, e) /\ Becomes(e, line.value, n)
      /\ n \in Nat /\ allocs < n /\ allocs' \in Nat /\ allocs <= allocs'
      /\ line.value.class = "text" => n <= allocs'
      /\ e.key.at \in 1 .. allocs'
  BY DEF Wrote, Writes
<1>2. line \in LineSet /\ line.key \in Keys /\ allocs \in Nat
  BY DEF LineSet, Lines, CfgTypes
<1>3. \A j \in Places' : entries'[j].key \in heap'
  BY <1>1 DEF HeapKept
<1>4. ASSUME NEW s \in heap PROVE s.at \in 1 .. allocs' /\ (Kept(s)' \/ Overruled(s)')
  <2>1. s.at \in 1 .. allocs /\ (Kept(s) \/ Overruled(s))
    BY <1>4 DEF HeapKept
  <2>2. s.at \in 1 .. allocs'
    BY <1>1, <1>2, <2>1
  <2>3. CASE Overruled(s)
    BY <1>2, <2>2, <2>3, OverruledStays
  <2>4. CASE Kept(s)
    <3>1. PICK j \in Places : s = entries[j].key \/ (entries[j].kind = "str" /\ s = entries[j].str)
      BY <2>4 DEF Kept
    <3>2. CASE j # i \/ s = entries[j].key \/ line.value.class = "bad"
      <4>1. Kept(s)'
        BY <1>1, <3>1, <3>2 DEF Kept
      <4> QED
        BY <2>2, <4>1
    <3>3. CASE j = i /\ s # entries[j].key /\ line.value.class # "bad"
      <4>1. entries[j].kind = "str" /\ s = entries[j].str /\ entries[j].key.text = line.key
        BY <1>1, <3>1, <3>3
      <4>2. PICK m \in GoodFor(line.key) : seen[m].value = [class |-> "text", is |-> s.text]
        BY <3>1, <4>1, TextIs
      <4>3. PICK k \in Keys : k = line.key
        BY <1>2
      <4>4. m \in 1 .. Len(seen) /\ seen[m].key = k
        BY <4>2, <4>3, LineIs
      <4>5. /\ Len(seen) \in Nat /\ Len(seen') = Len(seen) + 1 /\ seen' \in Seq(LineSet)
            /\ seen'[Len(seen) + 1] = line /\ seen'[m] = seen[m]
            /\ GoodFor(k)' = GoodFor(k) \cup {Len(seen) + 1}
        BY <1>2, <3>3, <4>3, <4>4, GoodIs
      <4>6. /\ m \in DOMAIN seen' /\ Len(seen) + 1 \in DOMAIN seen' /\ m < Len(seen) + 1
            /\ {m, Len(seen) + 1} \subseteq UNION {GoodFor(x)' : x \in Keys}
            /\ seen'[m].key = seen'[Len(seen) + 1].key
            /\ seen'[m].value = [class |-> "text", is |-> s.text]
        BY <4>2, <4>3, <4>4, <4>5
      <4>7. Overruled(s)'
        BY <4>6, Zenon DEF Overruled
      <4> QED
        BY <2>2, <4>7
    <3> QED
      BY <3>2, <3>3
  <2> QED
    BY <2>1, <2>3, <2>4
<1>5. ASSUME NEW s \in {e.key} \cup Texts(line, e) PROVE s.at \in 1 .. allocs' /\ Kept(s)'
  <2>1. CASE s = e.key
    BY <1>1, <2>1 DEF Kept
  <2>2. CASE line.value.class = "text" /\ s = e.str
    <3>1. e.kind = "str" /\ s = String(n, line.value.is)
      BY <1>1, <2>2 DEF Becomes
    <3>2. Kept(s)'
      BY <1>1, <2>2, <3>1 DEF Kept
    <3>3. s.at \in 1 .. allocs'
      BY <1>1, <1>2, <2>2, <3>1 DEF String
    <3> QED
      BY <3>2, <3>3
  <2> QED
    BY <1>5, <2>1, <2>2 DEF Texts
<1>6. \A s \in heap' : s.at \in 1 .. allocs' /\ (Kept(s)' \/ Overruled(s)')
  BY <1>1, <1>4, <1>5
<1> QED
  BY <1>3, <1>6 DEF HeapKept

\* A line without an error leaves a value in its entry, and no text twice.
LEMMA LineOwned ==
  ASSUME CfgTypes, Keyed, Backed, HeapKept, TextsOwned, NEW line \in Lines,
         seen' = Append(seen, line), line.value.class # "bad",
         NEW i, NEW e, NEW n, Wrote(line, i, e, n)
  PROVE  Backed' /\ TextsOwned'
<1>1. /\ Places' = Places \cup {i} /\ entries'[i] = e /\ e.key.text = line.key
      /\ \A j \in Places : j # i => entries'[j] = entries[j]
      /\ heap' = heap \cup {e.key} \cup Texts(line, e) /\ Becomes(e, line.value, n)
      /\ n \in Nat /\ allocs < n /\ e.key.at < n
      /\ i \in Places => entries[i].key = e.key
  BY DEF Wrote, Writes
<1>2. line \in LineSet /\ line.key \in Keys /\ allocs \in Nat /\ line.value \in Values
  BY DEF LineSet, Lines, CfgTypes
<1>3. Backed'
  <2>1. \A k : GoodFor(k) \subseteq GoodFor(k)'
    <3> TAKE k
    <3>1. GoodFor(k)' = GoodFor(k) \cup (IF line.key = k /\ line.value.class # "bad"
                                         THEN {Len(seen) + 1} ELSE {})
      BY <1>2, GoodIs
    <3> QED
      BY <3>1
  <2>2. PICK k : k = line.key
    OBVIOUS
  <2>3. GoodFor(k)' # {}
    <3>1. GoodFor(k)' = GoodFor(k) \cup (IF line.key = k /\ line.value.class # "bad"
                                         THEN {Len(seen) + 1} ELSE {})
      BY <1>2, GoodIs
    <3> QED
      BY <2>2, <3>1
  <2>4. ASSUME NEW j \in Places', NEW x, x = entries'[j].key.text PROVE GoodFor(x)' # {}
    <3>1. CASE j = i
      BY <1>1, <2>2, <2>3, <2>4, <3>1
    <3>2. CASE j # i
      <4>1. j \in Places /\ x = entries[j].key.text
        BY <1>1, <2>4, <3>2
      <4> QED
        BY <2>1, <4>1 DEF Backed
    <3> QED
      BY <3>1, <3>2
  <2> QED
    BY <2>4, Zenon DEF Backed
<1>4. TextsOwned'
  <2>1. e.kind = "str" => e.str.at = n /\ e.str \in heap'
    <3>1. e.kind = "str" => line.value.class = "text"
      BY <1>1, <1>2, ClassIs DEF Becomes
    <3> QED
      BY <1>1, <3>1 DEF Becomes, Texts, String
  <2>2. \A j \in Places : entries[j].key \in heap /\ (entries[j].kind = "str" => entries[j].str \in heap)
    BY DEF HeapKept, TextsOwned
  <2>3. \A s \in heap : s.at \in 1 .. allocs /\ s.at # n
    BY <1>1, <1>2 DEF HeapKept
  <2>4. \A j \in Places' : j # i => /\ entries'[j] = entries[j] /\ j \in Places /\ entries'[j].key.at # n
                                    /\ entries'[j].kind = "str" => entries'[j].str.at # n
    BY <1>1, <2>2, <2>3
  <2>5. e.key.at # n
    <3>1. e.key.at \in Nat
      BY DEF Wrote
    <3> QED
      BY <1>1, <3>1
  <2>6. e.kind = "str" => \A j \in Places' : /\ e.str # entries'[j].key
                                             /\ entries'[j].kind = "str" /\ e.str = entries'[j].str => i = j
    BY <1>1, <2>1, <2>4, <2>5
  <2>7. ASSUME NEW j \in Places, j # i, entries[j].kind = "str"
        PROVE  /\ entries'[j].str \in heap'
               /\ \A l \in Places' :
                    /\ entries'[j].str # entries'[l].key
                    /\ entries'[l].kind = "str" /\ entries'[j].str = entries'[l].str => j = l
    <3>1. entries'[j] = entries[j] /\ entries'[j].str \in heap'
      BY <1>1, <2>2, <2>7
    <3>2. \A l \in Places : l # i => /\ entries'[j].str # entries'[l].key
                                     /\ entries'[l].kind = "str" /\ entries'[j].str = entries'[l].str => j = l
      BY <1>1, <2>7, <3>1 DEF TextsOwned
    <3>3. entries'[j].str # e.key
      <4>1. CASE i \in Places
        BY <1>1, <2>7, <3>1, <4>1 DEF TextsOwned
      <4>2. CASE i \notin Places
        <5>1. e.key.at > allocs /\ e.key.at \in Nat
          BY <4>2 DEF Wrote
        <5>2. entries[j].str.at \in 1 .. allocs
          BY <2>2, <2>3, <2>7
        <5> QED
          BY <1>2, <3>1, <5>1, <5>2
      <4> QED
        BY <4>1, <4>2
    <3>4. e.kind = "str" => entries'[j].str # e.str
      BY <2>1, <2>2, <2>3, <2>7, <3>1
    <3> QED
      BY <1>1, <3>1, <3>2, <3>3, <3>4
  <2> QED
    BY <1>1, <2>1, <2>4, <2>6, <2>7 DEF TextsOwned
<1> QED
  BY <1>3, <1>4

\* Types, after a line.
LEMMA LineTypes ==
  ASSUME CfgTypes, NEW line \in Lines, ParseEntry(line), NEW i, NEW e, NEW n, Wrote(line, i, e, n)
  PROVE  CfgTypes'
<1>1. /\ entries' \in Seq(EntrySet) /\ i \in 1 .. Len(entries') /\ entries'[i] = e
      /\ heap' = heap \cup {e.key} \cup Texts(line, e) /\ Becomes(e, line.value, n)
      /\ n \in Nat /\ allocs' \in Nat /\ capacity' \in Nat
  BY DEF Wrote, Writes
<1>2. line \in LineSet /\ line.value \in Values /\ seen' = Append(seen, line)
  BY DEF LineSet, Lines, ParseEntry, Reading
<1>3. e \in EntrySet
  BY <1>1
<1>4. e.key \in Owned
  BY <1>3 DEF EntrySet
<1>5. line.value.class = "text" => e.str \in Owned
  BY <1>1, <1>2, ClassIs DEF Becomes, String, Owned
<1>6. heap' \subseteq Owned
  BY <1>1, <1>4, <1>5 DEF CfgTypes, Texts
<1>7. seen' \in Seq(LineSet)
  BY <1>2, GoodIs
<1>8. success' \in BOOLEAN /\ fault' = fault /\ cfg' \in {"loaded", "parsing"}
  BY DEF ParseEntry, Failed
<1> QED
  BY <1>1, <1>6, <1>7, <1>8 DEF CfgTypes

\* A line with a key keeps the invariant.
LEMMA LineInv ==
  ASSUME CfgInv, NEW line \in Lines, ParseEntry(line)
  PROVE  CfgInv'
<1>1. /\ cfg = "parsing" /\ seen' = Append(seen, line) /\ fault' = fault
      /\ success' = ~(line.value.class = "bad" \/ line.rest) /\ cfg' \in {"loaded", "parsing"}
      /\ cfg' = "parsing" => success'
  BY DEF ParseEntry, Reading, Failed
<1>2. CfgTypes /\ Keyed /\ success /\ ~fault /\ Follows /\ HeapKept /\ Backed /\ TextsOwned
  BY <1>1 DEF CfgInv
<1>3. PICK i, e, n : Wrote(line, i, e, n)
  BY <1>1, WroteIs
<1>4. CfgTypes' /\ Keyed' /\ Len(entries') <= capacity'
  BY <1>2, <1>3, LineTypes, LineKeyed DEF Wrote
<1>5. Follows' /\ HeapKept'
  BY <1>1, <1>2, <1>3, LineFollows, LineHeap
<1>6. success' => Backed' /\ TextsOwned'
  BY <1>1, <1>2, <1>3, LineOwned
<1> QED
  BY <1>1, <1>2, <1>4, <1>5, <1>6 DEF CfgInv

-----------------------------------------------------------------------------
(* The other steps keep it too.                                              *)

\* A line without a key says nothing of any.
LEMMA KeylessIs ==
  ASSUME CfgTypes, NEW line \in {Comment, NoColon}, seen' = Append(seen, line), NEW k \in Keys
  PROVE  GoodFor(k)' = GoodFor(k)
<1>1. line \in LineSet /\ line.key = Null
  <2>1. Comment.key = Null /\ NoColon.key = Null
    BY DEF Comment, NoColon
  <2> QED
    BY <2>1 DEF LineSet
<1>2. GoodFor(k)' = GoodFor(k) \cup (IF line.key = k /\ line.value.class # "bad"
                                     THEN {Len(seen) + 1} ELSE {})
  BY <1>1, GoodIs
<1> QED
  BY <1>1, <1>2

\* A line without a key keeps the invariant.
LEMMA KeylessInv ==
  ASSUME CfgInv, cfg # "deleted", NEW line \in {Comment, NoColon}, seen' = Append(seen, line),
         UNCHANGED <<entries, capacity, heap, allocs, fault>>,
         cfg' \in {"parsing", "loaded"}, success' \in BOOLEAN, cfg' = "parsing" => success',
         success' => success
  PROVE  CfgInv'
<1>1. CfgTypes /\ Keyed /\ ~fault /\ Follows /\ HeapKept /\ (success => Backed /\ TextsOwned)
      /\ Len(entries) <= capacity
  BY DEF CfgInv
<1>2. line \in LineSet
  BY DEF LineSet
<1>3. /\ seen' \in Seq(LineSet) /\ Len(seen) \in Nat /\ Len(seen') = Len(seen) + 1
      /\ \A m \in 1 .. Len(seen) : seen'[m] = seen[m]
  BY <1>1, <1>2, GoodIs
<1>4. DOMAIN seen = 1 .. Len(seen) /\ DOMAIN seen' = 1 .. Len(seen) + 1
  BY <1>1, <1>3 DEF CfgTypes
<1>5. \A k \in Keys : GoodFor(k)' = GoodFor(k)
  BY <1>1, KeylessIs
<1>6. CfgTypes'
  BY <1>1, <1>3 DEF CfgTypes
<1>7. Places' = Places /\ Keyed'
  BY <1>1 DEF Keyed, Places
<1>8. Follows'
  <2> SUFFICES ASSUME NEW k \in Keys, GoodFor(k)' # {}
               PROVE  \E m \in DOMAIN seen', j \in Places' :
                        /\ LastOf(GoodFor(k)', m) /\ entries'[j].key.text = k
                        /\ Holds(heap', entries'[j], seen'[m].value)
    BY Zenon DEF Follows
  <2>1. PICK m \in DOMAIN seen, j \in Places :
          LastOf(GoodFor(k), m) /\ entries[j].key.text = k /\ Holds(heap, entries[j], seen[m].value)
    BY <1>1, <1>5 DEF Follows
  <2>2. m \in DOMAIN seen' /\ seen'[m] = seen[m]
    BY <1>3, <1>4
  <2> QED
    BY <1>5, <1>7, <2>1, <2>2
<1>9. HeapKept'
  <2>1. \A s : Kept(s)' <=> Kept(s)
    BY <1>7 DEF Kept
  <2>2. \A s : Overruled(s) => Overruled(s)'
    BY <1>1, <1>2, OverruledStays
  <2> QED
    BY <1>1, <1>7, <2>1, <2>2 DEF HeapKept
<1>10. success' => Backed' /\ TextsOwned'
  <2>1. \A j \in Places : entries[j].key.text \in Keys
    BY <1>1 DEF Keyed
  <2>2. Backed => Backed'
    BY <1>5, <1>7, <2>1, Zenon DEF Backed
  <2>3. TextsOwned => TextsOwned'
    BY <1>7 DEF TextsOwned
  <2> QED
    BY <1>1, <2>2, <2>3
<1> QED
  BY <1>1, <1>6, <1>7, <1>8, <1>9, <1>10 DEF CfgInv

\* Deleting frees each string that an entry points to, and each once.
LEMMA DeleteInv ==
  ASSUME CfgInv, Delete
  PROVE  CfgInv'
<1>1. /\ cfg = "loaded" /\ cfg' = "deleted" /\ heap' = heap \ Range(Freed)
      /\ fault' = ~(Range(Freed) \subseteq heap /\ IsInjective(Freed))
      /\ UNCHANGED <<entries, capacity, allocs, seen, success>>
  BY DEF Delete
<1>2. CfgTypes /\ Keyed /\ HeapKept /\ (success => Backed /\ TextsOwned) /\ Len(entries) <= capacity
  BY <1>1 DEF CfgInv
<1>3. CfgTypes' /\ Keyed' /\ Places' = Places
  BY <1>1, <1>2 DEF CfgTypes, Keyed, Places
<1> DEFINE calls == {c \in (DOMAIN entries) \X {"str", "key"} : c[2] = "str" => entries[c[1]].kind = "str"}
           to(c) == IF c[2] = "str" THEN entries[c[1]].str ELSE entries[c[1]].key
<1>4. DOMAIN entries = Places
  BY <1>2 DEF CfgTypes, Places
<1>5. DOMAIN Freed = calls /\ \A c \in calls : Freed[c] = to(c)
  BY DEF Freed
<1>6. \A c : c \in calls <=> \E i \in Places : c = <<i, "key">> \/ (c = <<i, "str">> /\ entries[i].kind = "str")
  BY <1>4
<1>7. \A i \in Places : <<i, "key">> \in calls /\ to(<<i, "key">>) = entries[i].key
  BY <1>6
<1>8. \A i \in Places : entries[i].kind = "str" => <<i, "str">> \in calls /\ to(<<i, "str">>) = entries[i].str
  BY <1>6
<1> HIDE DEF calls, to
<1>9. Range(Freed) = {to(c) : c \in calls}
  BY <1>5 DEF Range
<1>10. \A s \in heap' : Overruled(s)
  <2> TAKE s \in heap'
  <2>1. s \in heap /\ s \notin Range(Freed)
    BY <1>1
  <2>2. ~Kept(s)
    BY <1>7, <1>8, <1>9, <2>1 DEF Kept
  <2> QED
    BY <1>2, <2>1, <2>2 DEF HeapKept
<1>11. \A s : Overruled(s)' <=> Overruled(s)
  <2>1. \A k : GoodFor(k)' = GoodFor(k)
    BY <1>1 DEF GoodFor
  <2> QED
    BY <1>1, <2>1 DEF Overruled
<1>12. ASSUME success PROVE ~fault'
  <2>1. Range(Freed) \subseteq heap
    <3>1. \A c \in calls : to(c) \in heap
      BY <1>2, <1>6, <1>7, <1>8, <1>12 DEF HeapKept, TextsOwned
    <3> QED
      BY <1>9, <3>1
  <2>2. ASSUME NEW a \in calls, NEW b \in calls, to(a) = to(b) PROVE a = b
    <3>1. PICK i \in Places : a = <<i, "key">> \/ (a = <<i, "str">> /\ entries[i].kind = "str")
      BY <1>6
    <3>2. PICK j \in Places : b = <<j, "key">> \/ (b = <<j, "str">> /\ entries[j].kind = "str")
      BY <1>6
    <3>3. CASE a = <<i, "key">> /\ b = <<j, "key">>
      BY <1>2, <1>7, <2>2, <3>3 DEF Keyed
    <3>4. CASE a = <<i, "str">> /\ entries[i].kind = "str"
      BY <1>2, <1>7, <1>8, <1>12, <2>2, <3>2, <3>4 DEF TextsOwned
    <3>5. CASE b = <<j, "str">> /\ entries[j].kind = "str"
      BY <1>2, <1>7, <1>8, <1>12, <2>2, <3>1, <3>5 DEF TextsOwned
    <3> QED
      BY <3>1, <3>2, <3>3, <3>4, <3>5
  <2>3. IsInjective(Freed)
    BY <1>5, <2>2 DEF IsInjective
  <2> QED
    BY <1>1, <2>1, <2>3
<1> QED
  BY <1>1, <1>2, <1>3, <1>10, <1>11, <1>12 DEF CfgInv

\* The configuration is in order before a file is read.
LEMMA CfgInit == Init => CfgInv
<1> SUFFICES ASSUME Init PROVE CfgInv
  OBVIOUS
<1>1. entries = <<>> /\ seen = <<>> /\ Places = {}
  BY DEF Init, Places
<1>2. CfgTypes /\ Keyed
  <2>1. entries \in Seq(EntrySet) /\ seen \in Seq(LineSet)
    BY <1>1
  <2> QED
    BY <1>1, <2>1 DEF Init, CfgTypes, Keyed
<1>3. \A k : GoodFor(k) = {}
  BY <1>1 DEF GoodFor
<1>4. Follows /\ HeapKept /\ Backed /\ TextsOwned
  BY <1>1, <1>3 DEF Init, Follows, HeapKept, Backed, TextsOwned
<1>5. Len(entries) <= capacity
  BY <1>1 DEF Init
<1> QED
  BY <1>2, <1>4, <1>5 DEF Init, CfgInv

\* A step that leaves the strings, the entries and the lines alone.
LEMMA SameInv ==
  ASSUME CfgInv, UNCHANGED <<entries, capacity, heap, allocs, seen, success, fault>>,
         \/ cfg' = cfg
         \/ cfg = "none" /\ cfg' = "parsing"
         \/ cfg = "parsing" /\ cfg' = "loaded"
  PROVE  CfgInv'
<1>1. /\ Places' = Places /\ \A k : GoodFor(k)' = GoodFor(k)
      /\ \A s : Kept(s)' <=> Kept(s)
  BY DEF Places, GoodFor, Kept
<1>2. \A s : Overruled(s)' <=> Overruled(s)
  BY <1>1 DEF Overruled
<1>3. CfgTypes => CfgTypes'
  BY DEF CfgTypes
<1>4. (Keyed => Keyed') /\ (TextsOwned => TextsOwned')
  BY <1>1 DEF Keyed, TextsOwned
<1>5. (Follows => Follows') /\ (HeapKept => HeapKept') /\ (Backed => Backed')
  BY <1>1, <1>2 DEF Follows, HeapKept, Backed
<1> QED
  BY <1>2, <1>3, <1>4, <1>5 DEF CfgInv

\* Every step of the configuration and of the controller keeps the invariant.
LEMMA CfgStep == CfgInv /\ [PidNext]_<<vars, pid>> => CfgInv'
<1> SUFFICES ASSUME CfgInv, [PidNext]_<<vars, pid>> PROVE CfgInv'
  OBVIOUS
<1>1. CASE UNCHANGED vars
  BY <1>1, SameInv DEF vars
<1>2. CASE Load
  BY <1>2, SameInv DEF Load
<1>3. CASE ParseSkip
  <2>1. cfg = "parsing" /\ success /\ success \in BOOLEAN
    BY <1>3 DEF ParseSkip, Reading, CfgInv, CfgTypes
  <2> QED
    BY <1>3, <2>1, KeylessInv DEF ParseSkip, Reading
<1>4. CASE ParseNoColon
  BY <1>4, KeylessInv DEF ParseNoColon, Reading, Failed
<1>5. CASE ParseEnd
  BY <1>5, SameInv DEF ParseEnd
<1>6. CASE Delete
  BY <1>6, DeleteInv
<1>7. CASE \E line \in Lines : ParseEntry(line)
  BY <1>7, LineInv
<1> QED
  BY <1>1, <1>2, <1>3, <1>4, <1>5, <1>6, <1>7 DEF PidNext, Next, vars, pid

\* The invariant holds in every state.
LEMMA CfgAlways == PidSpec => []CfgInv
<1>1. PidInit => CfgInv
  BY CfgInit DEF PidInit
<1> QED
  BY <1>1, CfgStep, PTL DEF PidSpec

\* The entries always fit the array, also the one that find_entry_or_add (cfg.c) adds
\* before its value is known.
THEOREM EntriesAreFit == PidSpec => []EntriesFit
<1>1. CfgInv => EntriesFit
  BY DEF CfgInv, EntriesFit
<1> QED
  BY <1>1, CfgAlways, PTL

\* What cc_cfg_delete (cfg.c) leaves on the heap are texts of keys that were set again.
THEOREM OnlyResetsLose == PidSpec => []OnlyResetTextsLost
<1>1. CfgInv => OnlyResetTextsLost
  BY DEF CfgInv, OnlyResetTextsLost, Overruled
<1> QED
  BY <1>1, CfgAlways, PTL

\* After a file without an error, cc_cfg_delete (cfg.c) frees every string once.
THEOREM DeleteIsClean == PidSpec => []ParsedDeletes
<1>1. CfgInv => ParsedDeletes
  BY DEF CfgInv, ParsedDeletes
<1> QED
  BY <1>1, CfgAlways, PTL

-----------------------------------------------------------------------------
(* What the getters find.                                                    *)

\* The file says of a key what its entry holds.
LEMMA SaysIs ==
  ASSUME CfgTypes, Keyed, Follows, NEW k \in Keys, Cut[k] = k, GoodFor(k) # {}
  PROVE  \E i \in Places :
           /\ find_entry(Cut[k]) = i /\ Kind(k) = entries[i].kind /\ Entry(k) = entries[i]
           /\ Says(k) \in Values /\ Says(k).class # "bad" /\ Holds(heap, entries[i], Says(k))
<1>1. PICK m \in DOMAIN seen, i \in Places :
        LastOf(GoodFor(k), m) /\ entries[i].key.text = k /\ Holds(heap, entries[i], seen[m].value)
  BY DEF Follows
<1>2. m \in GoodFor(k) /\ \A j \in GoodFor(k) : j <= m
  BY <1>1 DEF LastOf
<1>3. \A j \in GoodFor(k) : j \in Nat
  BY LineIs
<1> DEFINE last == CHOOSE j \in GoodFor(k) : \A l \in GoodFor(k) : l <= j
<1>4. last \in GoodFor(k) /\ \A l \in GoodFor(k) : l <= last
  BY <1>2
<1>5. last = m
  <2> HIDE DEF last
  <2> QED
    BY <1>2, <1>3, <1>4
<1>6. Says(k) = seen[m].value
  BY <1>5 DEF Says
<1>7. seen[m].value \in Values /\ seen[m].value.class # "bad"
  BY <1>2, LineIs
<1>8. find_entry(k) = i /\ i # 0
  BY <1>1, FindIs DEF Places
<1> QED
  BY <1>1, <1>6, <1>7, <1>8 DEF Kind, Entry

\* cc_cfg_get_bool, cc_cfg_get_int, cc_cfg_get_double and cc_cfg_get_str (cfg.c) find what
\* the last good line of their key says, however often it is set and also when a later line
\* was refused.
THEOREM GettersAreRight == PidSpec => []GettersFollowFile
<1>1. CfgInv => GettersFollowFile
  <2> SUFFICES ASSUME CfgInv, NEW k \in Keys, cfg = "loaded", Cut[k] = k, GoodFor(k) # {},
                      NEW v, v = Says(k)
               PROVE  /\ cc_cfg_key_exists(k)
                      /\ cc_cfg_get_bool(k) = CASE v.class = "number" -> v.is # 0
                                                [] v.class = "text" -> Null
                                                [] OTHER -> v.class = "true"
                      /\ IF v.class = "number" THEN cc_cfg_get_int(k) \in ToInt(v.is)
                                               ELSE cc_cfg_get_int(k) = Null
                      /\ cc_cfg_get_double(k) = IF v.class = "number" THEN v.is ELSE Null
                      /\ IF v.class = "text"
                         THEN cc_cfg_get_str(k) \in heap /\ cc_cfg_get_str(k).text = v.is
                         ELSE cc_cfg_get_str(k) = Null
    BY Zenon DEF GettersFollowFile
  <2>1. CfgTypes /\ Keyed /\ Follows
    BY DEF CfgInv
  <2>2. PICK i \in Places :
           /\ find_entry(Cut[k]) = i /\ Kind(k) = entries[i].kind /\ Entry(k) = entries[i]
           /\ v \in Values /\ v.class # "bad" /\ Holds(heap, entries[i], v)
    BY <2>1, SaysIs
  <2>3. cc_cfg_key_exists(k)
    BY <2>1, <2>2 DEF cc_cfg_key_exists, Places, CfgTypes
  <2>4. CASE v.class = "number"
    <3>1. Kind(k) = "num" /\ Entry(k).f64 = v.is /\ Entry(k).i64 \in ToInt(v.is)
      BY <2>2, <2>4 DEF Holds
    <3>2. cc_cfg_get_bool(k) = (v.is # 0)
      BY <3>1 DEF cc_cfg_get_bool
    <3> QED
      BY <2>3, <2>4, <3>1, <3>2 DEF cc_cfg_get_int, cc_cfg_get_double, cc_cfg_get_str
  <2>5. CASE v.class = "text"
    <3>1. Kind(k) = "str" /\ Entry(k).str \in heap /\ Entry(k).str.text = v.is
      BY <2>2, <2>5 DEF Holds
    <3>2. cc_cfg_get_bool(k) = Null
      BY <3>1 DEF cc_cfg_get_bool
    <3> QED
      BY <2>3, <2>5, <3>1, <3>2 DEF cc_cfg_get_int, cc_cfg_get_double, cc_cfg_get_str
  <2>6. CASE v.class \in {"true", "false"}
    <3>1. Kind(k) = "bool" /\ Entry(k).b = (v.class = "true")
      BY <2>2, <2>6 DEF Holds
    <3>2. cc_cfg_get_bool(k) = (v.class = "true")
      BY <3>1 DEF cc_cfg_get_bool
    <3> QED
      BY <2>3, <2>6, <3>1, <3>2 DEF cc_cfg_get_int, cc_cfg_get_double, cc_cfg_get_str
  <2> QED
    BY <2>2, <2>4, <2>5, <2>6, ClassIs
<1> QED
  BY <1>1, CfgAlways, PTL

-----------------------------------------------------------------------------
(* The controller.                                                           *)

GainPlaces == DOMAIN GainKeys

\* The number of gains, and the keys of them.
LEMMA GainsAre ==
  /\ Len(GainKeys) = 4 /\ GainPlaces = 1 .. 4
  /\ \A i \in GainPlaces : GainKeys[i] \in Keys /\ Cut[GainKeys[i]] = GainKeys[i]
BY PidAssumption DEF PidAssumption, GainPlaces

\* A lookup finds a number where a good line gives one.
LEMMA LookupTold ==
  ASSUME CfgInv, cfg = "loaded", NEW i \in GainPlaces, Told(i)
  PROVE  cc_cfg_get_double(GainKeys[i]) = Says(GainKeys[i]).is /\ Says(GainKeys[i]).is # Null
<1>1. PICK k \in Keys : k = GainKeys[i] /\ Cut[k] = k
  BY GainsAre
<1>2. CfgTypes /\ Keyed /\ Follows /\ GoodFor(k) # {} /\ Says(k).class = "number"
  BY <1>1 DEF CfgInv, Told
<1>3. PICK j \in Places :
         /\ find_entry(Cut[k]) = j /\ Kind(k) = entries[j].kind /\ Entry(k) = entries[j]
         /\ Says(k) \in Values /\ Says(k).class # "bad" /\ Holds(heap, entries[j], Says(k))
  BY <1>1, <1>2, SaysIs
<1>4. Kind(k) = "num" /\ Entry(k).f64 = Says(k).is
  BY <1>2, <1>3 DEF Holds
<1>5. Says(k).is \in Numbers
  BY <1>2, <1>3, ClassIs
<1> QED
  BY <1>1, <1>4, <1>5 DEF cc_cfg_get_double

\* A lookup finds nothing where a file without an error has no number.
LEMMA LookupUntold ==
  ASSUME CfgInv, cfg = "loaded", success, NEW i \in GainPlaces, ~Told(i)
  PROVE  cc_cfg_get_double(GainKeys[i]) = Null
<1>1. PICK k \in Keys : k = GainKeys[i] /\ Cut[k] = k
  BY GainsAre
<1>2. CfgTypes /\ Keyed /\ Follows /\ Backed
  BY DEF CfgInv
<1>3. CASE GoodFor(k) = {}
  <2>1. \A j \in Places : entries[j].key.text # k
    BY <1>2, <1>3 DEF Backed
  <2>2. find_entry(k) = 0
    BY <1>2, <2>1, FindIs
  <2>3. Kind(k) = "none"
    BY <1>1, <2>2 DEF Kind
  <2> QED
    BY <1>1, <2>3 DEF cc_cfg_get_double
<1>4. CASE GoodFor(k) # {}
  <2>1. PICK j \in Places :
         /\ find_entry(Cut[k]) = j /\ Kind(k) = entries[j].kind /\ Entry(k) = entries[j]
         /\ Says(k) \in Values /\ Says(k).class # "bad" /\ Holds(heap, entries[j], Says(k))
    BY <1>1, <1>2, <1>4, SaysIs
  <2>2. Says(k).class # "number"
    BY <1>1, <1>4 DEF Told
  <2>3. PICK v \in Values : v = Says(k)
    BY <2>1
  <2>4. v.class \in {"text", "true", "false"}
    BY <2>1, <2>2, <2>3, ClassIs
  <2>5. Kind(k) # "num"
    BY <2>1, <2>3, <2>4 DEF Holds
  <2> QED
    BY <1>1, <2>5 DEF cc_cfg_get_double
<1> QED
  BY <1>3, <1>4

\* The lookups go through to the end if each of them finds a number, and else stop before.
LEMMA LookedIs ==
  /\ (\A i \in GainPlaces : cc_cfg_get_double(GainKeys[i]) # Null) => Looked = GainPlaces
  /\ \A i \in GainPlaces : cc_cfg_get_double(GainKeys[i]) = Null =>
       i \notin Looked /\ 4 \notin Looked
  /\ \A i \in Looked : i \in GainPlaces /\ cc_cfg_get_double(GainKeys[i]) # Null
<1> DEFINE missing == {i \in GainPlaces : cc_cfg_get_double(GainKeys[i]) = Null}
<1>1. Looked = {i \in GainPlaces : \A j \in missing : i < j}
  BY DEF Looked, GainPlaces
<1>2. \A i \in GainPlaces : i \in Nat /\ i <= 4 /\ ~(i < i) /\ ~(4 < i)
  BY GainsAre
<1>3. ASSUME NEW i \in missing PROVE i \notin Looked /\ 4 \notin Looked
  BY <1>1, <1>2, <1>3
<1>4. missing = {} => Looked = GainPlaces
  BY <1>1
<1> QED
  BY <1>1, <1>3, <1>4

\* cc_pid_load_cfg (pid.h) gives a controller all of its gains as the file says and starts
\* it afresh, or leaves its state alone.
THEOREM LoadIsWhole == PidSpec => LoadFollowsFile
<1>1. ASSUME CfgInv, cc_pid_load_cfg
      PROVE  /\ (\A i \in DOMAIN GainKeys : Told(i)) =>
                  /\ gains' = [i \in DOMAIN GainKeys |-> Says(GainKeys[i]).is]
                  /\ {prev', error', deriv', integ'} = {NaN}
             /\ success /\ (\E i \in DOMAIN GainKeys : ~Told(i)) => UNCHANGED state
  <2>1. /\ cfg = "loaded"
        /\ gains' = [i \in GainPlaces |->
                       IF i \in Looked THEN cc_cfg_get_double(GainKeys[i]) ELSE gains[i]]
        /\ IF Looked = GainPlaces THEN ResetLoaded ELSE UNCHANGED <<state, good, ready>>
    BY <1>1 DEF cc_pid_load_cfg, GainPlaces
  <2>2. ASSUME \A i \in GainPlaces : Told(i)
        PROVE  /\ gains' = [i \in GainPlaces |-> Says(GainKeys[i]).is]
               /\ {prev', error', deriv', integ'} = {NaN}
    <3>1. \A i \in GainPlaces : cc_cfg_get_double(GainKeys[i]) = Says(GainKeys[i]).is
                                /\ cc_cfg_get_double(GainKeys[i]) # Null
      BY <1>1, <2>1, <2>2, LookupTold
    <3>2. Looked = GainPlaces
      BY <3>1, LookedIs
    <3> QED
      BY <2>1, <3>1, <3>2 DEF ResetLoaded, Reset
  <2>3. ASSUME success, NEW i \in GainPlaces, ~Told(i) PROVE UNCHANGED state
    <3>1. i \notin Looked
      BY <1>1, <2>1, <2>3, LookupUntold, LookedIs
    <3> QED
      BY <2>1, <2>3, <3>1 DEF state
  <2> QED
    BY <2>2, <2>3 DEF GainPlaces
<1>2. CfgInv /\ [PidNext]_<<vars, pid>> =>
        [cc_pid_load_cfg =>
           /\ (\A i \in DOMAIN GainKeys : Told(i)) =>
                /\ gains' = [i \in DOMAIN GainKeys |-> Says(GainKeys[i]).is]
                /\ {prev', error', deriv', integ'} = {NaN}
           /\ success /\ (\E i \in DOMAIN GainKeys : ~Told(i)) => UNCHANGED state]_<<vars, pid>>
  BY <1>1
<1> QED
  BY <1>2, CfgAlways, PTL DEF PidSpec, LoadFollowsFile

\* The doubles differ from one another and from every integer.
LEMMA DoublesDiffer ==
  /\ Infinity # MinusInfinity /\ NaN # Infinity /\ NaN # MinusInfinity
  /\ Infinity # "num" /\ MinusInfinity # "num" /\ NaN # "num"
  /\ \A f \in Signs : f \notin Special
  /\ \A n \in Int : n \notin Special /\ n # Wild
  /\ Wild \notin Special
BY PidAssumption DEF PidAssumption, Special, Constant

\* The rise time is one that smooths.
Rising == gains[4] \in Int /\ gains[4] > 0

\* How far the controller has got with each good update: first the last input and the
\* error are numbers, then the derivative is no infinity any more, then it is a number.
PidInv ==
  /\ gains \in [GainPlaces -> Constant \cup {Wild}]
  /\ good \in 0 .. 3
  /\ ready => {prev, error, deriv, integ} \subseteq Doubles
  /\ good >= 1 => prev = "num" /\ error = "num" /\ (clamp \in Int => integ = "num")
  /\ good >= 2 /\ Rising => deriv \in {"num", NaN}
  /\ good >= 3 /\ Rising => deriv = "num"

\* A good input steadies the derivative.
LEMMA DerivativeIs ==
  ASSUME Rising, deriv \in Doubles,
         NEW dv \in PerTime(Plus("num", Negated("num")), 1), NEW d \in Derivatives(dv, 1)
  PROVE  /\ d \in {"num", NaN}
         /\ deriv \in {"num", NaN} => d = "num"
<1>1. dv = "num"
  BY DoublesDiffer DEF PerTime, Plus, Negated
<1>2. Smoothing(1) = {"positive"}
  <2>1. gains[4] \in Int /\ gains[4] # 0 /\ ~(gains[4] < 0)
    BY DEF Rising
  <2>2. Sign(gains[4]) = "positive" /\ gains[4] # Wild /\ gains[4] # NaN /\ gains[4] \notin Special
    BY <2>1, DoublesDiffer DEF Sign, Special
  <2> QED
    BY <2>1, <2>2 DEF Smoothing
<1>3. \A a \in Doubles : Times(a, "positive") = {a}
  BY DoublesDiffer DEF Times, Doubles, Special, Signs
<1>4. CASE deriv = NaN
  BY <1>1, <1>4, DoublesDiffer DEF Derivatives
<1>5. CASE deriv # NaN
  <2>1. Plus("num", Negated(deriv)) = Negated(deriv) /\ Negated(deriv) \in Doubles
    BY DEF Plus, Negated, Doubles, Special
  <2>2. d = Plus(deriv, Negated(deriv))
    <3>1. PICK f \in Smoothing(1) : d \in {Plus(deriv, e) : e \in Times(Plus(dv, Negated(deriv)), f)}
      BY <1>5 DEF Derivatives
    <3> QED
      BY <1>1, <1>2, <1>3, <2>1, <3>1
  <2>3. deriv \in {"num", Infinity, MinusInfinity}
    BY <1>5 DEF Doubles, Special
  <2> QED
    BY <2>2, <2>3, DoublesDiffer DEF Plus, Negated
<1> QED
  BY <1>4, <1>5

\* Doubles are closed under what an update does, and a clamp that is a number gives one.
LEMMA DoublesClosed ==
  /\ \A a \in Doubles : Negated(a) \in Doubles
  /\ \A a, b \in Doubles : Plus(a, b) \in Doubles
  /\ \A factor : \A a \in Doubles : Times(a, factor) \subseteq Doubles
  /\ \A dt : \A a \in Doubles : PerTime(a, dt) \subseteq Doubles
  /\ \A a \in Doubles : Clamped(a) \subseteq Doubles
  /\ \A a : clamp \in Int => Clamped(a) = {"num"}
<1>1. \A a \in Doubles : Negated(a) \in Doubles
  BY DEF Negated, Doubles, Special
<1>2. \A a, b \in Doubles : Plus(a, b) \in Doubles
  BY DEF Plus, Doubles, Special
<1>3. \A factor : \A a \in Doubles : Times(a, factor) \subseteq Doubles
  <2> TAKE factor
  <2> TAKE a \in Doubles
  <2>1. Times(a, factor) \in {{NaN}, Special, {"num"}, {a}, {Negated(a)}}
    BY DEF Times
  <2> QED
    BY <1>1, <2>1 DEF Doubles, Special
<1>4. \A dt : \A a \in Doubles : PerTime(a, dt) \subseteq Doubles
  BY DEF PerTime, Doubles
<1>5. \A a \in Doubles : Clamped(a) \subseteq Doubles
  <2> TAKE a \in Doubles
  <2>1. CASE clamp \in {MinusInfinity, NaN}
    <3>1. Negated(clamp) \in Doubles
      BY <1>1, <2>1 DEF Doubles, Special
    <3> QED
      BY <2>1, <3>1, DoublesDiffer DEF Clamped, Special
  <2>2. CASE clamp \notin {MinusInfinity, NaN}
    <3>1. Clamped(a) \in {Doubles, {MinusInfinity}, {a}, {"num"}}
      BY <2>2 DEF Clamped
    <3> QED
      BY <3>1 DEF Doubles, Special
  <2> QED
    BY <2>1, <2>2
<1>6. \A a : clamp \in Int => Clamped(a) = {"num"}
  BY DoublesDiffer DEF Clamped, Special
<1> QED
  BY <1>1, <1>2, <1>3, <1>4, <1>5, <1>6

\* An update keeps the invariant.
LEMMA UpdateInv ==
  ASSUME PidInv, NEW value \in Inputs, NEW err \in Inputs, NEW dt \in {0, 1},
         cc_pid_update(value, err, dt)
  PROVE  PidInv'
<1>1. /\ ready /\ \E step \in Times(err, Sign(dt)) :
                        integ' \in Clamped(Plus(IF integ = NaN THEN "num" ELSE integ, step))
      /\ IF prev = NaN THEN UNCHANGED deriv
         ELSE \E dv \in PerTime(Plus(value, Negated(prev)), dt) : deriv' \in Derivatives(dv, dt)
      /\ error' = err /\ prev' = value
      /\ good' = IF value = "num" /\ err = "num" /\ dt # 0
                 THEN IF good < 3 THEN good + 1 ELSE 3
                 ELSE 0
      /\ UNCHANGED <<ready, gains, clamp>>
  BY DEF cc_pid_update
<1>2. value \in Doubles /\ err \in Doubles
  BY PidAssumption DEF PidAssumption, Doubles
<1>3. /\ good \in 0 .. 3 /\ prev \in Doubles /\ error \in Doubles /\ deriv \in Doubles
      /\ integ \in Doubles
  BY <1>1 DEF PidInv
<1>4. good' \in 0 .. 3
  BY <1>1, <1>3
<1>5. integ' \in Doubles /\ (clamp \in Int => integ' = "num")
  <2>1. PICK step \in Times(err, Sign(dt)) :
          integ' \in Clamped(Plus(IF integ = NaN THEN "num" ELSE integ, step))
    BY <1>1
  <2>2. step \in Doubles /\ (IF integ = NaN THEN "num" ELSE integ) \in Doubles
    BY <1>2, <1>3, <2>1, DoublesClosed DEF Doubles
  <2>3. Plus(IF integ = NaN THEN "num" ELSE integ, step) \in Doubles
    BY <2>2, DoublesClosed
  <2> QED
    BY <2>1, <2>3, DoublesClosed
<1>6. deriv' \in Doubles
  <2>1. CASE prev = NaN
    BY <1>1, <1>3, <2>1
  <2>2. CASE prev # NaN
    <3>1. PICK dv \in PerTime(Plus(value, Negated(prev)), dt) : deriv' \in Derivatives(dv, dt)
      BY <1>1, <2>2
    <3>2. dv \in Doubles
      BY <1>2, <1>3, <3>1, DoublesClosed
    <3>3. CASE deriv = NaN
      BY <3>1, <3>2, <3>3 DEF Derivatives
    <3>4. CASE deriv # NaN
      <4>1. PICK f \in Smoothing(dt) :
              \E d \in Times(Plus(dv, Negated(deriv)), f) : deriv' = Plus(deriv, d)
        BY <3>1, <3>4 DEF Derivatives
      <4>2. Plus(dv, Negated(deriv)) \in Doubles
        BY <1>3, <3>2, DoublesClosed
      <4> QED
        BY <1>3, <4>1, <4>2, DoublesClosed
    <3> QED
      BY <3>3, <3>4
  <2> QED
    BY <2>1, <2>2
<1>7. CASE value = "num" /\ err = "num" /\ dt # 0
  <2>1. good' = IF good < 3 THEN good + 1 ELSE 3
    BY <1>1, <1>7
  <2>2. Rising' <=> Rising
    BY <1>1 DEF Rising
  <2>3. ASSUME good >= 1, Rising
        PROVE  deriv' \in {"num", NaN} /\ (deriv \in {"num", NaN} => deriv' = "num")
    <3>1. prev = "num" /\ dt = 1
      BY <1>7, <2>3 DEF PidInv
    <3>2. PICK dv \in PerTime(Plus("num", Negated("num")), 1) : deriv' \in Derivatives(dv, 1)
      BY <1>1, <1>7, <3>1, DoublesDiffer
    <3> QED
      BY <1>3, <2>3, <3>2, DerivativeIs
  <2>4. good' >= 2 /\ Rising' => deriv' \in {"num", NaN}
    BY <1>3, <2>1, <2>2, <2>3
  <2>5. good' >= 3 /\ Rising' => deriv' = "num"
    <3>1. good' >= 3 => good >= 2
      BY <1>3, <2>1
    <3> QED
      BY <1>3, <2>2, <2>3, <3>1 DEF PidInv
  <2> QED
    BY <1>1, <1>2, <1>4, <1>5, <1>6, <1>7, <2>4, <2>5 DEF PidInv
<1>8. CASE ~(value = "num" /\ err = "num" /\ dt # 0)
  <2>1. good' = 0
    BY <1>1, <1>8
  <2> QED
    BY <1>1, <1>2, <1>5, <1>6, <2>1 DEF PidInv
<1> QED
  BY <1>7, <1>8

\* A controller that is begun anew has no good update behind it.
LEMMA ResetInv ==
  ASSUME gains' \in [GainPlaces -> Constant \cup {Wild}], Reset
  PROVE  PidInv'
BY DEF Reset, PidInv, Doubles, Special

\* A lookup that fails leaves the rise time, which is looked up last.
LEMMA LoadInv ==
  ASSUME CfgInv, PidInv, cc_pid_load_cfg
  PROVE  PidInv'
<1>1. /\ gains' = [i \in GainPlaces |->
                     IF i \in Looked THEN cc_cfg_get_double(GainKeys[i]) ELSE gains[i]]
      /\ IF Looked = GainPlaces THEN Reset /\ ready' = TRUE ELSE UNCHANGED <<state, good, ready>>
      /\ UNCHANGED clamp
  BY DEF cc_pid_load_cfg, GainPlaces, ResetLoaded
<1>2. \A i \in Looked : cc_cfg_get_double(GainKeys[i]) \in Int \cup {Wild}
  <2> TAKE i \in Looked
  <2>1. i \in GainPlaces /\ cc_cfg_get_double(GainKeys[i]) # Null
    BY LookedIs
  <2>2. PICK k \in Keys : k = GainKeys[i] /\ Cut[k] = k
    BY <2>1, GainsAre
  <2>3. Kind(k) = "num" /\ cc_cfg_get_double(k) = Entry(k).f64
    BY <2>1, <2>2 DEF cc_cfg_get_double
  <2>4. find_entry(k) # 0 /\ Entry(k) = entries[find_entry(k)]
    BY <2>2, <2>3 DEF Kind, Entry
  <2>5. find_entry(k) \in Places
    BY <2>4, FindIs DEF CfgInv
  <2>6. entries[find_entry(k)] \in EntrySet
    BY <2>5 DEF CfgInv, CfgTypes, Places
  <2> QED
    BY <2>2, <2>3, <2>4, <2>6 DEF EntrySet
<1>3. gains' \in [GainPlaces -> Constant \cup {Wild}]
  BY <1>1, <1>2 DEF PidInv, Constant
<1>4. CASE Looked = GainPlaces
  BY <1>1, <1>3, <1>4, ResetInv
<1>5. CASE Looked # GainPlaces
  <2>1. 4 \notin Looked
    BY <1>5, LookedIs
  <2>2. gains'[4] = gains[4]
    BY <1>1, <2>1, GainsAre
  <2>3. UNCHANGED <<prev, error, deriv, integ, good, ready, clamp>> /\ (Rising' <=> Rising)
    BY <1>1, <1>5, <2>2 DEF state, Rising
  <2> QED
    BY <1>3, <2>3 DEF PidInv
<1> QED
  BY <1>4, <1>5

\* Every step of the configuration and of the controller keeps the invariant.
LEMMA PidStepInv == CfgInv /\ PidInv /\ [PidNext]_<<vars, pid>> => PidInv'
<1> SUFFICES ASSUME CfgInv, PidInv, [PidNext]_<<vars, pid>> PROVE PidInv'
  OBVIOUS
<1>1. CASE UNCHANGED pid
  BY <1>1 DEF pid, state, PidInv, Rising
<1>2. CASE cc_pid_init
  <2>1. PICK s \in Setups : gains' = [i \in GainPlaces |-> s.gains[i]]
    BY <1>2 DEF cc_pid_init, GainPlaces
  <2>2. \A i \in GainPlaces : s.gains[i] \in Constant
    BY PidAssumption, GainsAre DEF PidAssumption
  <2>3. gains' \in [GainPlaces -> Constant \cup {Wild}]
    BY <2>1, <2>2
  <2> QED
    BY <1>2, <2>3, ResetInv DEF cc_pid_init
<1>3. CASE cc_pid_reset
  BY <1>3, ResetInv DEF cc_pid_reset, PidInv
<1>4. CASE cc_pid_load_cfg
  BY <1>4, LoadInv
<1>5. CASE \E value, err \in Inputs, dt \in {0, 1} : cc_pid_update(value, err, dt)
  BY <1>5, UpdateInv
<1> QED
  BY <1>1, <1>2, <1>3, <1>4, <1>5 DEF PidNext, PidStep, pid

\* cc_pid_update (pid.h) brings the output of a controller with numbers for gains and
\* clamp back to a number by the third good input, whatever it was set up with or loaded
\* from, and whatever it was fed, before.
THEOREM OutputIsNumber == PidSpec => []OutputSettles
<1>1. PidInit => PidInv
  BY DEF PidInit, PidInv, GainPlaces
<1>2. ASSUME PidInv PROVE OutputSettles
  <2> SUFFICES ASSUME good = 3, clamp \in Int, \A i \in 1 .. 4 : gains[i] \in Int, gains[4] > 0
               PROVE  cc_pid_get_output = {"num"}
    BY DEF OutputSettles
  <2>1. prev = "num" /\ error = "num" /\ integ = "num" /\ deriv = "num"
    BY <1>2 DEF PidInv, Rising
  <2>2. ASSUME NEW c \in Int PROVE Term(c, "num") = {"num"}
    <3>1. Factors(c) = {Sign(c)} /\ Sign(c) \in Signs
      BY DoublesDiffer DEF Factors, Sign, Signs
    <3>2. \A f \in Signs : Times("num", f) = {"num"}
      <4> TAKE f \in Signs
      <4>1. f \notin Special /\ NaN \notin {"num", f}
        BY DoublesDiffer DEF Special
      <4> QED
        BY <4>1 DEF Times
    <3> QED
      BY <3>1, <3>2 DEF Term
  <2>3. \A i \in {1, 2, 3} : Term(gains[i], "num") = {"num"}
    BY <2>2
  <2>4. Plus(Plus("num", "num"), "num") = "num" /\ NaN \notin {prev, integ}
    BY <2>1, DoublesDiffer DEF Plus
  <2> QED
    BY <2>1, <2>3, <2>4 DEF cc_pid_get_output
<1> QED
  BY <1>1, <1>2, PidStepInv, CfgAlways, PTL DEF PidSpec
=============================================================================
