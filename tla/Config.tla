------------------------------- MODULE Config -------------------------------
(***************************************************************************)
(* The configuration parser of src/cfg.c: a growing array of entries, filled *)
(* line by line from a file, and the strings that the entries own.  One      *)
(* thread loads a configuration, looks things up in it and deletes it.       *)
(*                                                                          *)
(* A file is read a line at a time, and what the next line is, is a choice.  *)
(* Lines and values are what the parser tells apart in them; numbers are     *)
(* counted in halves, so that they can have a fraction.                      *)
(***************************************************************************)
EXTENDS Integers, Sequences, FiniteSets, Functions

CONSTANTS
  Keys,             \* what may be in front of a colon
  Cut,              \* what a getter makes of a key in its buffer of 256 bytes
  Numbers,          \* the numbers in the file, in halves
  Strings,          \* the texts between quotes
  IntMax,           \* INT_MAX
  DefaultCapacity,  \* CC_CFG_DEFAULT_CAPACITY
  MaxLines,         \* bound: lines of a file that are not blank
  Null,             \* the null pointer
  Wild              \* what memory that was never written holds

ASSUME ConfigAssumption ==
  /\ Cut \in [Keys -> Keys]
  /\ Numbers \subseteq Int
  /\ Null \notin Keys \cup Numbers
  /\ IntMax \in Nat
  /\ DefaultCapacity \in Nat \ {0}

VARIABLES
  cfg,       \* the configuration: "none", "parsing", "loaded", "deleted"
  entries,   \* cfg->entries, as far as count
  capacity,  \* cfg->capacity
  heap,      \* the strings that are allocated
  allocs,    \* how many ever were
  seen,      \* the lines read so far
  success,   \* what parse returns, which its caller ignores
  fault      \* TRUE once something was freed that was not allocated

vars == <<cfg, entries, capacity, heap, allocs, seen, success, fault>>

-----------------------------------------------------------------------------
(* Lines.  A value is a number, a text, or one of the three words; "bad" is   *)
(* every value that parse_value refuses: none at all, an open quote, a sign   *)
(* or a t or f without the rest, anything else.                               *)

Values == [class : {"number"}, is : Numbers] \cup [class : {"text"}, is : Strings]
          \cup [class : {"true", "false", "bad"}, is : {Null}]

\* A line with a colon; rest tells if other text, not a comment, is behind the
\* value.
Lines == [key : Keys, value : Values, rest : BOOLEAN]

\* The other two kinds of line.
Comment == [key |-> Null, value |-> [class |-> "comment", is |-> Null], rest |-> FALSE]

NoColon == [key |-> Null, value |-> [class |-> "no colon", is |-> Null], rest |-> FALSE]

\* A string on the heap: the pointer tells what is in it.
String(n, text) == [at |-> n, text |-> text]

-----------------------------------------------------------------------------
(* Entries *)

\* The first entry with a key, or 0.
find_entry(k) ==
  LET hits == {i \in DOMAIN entries : entries[i].key.text = k}
  IN  IF hits = {} THEN 0 ELSE CHOOSE i \in hits : \A j \in hits : i <= j

\* Fault: the array grows when it is more than full.
ensure_late ==
  IF Len(entries) <= capacity THEN capacity
  ELSE IF capacity # 0 THEN capacity * 2 ELSE DefaultCapacity

ensure ==
  IF Len(entries) + 1 < capacity THEN capacity
  ELSE IF capacity # 0 THEN capacity * 2 ELSE DefaultCapacity

\* An entry that was just added: realloc leaves all but the key as it was.
Fresh(k) ==
  [key : {String(allocs + 1, k)}, kind : {"nil", "str", "num", "bool"},
   str : {Wild}, f64 : {Wild}, i64 : {Wild}, b : {Wild}]

\* Fault: the search leaves out the last entry.
find_entry_or_add_short(k) ==
  IF find_entry(k) \in 1 .. Len(entries) - 1
  THEN {[at |-> find_entry(k), in |-> entries]}
  ELSE {[at |-> Len(entries) + 1, in |-> Append(entries, e)] : e \in Fresh(k)}

\* The entry of a key and the array it is in, for each content of a new one.
find_entry_or_add(k) ==
  IF find_entry(k) # 0
  THEN {[at |-> find_entry(k), in |-> entries]}
  ELSE {[at |-> Len(entries) + 1, in |-> Append(entries, e)] : e \in Fresh(k)}

-----------------------------------------------------------------------------
(* Values.  Each parser gives the entries that e may become. *)

\* A double becomes an int without its fraction; one that is out of range is
\* undefined.
ToInt(n) == LET whole == IF n < 0 THEN -((-n) \div 2) ELSE n \div 2
            IN  IF whole \in -IntMax - 1 .. IntMax THEN {whole} ELSE {0, IntMax, -IntMax - 1}

parse_number(e, n) ==
  {[e EXCEPT !.kind = "num", !.f64 = n, !.i64 = i, !.b = i # 0, !.str = Null] : i \in ToInt(n)}

\* Fault: the entry points at the line, which is overwritten and freed.
parse_string_line(e, text, n) ==
  {[e EXCEPT !.kind = "str", !.f64 = 0, !.i64 = 0, !.b = TRUE, !.str = String(0, text)]}

parse_string(e, text, n) ==
  {[e EXCEPT !.kind = "str", !.f64 = 0, !.i64 = 0, !.b = TRUE, !.str = String(n, text)]}

parse_bool(e, b) ==
  {[e EXCEPT !.kind = "bool", !.str = Null, !.b = b,
             !.i64 = IF b THEN 1 ELSE 0, !.f64 = IF b THEN 2 ELSE 0]}

\* The string of a text is the allocation number n.
parse_value(e, v, n) ==
  CASE v.class = "number" -> parse_number(e, v.is)
    [] v.class = "text"   -> parse_string(e, v.is, n)
    [] v.class = "true"   -> parse_bool(e, TRUE)
    [] v.class = "false"  -> parse_bool(e, FALSE)
    [] v.class = "bad"    -> {e}

-----------------------------------------------------------------------------
(* cc_cfg_load *)

Load == /\ cfg = "none"
        /\ cfg' = "parsing"
        /\ UNCHANGED <<entries, capacity, heap, allocs, seen, success, fault>>

\* An error ends the parsing; the configuration is kept as far as it is.
Failed(failed) == /\ success' = ~failed
                  /\ cfg' = IF failed THEN "loaded" ELSE "parsing"

Reading(line) == /\ cfg = "parsing"
                 /\ Len(seen) < MaxLines
                 /\ seen' = Append(seen, line)

ParseSkip == /\ Reading(Comment)
             /\ UNCHANGED <<cfg, entries, capacity, heap, allocs, success, fault>>

ParseNoColon == /\ Reading(NoColon)
                /\ Failed(TRUE)
                /\ UNCHANGED <<entries, capacity, heap, allocs, fault>>

\* Adds the key if it is new, and then gives the entry the value if that is good.
ParseEntry(line) ==
  LET added == IF find_entry(line.key) = 0 THEN 1 ELSE 0
      texts == IF line.value.class = "text" THEN 1 ELSE 0
  IN  /\ Reading(line)
      /\ \E slot \in find_entry_or_add(line.key) :
         \E e \in parse_value(slot.in[slot.at], line.value, allocs + added + 1) :
           /\ entries' = [slot.in EXCEPT ![slot.at] = e]
           /\ capacity' = IF Len(slot.in) > Len(entries) THEN ensure ELSE capacity
      /\ heap' = heap \cup {String(allocs + 1, line.key) : i \in 1 .. added}
                      \cup {String(allocs + added + 1, line.value.is) : i \in 1 .. texts}
      /\ allocs' = allocs + added + texts
      /\ Failed(line.value.class = "bad" \/ line.rest)
      /\ UNCHANGED fault

\* The end of the file.
ParseEnd == /\ cfg = "parsing"
            /\ cfg' = "loaded"
            /\ UNCHANGED <<entries, capacity, heap, allocs, seen, success, fault>>

-----------------------------------------------------------------------------
(* cc_cfg_delete *)

\* Fault: the strings are left alone.
FreedKeys == [i \in DOMAIN entries |-> entries[i].key]

\* The pointer that each call of cc_free frees: the text of an entry, and its key.
Freed ==
  LET calls == {c \in (DOMAIN entries) \X {"str", "key"} : c[2] = "str" => entries[c[1]].kind = "str"}
  IN  [c \in calls |-> IF c[2] = "str" THEN entries[c[1]].str ELSE entries[c[1]].key]

Delete ==
  /\ cfg = "loaded"
  /\ cfg' = "deleted"
  /\ heap' = heap \ Range(Freed)
  /\ fault' = ~(Range(Freed) \subseteq heap /\ IsInjective(Freed))
  /\ UNCHANGED <<entries, capacity, allocs, seen, success>>

-----------------------------------------------------------------------------
(* The getters, which change nothing: what they find, or Null when they       *)
(* return false.  cc_cfg_get_float also rounds what cc_cfg_get_double finds.  *)

Kind(k) == IF find_entry(Cut[k]) = 0 THEN "none" ELSE entries[find_entry(Cut[k])].kind

Entry(k) == entries[find_entry(Cut[k])]

cc_cfg_key_exists(k) == find_entry(Cut[k]) # 0

cc_cfg_get_bool(k) ==
  CASE Kind(k) = "nil" -> FALSE
    [] Kind(k) = "num" -> Entry(k).f64 # 0
    [] Kind(k) = "bool" -> Entry(k).b
    [] OTHER -> Null

cc_cfg_get_int(k) == IF Kind(k) = "num" THEN Entry(k).i64 ELSE Null

cc_cfg_get_double(k) == IF Kind(k) = "num" THEN Entry(k).f64 ELSE Null

cc_cfg_get_str(k) == IF Kind(k) = "str" THEN Entry(k).str ELSE Null

-----------------------------------------------------------------------------
Init == /\ cfg = "none"
        /\ entries = <<>>
        /\ capacity = 0
        /\ heap = {}
        /\ allocs = 0
        /\ seen = <<>>
        /\ success = TRUE
        /\ fault = FALSE

Next == \/ Load \/ ParseSkip \/ ParseNoColon \/ ParseEnd \/ Delete
        \/ \E line \in Lines : ParseEntry(line)

Spec == Init /\ [][Next]_vars

-----------------------------------------------------------------------------
(* Properties *)

\* What the file says of a key: the value of the last line that gives it a good one.
GoodFor(k) == {i \in DOMAIN seen : seen[i].key = k /\ seen[i].value.class # "bad"}

Says(k) == seen[CHOOSE i \in GoodFor(k) : \A j \in GoodFor(k) : j <= i].value

\* The entry that find_entry_or_add hands out is inside the array: ensure, which looks at
\* the count before it is raised, is never a step behind.
EntriesFit == Len(entries) <= capacity

\* Each getter gives what the last good line for its key says, converted, and refuses
\* the key if that is of another kind; this holds for keys that fit the getter's buffer,
\* also when a later line was refused, and find_entry takes the first of the entries.
GettersFollowFile ==
  \A k \in Keys : cfg = "loaded" /\ Cut[k] = k /\ GoodFor(k) # {} =>
    LET v == Says(k)
    IN  /\ cc_cfg_key_exists(k)
        /\ cc_cfg_get_bool(k) = CASE v.class = "number" -> v.is # 0
                                  [] v.class = "text" -> Null
                                  [] OTHER -> v.class = "true"
        /\ IF v.class = "number" THEN cc_cfg_get_int(k) \in ToInt(v.is)
                                 ELSE cc_cfg_get_int(k) = Null
        /\ cc_cfg_get_double(k) = IF v.class = "number" THEN v.is ELSE Null
        /\ IF v.class = "text"
           THEN cc_cfg_get_str(k) \in heap /\ cc_cfg_get_str(k).text = v.is
           ELSE cc_cfg_get_str(k) = Null

\* cc_cfg_delete leaves nothing on the heap unless the file sets a key again that has
\* a text: parse_string and the others overwrite the old one.  A file that was refused
\* half way through makes no difference.
OnlyResetTextsLost ==
  cfg = "deleted" => \A s \in heap : \E i, j \in DOMAIN seen :
    /\ i < j
    /\ {i, j} \subseteq UNION {GoodFor(k) : k \in Keys}
    /\ seen[i].key = seen[j].key
    /\ seen[i].value = [class |-> "text", is |-> s.text]

\* What a file that was parsed to its end leaves can be deleted: every string is freed
\* once and none that was not allocated.
ParsedDeletes == success => ~fault

\* "Frees the memory at [ptr]" (memory.h): cc_free is only called on allocated
\* memory.
FreesAllocated == ~fault
=============================================================================
