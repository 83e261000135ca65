------------------------------ MODULE TableMap ------------------------------
(***************************************************************************)
(* What the hash table of include/ccore/table.h is without its buckets: a   *)
(* map from keys to the values stored under them, newest first.  A table    *)
(* with one value per key keeps the first, as src/table.c does; the header  *)
(* (table.h:46) promises the last, see InsertedIsFound of HashTable.tla,    *)
(* which implements this module.                                            *)
(***************************************************************************)
EXTENDS Naturals, Sequences

CONSTANTS Keys, Values, None

VARIABLES ready,    \* TRUE between cctable_init and cctable_deinit
          multiple, \* TRUE if a key may have many values
          map,      \* the values of every key
          found     \* the values that the last lookup found, or None

vars == <<ready, multiple, map, found>>

Empty == [k \in Keys |-> <<>>]

Init == /\ ready = FALSE
        /\ multiple \in BOOLEAN
        /\ map = Empty
        /\ found = None

Open == /\ ~ready
        /\ ready' = TRUE
        /\ multiple' \in BOOLEAN
        /\ UNCHANGED <<map, found>>

Insert(k, v) ==
  /\ ready
  /\ map' = IF multiple \/ map[k] = <<>> THEN [map EXCEPT ![k] = <<v>> \o @] ELSE map
  /\ UNCHANGED <<ready, multiple, found>>

Lookup(k) == /\ ready
             /\ found' = IF map[k] = <<>> THEN None ELSE map[k]
             /\ UNCHANGED <<ready, multiple, map>>

Close == /\ ready
         /\ ready' = FALSE
         /\ map' = Empty
         /\ UNCHANGED <<multiple, found>>

Next == \/ Open \/ Close
        \/ \E k \in Keys : Lookup(k) \/ \E v \in Values : Insert(k, v)

Spec == Init /\ [][Next]_vars
=============================================================================
