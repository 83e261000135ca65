---------------------------- MODULE MCHashTable ----------------------------
(* The table on small sets of keys and values; the values are alike. *)
EXTENDS HashTable, TLC

ValueSymmetry == Permutations(Values)

\* A word of eight bits, smeared over four of them.
HalfShifts == <<1, 2>>
=============================================================================
