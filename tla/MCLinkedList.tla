---------------------------- MODULE MCLinkedList ----------------------------
(* The list on a small set of objects, which are interchangeable. *)
EXTENDS LinkedList, TLC

ObjectSymmetry == Permutations(Objects)
=============================================================================
