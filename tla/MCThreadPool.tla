---------------------------- MODULE MCThreadPool ----------------------------
(* The thread pool on small sets of clients, workers and tasks. *)
EXTENDS ThreadPool, TLC

\* Tasks are interchangeable; workers are joined in the order of their numbers.
TaskSymmetry == Permutations(Tasks)
=============================================================================
