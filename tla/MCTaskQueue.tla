---------------------------- MODULE MCTaskQueue ----------------------------
(* Small instances of TaskQueue for TLC. *)
EXTENDS TaskQueue, TLC

Symmetry == Permutations(Users) \cup Permutations(Job)
=============================================================================
