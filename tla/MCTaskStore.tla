---------------------------- MODULE MCTaskStore ----------------------------
(* Instances of TaskStore for TLC.                                         *)
EXTENDS TaskStore, TLC

Symmetry == Permutations(Callers) \cup Permutations(Locks)
=============================================================================
