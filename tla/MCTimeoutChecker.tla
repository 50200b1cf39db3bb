-------------------------- MODULE MCTimeoutChecker --------------------------
(* Instances of TimeoutChecker for TLC.                                    *)
EXTENDS TimeoutChecker, TLC

Symmetry == Permutations(Tasks)
=============================================================================
