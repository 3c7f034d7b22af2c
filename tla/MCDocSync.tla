----------------------------- MODULE MCDocSync -----------------------------
(* Instances of DocSync for TLC: a file in the root and one in a directory. *)
EXTENDS DocSync, TLC

CONSTANTS top, inner, sub

MCDirOf == [f \in {top, inner} |-> IF f = top THEN Root ELSE sub]

Symmetry == Permutations(Texts)
=============================================================================
