----------------------------- MODULE MCLspConn -----------------------------
(* Instances of LspConn for TLC. *)
EXTENDS LspConn, TLC

Symmetry == Permutations(Callers)
=============================================================================
