--------------------------- MODULE MCProjectQuery ---------------------------
(* Instances of ProjectQuery for TLC. No symmetry: liveness is checked too. *)
EXTENDS ProjectQuery
=============================================================================
