----------------------------- MODULE MCAnalyze -----------------------------
(***************************************************************************)
(* Instances of Analyze for TLC: a language with two files, of which one   *)
(* has an excluded symbol, and a language with one file; a choice of up to *)
(* two references to a, one to b and one to c, from anywhere.              *)
(***************************************************************************)
EXTENDS Analyze

CONSTANTS go, ts, m1, m2, n1, a, b, x, c

MCFilesOf   == [l \in {go, ts} |-> IF l = go THEN {m1, m2} ELSE {n1}]
MCSymbolsOf == [f \in {m1, m2, n1} |-> CASE f = m1 -> {a} [] f = m2 -> {b, x} [] f = n1 -> {c}]

Loc(f, s) == [file |-> f, caller |-> s]

FromAnywhere ==
  {Loc(m1, a), Loc(m2, b), Loc(m2, x), Loc(n1, c), Loc(m2, NoSymbol)}

AtMost(n) == {S \in SUBSET FromAnywhere : Cardinality(S) <= n}

MCRefGraphs ==
  {[s \in {a, b, x, c} |-> CASE s = a -> ra [] s = b -> rb [] s = c -> rc
                             [] s = x -> {Loc(m1, a)}] :
     ra \in AtMost(2), rb \in AtMost(1), rc \in {{}, {Loc(m1, a)}}}
=============================================================================
