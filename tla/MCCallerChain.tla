--------------------------- MODULE MCCallerChain ---------------------------
(***************************************************************************)
(* Instances of CallerChain for TLC: every caller graph over a target and  *)
(* two other symbols, with references from an excluded symbol, from a file *)
(* that is hidden and from a top-level statement. The excluded symbol and  *)
(* the hidden one have a caller of their own, so walking through them      *)
(* would show.                                                             *)
(***************************************************************************)
EXTENDS CallerChain, FiniteSets

CONSTANTS t, a, b, x, h, main, lib, vendor

MCSymbols == {t, a, b, x, h}
MCFiles   == {main, lib, vendor}

Loc(f, s) == [file |-> f, caller |-> s]

FromAnywhere ==
  {Loc(main, t), Loc(main, a), Loc(lib, b), Loc(main, x), Loc(vendor, h), Loc(lib, NoSymbol)}

AtMost(n) == {S \in SUBSET FromAnywhere : Cardinality(S) <= n}

MCRefGraphs ==
  {[s \in MCSymbols |-> CASE s = t -> rt [] s = a -> ra [] s = b -> rb
                          [] OTHER -> {Loc(lib, b)}] :
     rt \in AtMost(2), ra \in AtMost(2), rb \in AtMost(2)}
=============================================================================
