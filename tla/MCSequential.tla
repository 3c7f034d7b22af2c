---------------------------- MODULE MCSequential ----------------------------
(***************************************************************************)
(* Instances of the sequential parts for TLC: Symbols and SourceTree, whose*)
(* states are inputs, and StderrTail and Startup. They share no state, so  *)
(* one run explores them side by side: part says which one moves, and the  *)
(* others rest in one state.                                               *)
(***************************************************************************)
EXTENDS Symbols, SourceTree, StderrTail, Startup

CONSTANT MaxHistory  \* bound: lines added to the stderr tail

VARIABLE part

sequentialVars == <<part, vars, treeVars, tailVars, startupVars>>

\* A small and a capital letter, another letter, the letter e with an acute accent,
\* small and capital, and the two runes whose code points are the bytes of the small
\* one's encoding.
MCRunes == {97, 65, 98, 233, 201, 195, 169}

\* Two languages whose default excludes hide a directory of the other.
MCLangOf == [f \in {"a.go", "a.ts"} |-> IF f = "a.go" THEN "go" ELSE "ts"]

Pattern(kind, name) == [kind |-> kind, at |-> name]

MCDefaults ==
  [l \in {"go", "ts"} |->
     {Pattern("below", IF l = "go" THEN <<"vendor">> ELSE <<"node_modules">>)}]

MCUserPatterns ==
  [kind : {"path", "below", "name"}, at : {<<"src">>, <<"vendor">>, <<"a.go">>}]
  \cup [kind : {"path", "below"}, at : {<<"src", "src">>, <<"src", "a.go">>}]

\* No entry, one, two with the launch directory or without a root, and two entries
\* for the same directory.
Entry(r, e) == [root |-> r, excludes |-> e]

MCConfigFiles ==
  {<<>>,
   <<Entry("dir", "a")>>,
   <<Entry("none", "a"), Entry("cwd", "b")>>,
   <<Entry("dir", "b"), Entry("cwd", "a")>>,
   <<Entry("dir", "a"), Entry("dir", "b")>>,
   <<Entry("cwd", "a"), Entry("none", "b"), Entry("dir", "b")>>}

-----------------------------------------------------------------------------
SymbolsAtRest == doc = NoSymbols /\ pos = Origin /\ query = <<>> /\ target = <<>>

StartupAtRest ==
  /\ file = NoConfig
  /\ disk = [r \in Roots |-> "missing"]
  /\ StartupInit

SequentialInit ==
  \/ part = "tree"    /\ SymbolsAtRest /\ TreeInit /\ TailInit /\ StartupAtRest
  \/ part = "tail"    /\ SymbolsAtRest /\ NoTree   /\ TailInit /\ StartupAtRest
  \/ part = "startup" /\ SymbolsAtRest /\ NoTree   /\ TailInit /\ StartupInit
  \/ part = "symbols" /\ Init          /\ NoTree   /\ TailInit /\ StartupAtRest

SequentialNext ==
  \/ /\ part = "tail"
     /\ Len(history) < MaxHistory
     /\ TailNext
     /\ UNCHANGED <<part, vars, treeVars, startupVars>>
  \/ /\ part = "startup"
     /\ StartupNext
     /\ UNCHANGED <<part, vars, treeVars, tailVars>>
  \/ UNCHANGED sequentialVars

SequentialSpec == SequentialInit /\ [][SequentialNext]_sequentialVars
=============================================================================
