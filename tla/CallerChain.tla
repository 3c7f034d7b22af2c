---------------------------- MODULE CallerChain ----------------------------
(***************************************************************************)
(* Project.FindReferences (domain/project.go): the breadth-first walk up   *)
(* the caller chain of a target symbol.                                    *)
(*                                                                         *)
(* A location that textDocument/references returns is abstracted to its    *)
(* file and to the innermost symbol that contains it there, NoSymbol for a *)
(* top-level statement. Symbols stand for symbol ids: two locations have   *)
(* the same caller iff the ids the code computes for them are equal.       *)
(***************************************************************************)
EXTENDS Naturals, Sequences

CONSTANTS
  Symbols,          \* symbols of the code base
  Files,            \* its files
  NoSymbol,         \* InnermostSymbol's nil
  Target,           \* the symbol asked about
  HiddenFiles,      \* files outside the root or matching an exclude pattern
  ExcludedSymbols,  \* symbols matching an exclude_symbols pattern
  RefGraphs         \* the answers of textDocument/references to consider

Locations == [file : Files, caller : Symbols \cup {NoSymbol}]

ASSUME ChainAssumption ==
  /\ NoSymbol \notin Symbols
  /\ Target \in Symbols
  /\ RefGraphs \subseteq [Symbols -> SUBSET Locations]

VARIABLES
  refs,     \* refs[s]: the locations that refer to s
  pc,       \* "walk" while the loop runs, then "done"
  queue,    \* symbols whose callers have not been asked for
  locs,     \* locations of the current symbol not looked at yet
  visited,  \* symbols seen, the target included
  results,  \* payload.Results
  docs,     \* docCache
  warned,   \* payload.Warnings is not empty
  asked     \* symbols textDocument/references was called for

vars == <<refs, pc, queue, locs, visited, results, docs, warned, asked>>

TypeOK ==
  /\ refs \in [Symbols -> SUBSET Locations]
  /\ pc \in {"walk", "done"}
  /\ queue \in Seq(Symbols)
  /\ locs \in SUBSET Locations
  /\ visited \in SUBSET Symbols
  /\ results \in Seq(Symbols)
  /\ docs \in [Files -> {"unread", "read", "failed"}]
  /\ warned \in BOOLEAN
  /\ asked \in SUBSET Symbols

Init ==
  /\ refs \in RefGraphs
  /\ pc = "walk"
  /\ queue = <<Target>>
  /\ locs = {}
  /\ visited = {Target}
  /\ results = <<>>
  /\ docs = [f \in Files |-> "unread"]
  /\ warned = FALSE
  /\ asked = {}

-----------------------------------------------------------------------------
\* Mutant: the warning is lost.
LoseWarning == UNCHANGED warned

AppendWarning == warned' = TRUE

\* Mutant: after a failed call the symbol goes back to the end of the queue.
AskAgain ==
  /\ pc = "walk"
  /\ locs = {}
  /\ queue # <<>>
  /\ asked' = asked \cup {Head(queue)}
  /\ \/ locs' = refs[Head(queue)] /\ queue' = Tail(queue) /\ UNCHANGED warned
     \/ AppendWarning /\ queue' = Append(Tail(queue), Head(queue)) /\ UNCHANGED locs
  /\ UNCHANGED <<refs, pc, visited, results, docs>>

\* Pop the head of the queue and ask for its references.
Ask ==
  /\ pc = "walk"
  /\ locs = {}
  /\ queue # <<>>
  /\ queue' = Tail(queue)
  /\ asked' = asked \cup {Head(queue)}
  /\ \/ /\ locs' = refs[Head(queue)]
        /\ UNCHANGED warned
     \/ \* the call fails: a warning, and on to the next item
        /\ AppendWarning
        /\ UNCHANGED locs
  /\ UNCHANGED <<refs, pc, visited, results, docs>>

\* RelPathInRoot and IsExcluded drop the location before its file is read.
SkipHidden(loc) ==
  /\ loc.file \in HiddenFiles
  /\ locs' = locs \ {loc}
  /\ UNCHANGED <<refs, pc, queue, visited, results, docs, warned, asked>>

\* getDoc fails now, with a warning, or has failed before, silently: its nil is
\* cached, so no location of that file has a caller.
SkipUnreadable(loc) ==
  /\ loc.file \notin HiddenFiles
  /\ docs[loc.file] # "read"
  /\ docs' = [docs EXCEPT ![loc.file] = "failed"]
  /\ IF docs[loc.file] = "unread" THEN AppendWarning ELSE UNCHANGED warned
  /\ locs' = locs \ {loc}
  /\ UNCHANGED <<refs, pc, queue, visited, results, asked>>

\* Mutants: a nil caller is not skipped; exclude_symbols is not looked at; a symbol
\* is marked when it is asked about and not when it is enqueued.
NilToo      == (Symbols \cup {NoSymbol}) \ (ExcludedSymbols \cup visited)
ExcludedToo == Symbols \ visited
NotAskedYet == Symbols \ (ExcludedSymbols \cup asked)

NotVisited == Symbols \ (ExcludedSymbols \cup visited)

\* The file's symbols are known: find the caller, and visit it unless there is
\* none, it is excluded, or it was visited before.
Resolve(loc) ==
  /\ loc.file \notin HiddenFiles
  /\ docs[loc.file] # "failed"
  /\ docs' = [docs EXCEPT ![loc.file] = "read"]
  /\ locs' = locs \ {loc}
  /\ IF loc.caller \in NotVisited
       THEN /\ visited' = visited \cup {loc.caller}
            /\ results' = Append(results, loc.caller)
            /\ queue' = Append(queue, loc.caller)
       ELSE UNCHANGED <<visited, results, queue>>
  /\ UNCHANGED <<refs, pc, warned, asked>>

Finish ==
  /\ pc = "walk"
  /\ locs = {}
  /\ queue = <<>>
  /\ pc' = "done"
  /\ UNCHANGED <<refs, queue, locs, visited, results, docs, warned, asked>>

Returned == pc = "done" /\ UNCHANGED vars

Next ==
  \/ Ask
  \/ \E loc \in locs : SkipHidden(loc) \/ SkipUnreadable(loc) \/ Resolve(loc)
  \/ Finish
  \/ Returned

Spec == Init /\ [][Next]_vars

FairSpec == Spec /\ WF_vars(Next)

-----------------------------------------------------------------------------
(* What the walk is for. *)

\* The callers of s that a result may name.
Callers(s) ==
  {c \in Symbols \ ExcludedSymbols :
     \E loc \in refs[s] : loc.caller = c /\ loc.file \notin HiddenFiles}

Closed(S) == Target \in S /\ \A s \in S : Callers(s) \subseteq S

\* The caller chain: what every set closed under Callers contains.
Upstream == {s \in Symbols : \A S \in SUBSET Symbols : Closed(S) => s \in S}

\* Everything the walk visits is upstream of the target: it never passes through
\* an excluded symbol or a file outside the project.
OnlyUpstream == visited \subseteq Upstream

\* A result without warnings is complete: the whole caller chain, whatever the
\* order of the locations and however the calls share callers and cycles.
CompleteUnlessWarned == pc = "done" /\ ~warned => visited = Upstream

\* The results are the visited symbols without the target, each of them once.
ResultsAreVisited ==
  /\ visited = {Target} \cup {results[i] : i \in DOMAIN results}
  /\ Target \notin {results[i] : i \in DOMAIN results}
  /\ \A i, j \in DOMAIN results : results[i] = results[j] => i = j

\* The server is asked about a symbol at most once, so cycles end and the number
\* of calls is bounded by the number of symbols.
AskedOnce ==
  /\ \A i \in DOMAIN queue : queue[i] \notin asked
  /\ \A i, j \in DOMAIN queue : queue[i] = queue[j] => i = j

\* The walk returns for every shape of caller graph, cycles included.
Terminates == <>(pc = "done")
=============================================================================
