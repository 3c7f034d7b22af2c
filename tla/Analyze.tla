------------------------------ MODULE Analyze ------------------------------
(***************************************************************************)
(* Adapter.Analyze (adapters/lsp/adapter.go): the one-shot analysis that   *)
(* builds the cross-file dependency graph, language after language, with   *)
(* one language server each that may die, or write something that is not a *)
(* message, between any two requests.                                      *)
(*                                                                         *)
(* Abstracted: a symbol is a value of its own (a node id), a reference is  *)
(* the file it is in with the top-level symbol of that file around it, and *)
(* an edge is a pair. Paths are canonical. The loops over files and over a *)
(* file's symbols take any order. conn.call and waitForIdle are reduced to *)
(* what they return, if they do (LspConn has the details).                 *)
(***************************************************************************)
EXTENDS Naturals, FiniteSets

CONSTANTS
  Langs,            \* detected languages
  FilesOf,          \* FilesOf[l]: source files of l
  SymbolsOf,        \* SymbolsOf[f]: top-level symbols documentSymbol reports for f
  NoSymbol,         \* a reference outside any symbol
  ExcludedSymbols,  \* symbols matching an exclude_symbol pattern
  RefGraphs         \* the answers of textDocument/references to consider

Files   == UNION {FilesOf[l] : l \in Langs}
Symbols == UNION {SymbolsOf[f] : f \in Files}

Locations == {loc \in [file : Files, caller : Symbols \cup {NoSymbol}] :
                loc.caller \in SymbolsOf[loc.file] \cup {NoSymbol}}

ASSUME AnalyzeAssumption ==
  /\ NoSymbol \notin Symbols
  /\ \A l, m \in Langs : l # m => FilesOf[l] \cap FilesOf[m] = {}
  /\ \A f, g \in Files : f # g => SymbolsOf[f] \cap SymbolsOf[g] = {}
  /\ RefGraphs \subseteq [Symbols -> SUBSET Locations]

VARIABLES
  refs,       \* refs[s]: where s is referred to, according to the server
  pc,         \* control of Analyze and analyzeWithLSP
  left,       \* languages not analysed yet
  now,        \* the language being analysed
  file,       \* the file documentSymbol is asked about
  todo,       \* pass 1: files left; pass 2: symbols left
  server,     \* the current language's server: "mute" runs but broke the framing of
              \* its output, so that readLoop has returned
  cancelled,  \* ctx is cancelled
  openDocs,   \* documents the client has open at the server
  collected,  \* fileSymbols: the symbols of this language
  fileNodes,  \* gb's file nodes
  symNodes,   \* gb's symbol nodes
  defines,    \* gb's defines edges, file to symbol
  references, \* gb's references edges, caller to callee
  failures,   \* what has failed and was skipped: a call of a pass, or one made to
              \* a dead server
  result      \* what Analyze returned

serverVars == <<server, cancelled>>
graphVars  == <<fileNodes, symNodes, defines, references>>
loopVars   == <<left, now, file, todo, collected>>
vars == <<refs, pc, loopVars, serverVars, openDocs, graphVars, failures, result>>

TypeOK ==
  /\ refs \in [Symbols -> SUBSET Locations]
  /\ pc \in {"next", "initialize", "indexing", "pass1", "symbols", "pass2", "returned"}
  /\ left \in SUBSET Langs
  /\ pc \notin {"next", "returned"} => now \in Langs
  /\ pc = "symbols" => file \in Files
  /\ todo \in SUBSET (Files \cup Symbols)
  /\ server \in {"up", "mute", "down"}
  /\ cancelled \in BOOLEAN
  /\ openDocs \in SUBSET Files
  /\ collected \in SUBSET Symbols
  /\ fileNodes \in SUBSET Files
  /\ symNodes \in SUBSET Symbols
  /\ defines \in SUBSET (Files \X Symbols)
  /\ references \in SUBSET (Symbols \X Symbols)
  /\ failures \in SUBSET {"symbols", "references", "dead"}
  /\ result \in {"none", "error", "graph"}

Init ==
  /\ refs \in RefGraphs
  /\ pc = "next"
  /\ left = Langs
  /\ now = CHOOSE l \in Langs : TRUE
  /\ file = CHOOSE f \in Files : TRUE
  /\ todo = {}
  /\ server = "down"
  /\ cancelled = FALSE
  /\ openDocs = {}
  /\ collected = {}
  /\ fileNodes = {}
  /\ symNodes = {}
  /\ defines = {}
  /\ references = {}
  /\ failures = {}
  /\ result = "none"

-----------------------------------------------------------------------------
\* What conn.call may return: an answer, an error the server answered with,
\* "closed" (errConnClosed) when readLoop returns while the call waits or had before,
\* "send" (the failed write of the request) when the server was dead, or "ctx".
CallReturns(r) ==
  \/ r \in {"answer", "refused"} /\ server = "up" /\ server' = server
  \/ r = "closed" /\ server # "down" /\ server' \in {"mute", "down"}
  \/ r = "send" /\ server = "down" /\ server' = server
  \/ r = "ctx" /\ cancelled /\ server' = server

Outcomes == {"answer", "refused", "closed", "send", "ctx"}

\* analyzeWithLSP returns: the deferred didCloses and shutdownLSP run.
LeaveLang ==
  /\ openDocs' = {}
  /\ server' = "down"

\* Analyze returns an error, and no graph.
Fail ==
  /\ pc' = "returned"
  /\ result' = "error"
  /\ LeaveLang
  /\ UNCHANGED <<refs, loopVars, cancelled, graphVars, failures>>

\* Start a language's server, or fail to.
StartLang ==
  /\ pc = "next"
  /\ left # {}
  /\ \/ /\ now' \in left
        /\ left' = left \ {now'}
        /\ collected' = {}
        /\ pc' = "initialize"
        /\ server' = "up"
        /\ UNCHANGED <<refs, file, todo, cancelled, openDocs, graphVars, failures, result>>
     \/ Fail

\* The server answers initialize, and reads initialized. Any other end of the call is
\* an error.
Initialize ==
  /\ pc = "initialize"
  /\ \/ /\ server = "up"
        /\ pc' = "indexing"
        /\ UNCHANGED <<refs, loopVars, serverVars, openDocs, graphVars, failures, result>>
     \/ Fail

\* waitForIdle returns, whether or not the server is still there, and the files are
\* found. It may also poll on for ever: while a progress phase is open, which one whose
\* server has died stays.
Indexed ==
  /\ pc = "indexing"
  /\ \/ /\ todo' = FilesOf[now]
        /\ pc' = "pass1"
        /\ UNCHANGED <<refs, left, now, file, collected, serverVars, openDocs, graphVars,
                       failures, result>>
     \/ Fail

\* Pass 1, per file: add its node and open it, unless it cannot be read.
OpenFile(f) ==
  /\ pc = "pass1"
  /\ f \in todo
  /\ todo' = todo \ {f}
  /\ file' = f
  /\ fileNodes' = fileNodes \cup {f}
  /\ openDocs' \in {openDocs, openDocs \cup {f}}
  /\ pc' = "symbols"
  /\ UNCHANGED <<refs, left, now, collected, serverVars, symNodes, defines, references,
                 failures, result>>

\* Mutant: the document is closed only after an answer.
OpenUntilAnswer(r) == IF r = "answer" THEN openDocs \ {file} ELSE openDocs

StillOpen(r) == openDocs \ {file}

\* Ask for its symbols, close it whatever the answer, and add what was not
\* excluded. A failed call is skipped, unless the context was cancelled.
CollectSymbols(r) ==
  /\ pc = "symbols"
  /\ CallReturns(r)
  /\ r = "answer" \/ ~cancelled
  /\ openDocs' = StillOpen(r)
  /\ pc' = "pass1"
  /\ LET found == IF r = "answer" THEN SymbolsOf[file] \ ExcludedSymbols ELSE {}
     IN /\ collected' = collected \cup found
        /\ symNodes' = symNodes \cup found
        /\ defines' = defines \cup ({file} \X found)
  /\ failures' = failures \cup (IF r = "answer" THEN {} ELSE {"symbols"})
  /\ UNCHANGED <<refs, left, now, file, todo, cancelled, fileNodes, references, result>>

\* Pass 2 opens every readable file again, unless the server has no references.
OpenAll ==
  /\ pc = "pass1"
  /\ todo = {}
  /\ \/ /\ openDocs' \in SUBSET FilesOf[now]
        /\ todo' = collected
        /\ pc' = "pass2"
        /\ UNCHANGED <<server, failures>>
     \/ /\ pc' = "next"
        /\ LeaveLang
        /\ failures' = failures \cup {"references"}
        /\ UNCHANGED todo
  /\ UNCHANGED <<refs, left, now, file, collected, cancelled, graphVars, result>>

\* Mutants: top-level references are kept, references in the symbol's own file are
\* kept, only one reference is kept.
TopLevelToo(s) == {<<loc.caller, s>> : loc \in {loc \in refs[s] : s \notin SymbolsOf[loc.file]}}
SameFileToo(s) == {<<loc.caller, s>> : loc \in {loc \in refs[s] : loc.caller \in collected}}
AnyOneEdge(s)  == LET edges == SameFileToo(s)
                  IN IF edges = {} THEN {} ELSE {CHOOSE e \in edges : TRUE}

EdgesTo(s) ==
  {<<loc.caller, s>> : loc \in {loc \in refs[s] :
                         s \notin SymbolsOf[loc.file] /\ loc.caller \in collected}}

\* Pass 2, per symbol: an edge from every symbol of this language, in another
\* file, that contains a reference. errConnClosed is not skipped.
Resolve(s, r) ==
  /\ pc = "pass2"
  /\ s \in todo
  /\ CallReturns(r)
  /\ r = "answer" \/ (r # "closed" /\ ~cancelled)
  /\ todo' = todo \ {s}
  /\ references' = references \cup (IF r = "answer" THEN EdgesTo(s) ELSE {})
  /\ failures' = failures \cup (IF r = "answer" THEN {} ELSE {"references"})
                          \cup (IF r = "send" THEN {"dead"} ELSE {})
  /\ UNCHANGED <<refs, pc, left, now, file, collected, cancelled, openDocs, fileNodes,
                 symNodes, defines, result>>

\* A call that fails after the context was cancelled ends the analysis ...
AbortCancelled ==
  /\ pc = "symbols" \/ (pc = "pass2" /\ todo # {})
  /\ cancelled
  /\ Fail

\* ... and so does errConnClosed in pass 2: the server was alive when the call was made,
\* and readLoop returned before or while it waited.
AbortClosed ==
  /\ pc = "pass2"
  /\ todo # {}
  /\ server # "down"
  /\ Fail

LangDone ==
  /\ pc = "pass2"
  /\ todo = {}
  /\ pc' = "next"
  /\ LeaveLang
  /\ UNCHANGED <<refs, loopVars, cancelled, graphVars, failures, result>>

\* Mutant: only symbols that are referred to are kept.
Referred(edges) == {e[2] : e \in edges}

Referring(edges) == {e[1] : e \in edges} \cup {e[2] : e \in edges}

\* pruneSymbolsWithoutCrossFileRefs, and the result.
Prune ==
  /\ pc = "next"
  /\ left = {}
  /\ symNodes' = symNodes \cap Referring(references)
  /\ defines' = {e \in defines : e[2] \in Referring(references)}
  /\ pc' = "returned"
  /\ result' = "graph"
  /\ UNCHANGED <<refs, loopVars, serverVars, openDocs, fileNodes, references, failures>>

-----------------------------------------------------------------------------
\* Between two calls the server breaks the framing, or dies, or main's context is cancelled, which
\* kills it (exec.CommandContext).
ServerDies ==
  /\ server # "down"
  /\ server' = "down"
  /\ UNCHANGED <<refs, pc, loopVars, cancelled, openDocs, graphVars, failures, result>>

BreakFrame ==
  /\ server = "up"
  /\ server' = "mute"
  /\ UNCHANGED <<refs, pc, loopVars, cancelled, openDocs, graphVars, failures, result>>

Cancel ==
  /\ ~cancelled
  /\ pc # "returned"
  /\ cancelled' = TRUE
  /\ server' \in {server, "down"}
  /\ UNCHANGED <<refs, pc, loopVars, openDocs, graphVars, failures, result>>

Returned == pc = "returned" /\ UNCHANGED vars

Next ==
  \/ StartLang
  \/ Initialize
  \/ Indexed
  \/ \E f \in Files : OpenFile(f)
  \/ \E r \in Outcomes : CollectSymbols(r) \/ \E s \in Symbols : Resolve(s, r)
  \/ OpenAll
  \/ AbortCancelled
  \/ AbortClosed
  \/ LangDone
  \/ Prune
  \/ ServerDies
  \/ BreakFrame
  \/ Cancel
  \/ Returned

Spec == Init /\ [][Next]_vars

-----------------------------------------------------------------------------
\* A references edge there is to find: between two symbols of one language, in
\* different files, neither of them excluded.
TrueEdge(c, s) ==
  \E l \in Langs : \E f, g \in FilesOf[l] :
    /\ f # g
    /\ c \in SymbolsOf[f] \ ExcludedSymbols
    /\ s \in SymbolsOf[g] \ ExcludedSymbols
    /\ [file |-> f, caller |-> c] \in refs[s]

\* A reference edge is never invented, whatever fails: each one is a reference
\* from another file, within one language, between symbols that are kept.
EdgesAreReal == \A e \in references : TrueEdge(e[1], e[2])

\* The graph returned is closed and pruned: every edge joins nodes of the graph,
\* a symbol is there iff it has a cross-file reference, and has its defines edge.
GraphWellFormed ==
  result = "graph" =>
    /\ \A s \in Symbols : s \in symNodes <=> \E e \in references : s \in {e[1], e[2]}
    /\ defines = {e \in fileNodes \X symNodes : e[2] \in SymbolsOf[e[1]]}

\* When no call failed, the graph is the whole one, in whatever order the files
\* and the symbols were asked about, for all languages.
CompleteUnlessFailed ==
  result = "graph" /\ failures = {} =>
    /\ fileNodes = Files
    /\ \A c, s \in Symbols : TrueEdge(c, s) => <<c, s>> \in references

\* The first pass keeps at most one document open, also after failed calls (the
\* comment on didClose: the open set must not grow), and none stays open in the end.
OneDocumentOpen ==
  /\ pc \notin {"symbols", "pass2"} => openDocs = {}
  /\ pc = "symbols" => openDocs \subseteq {file}

-----------------------------------------------------------------------------
\* The comment in pass 2: a dead server is a hard error rather than a silently
\* degraded graph. Refuted: when the server dies between two calls, the next one
\* fails to send, which is not errConnClosed, and is skipped like all after it.
NoSilentDegradation == result = "graph" => "dead" \notin failures
=============================================================================
