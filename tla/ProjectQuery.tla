---------------------------- MODULE ProjectQuery ----------------------------
(***************************************************************************)
(* Queries of a project: the dispatch goroutine of mcp/server.go handles   *)
(* one request at a time, and runs Project.FindSymbols or                  *)
(* Project.FindReferences while launchSession goroutines and Shutdown (the *)
(* actions of Workspace) change the entries the query reads one by one.    *)
(* What a session answers is not modelled here: CallerChain models the     *)
(* walk of FindReferences.                                                 *)
(***************************************************************************)
EXTENDS Workspace

VARIABLE query  \* the dispatch goroutine's current or last query

vars == <<wsVars, query>>

\* todo: languages the current loop has still to visit; ready, failed: what
\* State has seen; sessions: what the query holds a session of; answered: the
\* languages whose session answered every call; warned: AppendWarning was called.
QueryType == [tool : {"find_symbols", "find_references"},
              project : Projects \cup {NoProject},
              phase : {"idle", "state", "collect", "lookup", "ask"},
              todo : SUBSET Langs, ready : SUBSET Langs, failed : BOOLEAN,
              sessions : SUBSET Langs, answered : SUBSET Langs,
              warned : BOOLEAN, reply : {"none", "error", "ok"}]

NewQuery(tool, p, ls) ==
  [tool |-> tool, project |-> p, phase |-> "state", todo |-> ls, ready |-> {},
   failed |-> FALSE, sessions |-> {}, answered |-> {}, warned |-> FALSE,
   reply |-> "none"]

QueryTypeOK == TypeOK /\ query \in QueryType

QInit ==
  /\ Init
  /\ query = [NewQuery("find_symbols", NoProject, {}) EXCEPT !.phase = "idle"]

Dispatching == ProcessAlive /\ stdinOpen

\* Mutant: the answered query is not over.
NeverIdle(r) == [query EXCEPT !.phase = "replied", !.reply = r]

Answer(r) == [query EXCEPT !.phase = "idle", !.reply = r]

-----------------------------------------------------------------------------
\* handleFindSymbols, handleFindReferences: lookupProject, then ensureReady,
\* whose State takes a snapshot of the entries. An unknown root is refused.
StartQuery(tool, r) ==
  /\ Dispatching
  /\ query.phase = "idle"
  /\ projects[r] # NoProject
  /\ query' = NewQuery(tool, projects[r], langsOf[projects[r]])
  /\ UNCHANGED wsVars

\* One iteration of the loop of State: the entry is read under its own lock.
ReadState(l) ==
  /\ Dispatching
  /\ query.phase = "state"
  /\ l \in query.todo
  /\ LET e == entry[query.project][l]
     IN query' = [query EXCEPT
                    !.todo = @ \ {l},
                    !.ready = IF e.state = "ready" THEN @ \cup {l} ELSE @,
                    !.failed = @ \/ (e.state = "failed" /\ e.err # "none")]
  /\ UNCHANGED wsVars

\* Mutant: one language is enough.
SomeReady == query.ready # {}

AllReady == query.ready = langsOf[query.project]

\* Mutant: ensureReady looks again until the project is ready.
WaitUntilReady ==
  /\ Dispatching
  /\ query.phase = "state"
  /\ query.todo = {}
  /\ query.failed \/ ~AllReady
  /\ query' = NewQuery(query.tool, query.project, langsOf[query.project])
  /\ UNCHANGED wsVars

\* ensureReady refuses with the failure, or with "retry shortly".
RefuseNotReady ==
  /\ Dispatching
  /\ query.phase = "state"
  /\ query.todo = {}
  /\ query.failed \/ ~AllReady
  /\ query' = Answer("error")
  /\ UNCHANGED wsVars

PassReady ==
  /\ Dispatching
  /\ query.phase = "state"
  /\ query.todo = {}
  /\ ~query.failed
  /\ AllReady
  /\ query' = IF query.tool = "find_symbols"
                THEN [query EXCEPT !.phase = "collect", !.todo = langsOf[query.project]]
                ELSE [query EXCEPT !.phase = "lookup"]
  /\ UNCHANGED wsVars

\* Mutant: the state of the entry is not looked at.
LangDetected(l) == l \in langsOf[query.project]

LangReady(l) == l \in langsOf[query.project] /\ entry[query.project][l].state = "ready"

\* FindSymbols: one iteration of readySessions.
CollectSession(l) ==
  /\ Dispatching
  /\ query.phase = "collect"
  /\ l \in query.todo
  /\ query' = [query EXCEPT
                 !.todo = @ \ {l},
                 !.sessions = IF LangReady(l) /\ entry[query.project][l].session
                                THEN @ \cup {l} ELSE @]
  /\ UNCHANGED wsVars

StartAsking ==
  /\ Dispatching
  /\ query.phase = "collect"
  /\ query.todo = {}
  /\ query' = [query EXCEPT !.phase = "ask", !.todo = query.sessions]
  /\ UNCHANGED wsVars

\* FindReferences: readySession(target.Lang), which returns entry.session
\* unchecked, be it nil. target.Lang comes from the symbol id: any language.
LookupSession(l) ==
  /\ Dispatching
  /\ query.phase = "lookup"
  /\ query' = IF LangReady(l)
                THEN [query EXCEPT !.phase = "ask", !.todo = {l},
                                   !.sessions = IF entry[query.project][l].session THEN {l} ELSE {}]
                ELSE Answer("error")
  /\ UNCHANGED wsVars

\* Mutant: the failed call leaves no warning.
CallFailsSilently(l) == [query EXCEPT !.todo = @ \ {l}]

CallFails(l) == [query EXCEPT !.todo = @ \ {l}, !.warned = TRUE]

\* The calls the query makes on one session, under a context without a deadline. A
\* running server may answer them, or fail one, which is a warning; or keep the query
\* waiting for as long as it likes.
SessionAnswers(l) ==
  /\ Dispatching
  /\ query.phase = "ask"
  /\ l \in query.todo
  /\ sess[query.project][l] = "live"
  /\ \/ query' = [query EXCEPT !.todo = @ \ {l}, !.answered = @ \cup {l}]
     \/ query' = CallFails(l)
  /\ UNCHANGED wsVars

\* A session that was shut down fails every call, also one that was waiting.
SessionGone(l) ==
  /\ Dispatching
  /\ query.phase = "ask"
  /\ l \in query.todo
  /\ sess[query.project][l] # "live"
  /\ query' = CallFails(l)
  /\ UNCHANGED wsVars

Reply ==
  /\ Dispatching
  /\ query.phase = "ask"
  /\ query.todo = {}
  /\ query' = Answer("ok")
  /\ UNCHANGED wsVars

\* What the dispatch goroutine does without waiting for a server.
QueryStep ==
  \/ \E l \in Langs : ReadState(l) \/ CollectSession(l) \/ LookupSession(l) \/ SessionGone(l)
  \/ RefuseNotReady
  \/ PassReady
  \/ StartAsking
  \/ Reply

\* One dispatch goroutine: it adds a project, or notices the end of stdin, only
\* between two queries.
DispatchWorkspace ==
  /\ query.phase = "idle"
  /\ \/ \E r \in Roots, p \in Projects, ls \in SUBSET Langs : AddProject(r, p, ls)
     \/ StdinEOF
  /\ UNCHANGED query

BackgroundStep ==
  /\ \/ \E p \in Projects, l \in Langs : LaunchStep(p, l)
     \/ CancelParent
     \/ ShutdownStep
     \/ \E p \in Projects : ProjectShutdownStep(p)
     \/ Exited
  /\ UNCHANGED query

QNext ==
  \/ \E tool \in {"find_symbols", "find_references"}, r \in Roots : StartQuery(tool, r)
  \/ QueryStep
  \/ \E l \in Langs : SessionAnswers(l)
  \/ DispatchWorkspace
  \/ BackgroundStep

QSpec == QInit /\ [][QNext]_vars

\* A running server need not answer.
FairQSpec == QSpec /\ Fairness /\ WF_vars(QueryStep)

-----------------------------------------------------------------------------
\* The query never calls a method of a nil session: whatever Shutdown did between
\* ensureReady and readySession, a language it asks has a session that was opened.
AsksRealSessions ==
  query.phase = "ask" =>
    /\ query.todo \subseteq query.sessions
    /\ \A l \in query.sessions : sess[query.project][l] # "none"

\* A query is answered only after indexing: although State reads the entries one
\* by one, no language of the project is Indexing when a result is returned.
AnswersAfterIndexing ==
  query.reply = "ok" => \A l \in langsOf[query.project] :
                          entry[query.project][l].state # "indexing"

\* While nothing shuts the workspace down, a find_symbols result without
\* warnings has the answers of every language of the project. (During Shutdown it
\* may not: readySessions looks at the entries again after ensureReady, and leaves
\* out, without a warning, the sessions that were detached in between.)
CleanReplyIsComplete ==
  query.reply = "ok" /\ query.tool = "find_symbols" /\ ~query.warned /\ ~cancelled
    => query.answered = langsOf[query.project]

\* The query has asked a server that is running.
AwaitsServer == query.phase = "ask" /\ \E l \in query.todo : sess[query.project][l] = "live"

\* Nothing but a running server that never answers keeps the dispatch loop in a query:
\* not the entries of a project that is never ready, and not a session that Shutdown
\* takes away while it is being asked.
QueriesReturn ==
  ~<>[]AwaitsServer =>
    (query.phase # "idle" ~> query.phase = "idle" \/ wsPc = "returned")
=============================================================================
