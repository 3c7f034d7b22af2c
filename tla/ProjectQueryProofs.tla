------------------------- MODULE ProjectQueryProofs -------------------------
(***************************************************************************)
(* Proofs about ProjectQuery, for every set of roots, projects and         *)
(* languages: a query, whose loops read one entry at a time while launches *)
(* and Shutdown write them, is safe and does not miss a language.          *)
(***************************************************************************)
EXTENDS ProjectQuery, WorkspaceProofs

Asking == query.phase \in {"state", "collect", "lookup", "ask"}

\* The project of a query is one that AddProject has allocated.
QueryHasProject ==
  Asking \/ query.reply = "ok" => query.project \in Projects /\ Allocated(query.project)

\* What the query has found ready is not Indexing again; past ensureReady that is
\* every language of the project.
SeenIsIndexed ==
  /\ query.phase = "state" =>
       /\ query.todo \subseteq langsOf[query.project]
       /\ query.ready \subseteq langsOf[query.project]
       /\ \A l \in query.ready : entry[query.project][l].state # "indexing"
  /\ query.phase \in {"collect", "lookup", "ask"} \/ query.reply = "ok" =>
       \A l \in langsOf[query.project] : entry[query.project][l].state # "indexing"

\* The sessions in hand have been opened, and only they are asked.
SessionsExist ==
  /\ query.phase \in {"collect", "ask"} =>
       \A l \in query.sessions : sess[query.project][l] # "none"
  /\ query.phase = "state" => query.sessions = {}
  /\ query.phase = "ask" => query.todo \subseteq query.sessions

\* FindReferences looks its session up, FindSymbols collects sessions; a reply is
\* there only between queries.
LookupIsReferences ==
  /\ query.phase = "lookup" => query.tool = "find_references"
  /\ query.phase # "idle" => query.reply = "none"

\* Without a cancellation, what was ready still is, so the second look at the
\* entries finds every session, and each is asked.
NoneLeftOut ==
  ~cancelled /\ query.tool = "find_symbols" /\ ~query.warned =>
    LET ls == langsOf[query.project]
        Ready(l) == entry[query.project][l].state = "ready"
    IN /\ query.phase = "state" => (\A l \in query.ready : Ready(l)) /\ query.answered = {}
       /\ query.phase = "collect" =>
            /\ \A l \in ls : Ready(l)
            /\ ls = query.todo \cup query.sessions
            /\ query.answered = {}
       /\ query.phase = "ask" => ls = query.todo \cup query.answered
       /\ query.phase = "idle" /\ query.reply = "ok" => ls = query.answered

QInv ==
  /\ query \in QueryType
  /\ QueryHasProject
  /\ SeenIsIndexed
  /\ SessionsExist
  /\ LookupIsReferences
  /\ NoneLeftOut

-----------------------------------------------------------------------------
\* A query changes nothing the workspace keeps: every step of ProjectQuery is one of
\* Workspace, or leaves it alone.
LEMMA StepsOfWorkspace == [QNext]_vars => [Next]_wsVars
BY DEF QNext, StartQuery, QueryStep, ReadState, CollectSession, LookupSession, SessionAnswers,
   SessionGone, RefuseNotReady, PassReady, StartAsking, Reply, DispatchWorkspace, BackgroundStep, Next,
   vars

\* A workspace with queries is a workspace: its theorems hold here as well.
THEOREM QueriesImplementWorkspace == QSpec => Spec
BY StepsOfWorkspace, PTL DEF QSpec, QInit, Spec

\* What a query has read of an allocated project is never taken back, until the
\* cancellation: languages, existing sessions, entries with an outcome.
LEMMA WorkspaceFacts ==
  ASSUME IInv, [Next]_wsVars, NEW p \in Projects, Allocated(p)
  PROVE  /\ Allocated(p)' /\ langsOf'[p] = langsOf[p]
         /\ \A l \in Langs :
              /\ sess[p][l] # "none" => sess'[p][l] # "none"
              /\ entry[p][l].state # "indexing" => entry'[p][l].state # "indexing"
              /\ ~cancelled' /\ entry[p][l].state # "indexing" => entry'[p][l] = entry[p][l]
<1> USE DEF serveVars, projectVars, launchVars, downVars
<1>1. /\ Allocated(p)' /\ langsOf'[p] = langsOf[p]
      /\ cancelled => cancelled'
      /\ \A l \in Langs : sess[p][l] # "none" => sess'[p][l] # "none"
      /\ \A l \in Langs : entry[p][l].state # "indexing" => entry'[p][l].state # "indexing"
  <2> USE DEF IInv, TypeOK, Allocated
  <2>1. ASSUME NEW r \in Roots, NEW q \in Projects, NEW ls \in SUBSET Langs,
               AddProject(r, q, ls)
        PROVE  <1>1!:
    BY <2>1 DEF AddProject
  <2>2. ASSUME NEW q \in Projects, NEW k \in Langs, LaunchStep(q, k)
        PROVE  <1>1!:
    <3>1. CASE Subscribe(q, k) \/ OpenFails(q, k) \/ CheckParent(q, k)
      BY <3>1 DEF Subscribe, OpenFails, CheckParent
    <3>2. CASE OpenSucceeds(q, k)
      BY <3>2 DEF OpenSucceeds
    <3>3. CASE AbortSession(q, k)
      BY <3>3 DEF AbortSession
    <3>4. CASE MarkFailed(q, k)
      BY <3>4 DEF MarkFailed, FailedEntry
    <3>5. CASE MarkReady(q, k)
      BY <3>5 DEF MarkReady, ReadyEntry
    <3> QED
      BY <2>2, <3>1, <3>2, <3>3, <3>4, <3>5 DEF LaunchStep
  <2>3. ASSUME NEW q \in Projects, ProjectShutdownStep(q)
        PROVE  <1>1!:
    <3>1. CASE StopWatcher(q) \/ ProjectDown(q)
      BY <3>1 DEF StopWatcher, ProjectDown
    <3>2. ASSUME NEW k \in Langs, Detach(q, k)
          PROVE  <1>1!:
      BY <3>2 DEF Detach, ShutdownEntry
    <3>3. ASSUME NEW k \in Langs, CloseSession(q, k)
          PROVE  <1>1!:
      BY <3>3 DEF CloseSession
    <3> QED
      BY <2>3, <3>1, <3>2, <3>3 DEF ProjectShutdownStep
  <2>4. CASE CancelParent \/ StdinEOF \/ ShutdownStep \/ Exited \/ UNCHANGED wsVars
    BY <2>4 DEF CancelParent, StdinEOF, ShutdownStep, ServeReturns, ShutdownCancel,
       ShutdownTake, ShutdownReturns, Exited, wsVars
  <2> QED
    BY <2>1, <2>2, <2>3, <2>4 DEF Next
<1>2. ASSUME NEW l \in Langs, ~cancelled', entry[p][l].state # "indexing"
      PROVE  entry'[p][l] = entry[p][l]
  BY <1>1, <1>2, OutcomeStays
<1> QED
  BY <1>1, <1>2

\* The steps of launches and of Shutdown keep what the query relies on.
LEMMA WorkspaceKeeps ==
  ASSUME IInv, QInv, [Next]_wsVars, UNCHANGED query
  PROVE  QInv'
<1> DEFINE p == query.project
<1>1. Asking \/ query.reply = "ok" =>
        /\ p \in Projects /\ Allocated(p) /\ Allocated(p)' /\ langsOf'[p] = langsOf[p]
        /\ \A l \in Langs :
             /\ sess[p][l] # "none" => sess'[p][l] # "none"
             /\ entry[p][l].state # "indexing" => entry'[p][l].state # "indexing"
             /\ ~cancelled' /\ entry[p][l].state # "indexing" => entry'[p][l] = entry[p][l]
  BY WorkspaceFacts DEF QInv, QueryHasProject
<1>2. cancelled => cancelled'
  BY ZenonT(30) DEF Next, AddProject, LaunchStep, Subscribe, OpenFails, OpenSucceeds, MarkFailed,
     CheckParent, AbortSession, MarkReady, CancelParent, StdinEOF, ShutdownStep,
     ServeReturns, ShutdownCancel, ShutdownTake, ShutdownReturns, ProjectShutdownStep,
     StopWatcher, Detach, CloseSession, ProjectDown, Exited, wsVars, serveVars
<1>3. /\ query \in QueryType /\ query' \in QueryType
      /\ query.ready \subseteq Langs /\ query.sessions \subseteq Langs
      /\ Asking \/ query.reply = "ok" => langsOf[p] \subseteq Langs
  BY <1>1 DEF QInv, QueryType, IInv, TypeOK
<1> HIDE DEF p
<1>4. QueryHasProject'
  BY <1>1 DEF QueryHasProject, Asking, p
<1>5. SeenIsIndexed'
  BY <1>1, <1>3 DEF QInv, SeenIsIndexed, Asking, p
<1>6. SessionsExist'
  BY <1>1, <1>3 DEF QInv, SessionsExist, Asking, p
<1>7. NoneLeftOut'
  BY <1>1, <1>2, <1>3 DEF QInv, NoneLeftOut, SeenIsIndexed, Asking, p
<1>8. LookupIsReferences'
  BY DEF QInv, LookupIsReferences
<1> QED
  BY <1>3, <1>4, <1>5, <1>6, <1>7, <1>8 DEF QInv

\* The steps of the query itself. What it reads of an entry is what the entry says
\* at that moment.
LEMMA QueryKeeps ==
  ASSUME IInv, QInv, QueryStep \/ \E l \in Langs : SessionAnswers(l)
  PROVE  QInv'
<1> USE DEF QInv
<1>1. /\ UNCHANGED wsVars /\ query.phase # "idle" /\ query \in QueryType
      /\ query.project \in Projects /\ Allocated(query.project)
      /\ langsOf[query.project] \subseteq Langs
  BY DEF QueryStep, ReadState, CollectSession, LookupSession, SessionAnswers, SessionGone,
     RefuseNotReady, PassReady, StartAsking, Reply, QueryHasProject, Asking, QueryType, IInv, TypeOK
<1>2. \A l \in Langs : LangReady(l) => /\ l \in langsOf[query.project]
                                        /\ entry[query.project][l].state = "ready"
                                        /\ entry[query.project][l].session
                                        /\ sess[query.project][l] = "live"
  BY <1>1 DEF LangReady, IInv, EntryConsistent, SingleOwner, HeldByEntry
<1>3. ASSUME NEW l \in Langs, ReadState(l)
      PROVE  QInv'
  <2>1. /\ query' \in QueryType
        /\ query.phase = "state" /\ query'.phase = "state" /\ l \in query.todo
        /\ query'.todo = query.todo \ {l}
        /\ \/ query'.ready = query.ready
           \/ /\ query'.ready = query.ready \cup {l}
              /\ entry[query.project][l].state = "ready"
        /\ query'.tool = query.tool /\ query'.project = query.project
        /\ query'.answered = query.answered /\ query'.reply = query.reply
        /\ query'.warned = query.warned /\ query'.sessions = query.sessions
    BY <1>1, <1>3 DEF ReadState, QueryType
  <2>2. QueryHasProject' /\ SessionsExist'
    BY <1>1, <2>1 DEF QueryHasProject, SessionsExist, Asking, Allocated, wsVars
  <2>3. SeenIsIndexed'
    BY <1>1, <2>1 DEF SeenIsIndexed, wsVars
  <2>4. NoneLeftOut'
    BY <1>1, <2>1 DEF NoneLeftOut, wsVars
  <2> QED
    BY <2>1, <2>2, <2>3, <2>4 DEF LookupIsReferences
<1>4. ASSUME RefuseNotReady
      PROVE  QInv'
  <2>1. /\ query' \in QueryType /\ query'.phase = "idle" /\ query'.reply = "error"
    BY <1>1, <1>4 DEF RefuseNotReady, Answer, QueryType
  <2> QED
    BY <2>1 DEF QueryHasProject, SeenIsIndexed, SessionsExist, NoneLeftOut, Asking,
       LookupIsReferences
<1>5. ASSUME PassReady
      PROVE  QInv'
  <2>1. /\ query' \in QueryType
        /\ query.phase = "state" /\ query.ready = langsOf[query.project]
        /\ \/ query'.phase = "lookup"
              /\ query.tool = "find_references"
           \/ query'.phase = "collect" /\ query'.todo = langsOf[query.project]
        /\ query'.sessions = query.sessions
        /\ query'.tool = query.tool /\ query'.project = query.project
        /\ query'.answered = query.answered /\ query'.reply = query.reply
        /\ query'.warned = query.warned
    BY <1>1, <1>5 DEF PassReady, AllReady, QueryType
  <2>2. query.sessions = {}
    BY <2>1 DEF SessionsExist
  <2>3. QueryHasProject' /\ SessionsExist'
    BY <1>1, <2>1, <2>2 DEF QueryHasProject, SessionsExist, Asking, Allocated, wsVars
  <2>4. SeenIsIndexed'
    BY <1>1, <2>1 DEF SeenIsIndexed, wsVars
  <2>5. NoneLeftOut'
    BY <1>1, <2>1, <2>2 DEF NoneLeftOut, wsVars
  <2> QED
    BY <2>1, <2>3, <2>4, <2>5 DEF LookupIsReferences
<1>6. ASSUME NEW l \in Langs, CollectSession(l)
      PROVE  QInv'
  <2>1. /\ query' \in QueryType
        /\ query.phase = "collect" /\ query'.phase = "collect"
        /\ query'.todo = query.todo \ {l}
        /\ query'.sessions = IF LangReady(l) /\ entry[query.project][l].session
                               THEN query.sessions \cup {l} ELSE query.sessions
        /\ query'.tool = query.tool /\ query'.project = query.project
        /\ query'.answered = query.answered /\ query'.reply = query.reply
        /\ query'.warned = query.warned
    BY <1>1, <1>6 DEF CollectSession, QueryType
  <2>2. QueryHasProject' /\ SeenIsIndexed'
    BY <1>1, <2>1 DEF QueryHasProject, SeenIsIndexed, Asking, Allocated, wsVars
  <2>3. SessionsExist'
    BY <1>1, <1>2, <2>1 DEF SessionsExist, wsVars
  <2>4. NoneLeftOut'
    <3> SUFFICES ASSUME ~cancelled', query'.tool = "find_symbols", ~query'.warned
                 PROVE  /\ \A k \in langsOf[query.project] :
                             entry[query.project][k].state = "ready"
                        /\ langsOf[query.project] = query'.todo \cup query'.sessions
                        /\ query'.answered = {}
      BY <1>1, <2>1 DEF NoneLeftOut, wsVars
    <3>1. /\ \A k \in langsOf[query.project] : entry[query.project][k].state = "ready"
          /\ langsOf[query.project] = query.todo \cup query.sessions
          /\ query.answered = {}
      BY <1>1, <2>1 DEF NoneLeftOut, wsVars
    <3>2. l \in query.todo /\ l \in langsOf[query.project]
      BY <1>6, <3>1 DEF CollectSession
    <3>3. LangReady(l)
      BY <3>1, <3>2 DEF LangReady
    <3>4. query'.sessions = query.sessions \cup {l}
      BY <1>2, <2>1, <3>3
    <3> QED
      BY <2>1, <3>1, <3>2, <3>4
  <2> QED
    BY <2>1, <2>2, <2>3, <2>4 DEF LookupIsReferences
<1>7. ASSUME StartAsking
      PROVE  QInv'
  <2>1. /\ query' \in QueryType
        /\ query.phase = "collect" /\ query'.phase = "ask" /\ query.todo = {}
        /\ query'.todo = query.sessions /\ query'.sessions = query.sessions
        /\ query'.tool = query.tool /\ query'.project = query.project
        /\ query'.answered = query.answered /\ query'.reply = query.reply
        /\ query'.warned = query.warned
    BY <1>1, <1>7 DEF StartAsking, QueryType
  <2>2. QueryHasProject' /\ SeenIsIndexed'
    BY <1>1, <2>1 DEF QueryHasProject, SeenIsIndexed, Asking, Allocated, wsVars
  <2>3. SessionsExist' /\ NoneLeftOut'
    BY <1>1, <2>1 DEF SessionsExist, NoneLeftOut, wsVars
  <2> QED
    BY <2>1, <2>2, <2>3 DEF LookupIsReferences
<1>8. ASSUME NEW l \in Langs, LookupSession(l)
      PROVE  QInv'
  <2>1. CASE LangReady(l)
    <3>1. /\ query' \in QueryType
          /\ query.phase = "lookup" /\ query'.phase = "ask"
          /\ query'.todo = {l} /\ query'.sessions = {l}
          /\ query'.tool = query.tool /\ query'.project = query.project
          /\ query'.reply = query.reply
      BY <1>1, <1>2, <1>8, <2>1 DEF LookupSession, QueryType
    <3>2. QueryHasProject' /\ SeenIsIndexed'
      BY <1>1, <3>1 DEF QueryHasProject, SeenIsIndexed, Asking, Allocated, wsVars
    <3>3. SessionsExist'
      BY <1>1, <1>2, <2>1, <3>1 DEF SessionsExist, wsVars
    <3>4. query.tool = "find_references"
      BY <3>1 DEF LookupIsReferences
    <3> QED
      BY <3>1, <3>2, <3>3, <3>4 DEF NoneLeftOut, LookupIsReferences
  <2>2. CASE ~LangReady(l)
    <3>1. query' \in QueryType /\ query'.phase = "idle" /\ query'.reply = "error"
      BY <1>1, <1>8, <2>2 DEF LookupSession, Answer, QueryType
    <3> QED
      BY <3>1 DEF QueryHasProject, SeenIsIndexed, SessionsExist, NoneLeftOut,
         LookupIsReferences, Asking
  <2> QED
    BY <2>1, <2>2
<1>9. ASSUME NEW l \in Langs, SessionAnswers(l) \/ SessionGone(l)
      PROVE  QInv'
  <2>1. /\ query' \in QueryType
        /\ query.phase = "ask" /\ query'.phase = "ask" /\ l \in query.todo
        /\ query'.todo = query.todo \ {l} /\ query'.sessions = query.sessions
        /\ query'.tool = query.tool /\ query'.project = query.project
        /\ query'.reply = query.reply
        /\ \/ query'.answered = query.answered \cup {l} /\ query'.warned = query.warned
           \/ query'.warned
    <3> DEFINE mid == [query EXCEPT !.todo = @ \ {l}]
    <3>1. query.phase = "ask" /\ l \in query.todo
      BY <1>9 DEF SessionAnswers, SessionGone
    <3>2. query' = [mid EXCEPT !.answered = @ \cup {l}] \/ query' = [mid EXCEPT !.warned = TRUE]
      BY <1>1, <1>9 DEF SessionAnswers, SessionGone, CallFails, QueryType
    <3>3. /\ mid \in QueryType
          /\ mid.phase = "ask" /\ mid.todo = query.todo \ {l} /\ mid.sessions = query.sessions
          /\ mid.tool = query.tool /\ mid.project = query.project
          /\ mid.answered = query.answered /\ mid.reply = query.reply
          /\ mid.warned = query.warned
      BY <1>1, <3>1 DEF QueryType
    <3> HIDE DEF mid
    <3>4. CASE query' = [mid EXCEPT !.answered = @ \cup {l}]
      BY <3>1, <3>3, <3>4 DEF QueryType
    <3>5. CASE query' = [mid EXCEPT !.warned = TRUE]
      BY <3>1, <3>3, <3>5 DEF QueryType
    <3> QED
      BY <3>2, <3>4, <3>5
  <2>2. QueryHasProject' /\ SeenIsIndexed'
    BY <1>1, <2>1 DEF QueryHasProject, SeenIsIndexed, Asking, Allocated, wsVars
  <2>3. SessionsExist'
    BY <1>1, <2>1 DEF SessionsExist, wsVars
  <2>4. NoneLeftOut'
    BY <1>1, <2>1 DEF NoneLeftOut, wsVars
  <2> QED
    BY <2>1, <2>2, <2>3, <2>4 DEF LookupIsReferences
<1>10. ASSUME Reply
       PROVE  QInv'
  <2>1. /\ query' \in QueryType
        /\ query.phase = "ask" /\ query'.phase = "idle" /\ query.todo = {}
        /\ query'.reply = "ok"
        /\ query'.tool = query.tool /\ query'.project = query.project
        /\ query'.answered = query.answered /\ query'.warned = query.warned
    BY <1>1, <1>10 DEF Reply, Answer, QueryType
  <2>2. QueryHasProject' /\ SeenIsIndexed'
    BY <1>1, <2>1 DEF QueryHasProject, SeenIsIndexed, Asking, Allocated, wsVars
  <2>3. SessionsExist' /\ NoneLeftOut'
    BY <1>1, <2>1 DEF SessionsExist, NoneLeftOut, wsVars
  <2> QED
    BY <2>1, <2>2, <2>3 DEF LookupIsReferences
<1> QED
  BY <1>3, <1>4, <1>5, <1>6, <1>7, <1>8, <1>9, <1>10 DEF QueryStep

LEMMA StartKeeps ==
  ASSUME IInv, QInv, NEW tool \in {"find_symbols", "find_references"}, NEW r \in Roots,
         StartQuery(tool, r)
  PROVE  QInv'
<1> DEFINE p == projects[r]
<1>1. p \in Projects /\ Allocated(p) /\ langsOf[p] \in SUBSET Langs
  BY NoRootAssumption DEF StartQuery, IInv, TypeOK, RegisteredIsUp, Allocated
<1>2. query' = NewQuery(tool, p, langsOf[p]) /\ UNCHANGED wsVars
  BY DEF StartQuery
<1> HIDE DEF p
<1>3. query' \in QueryType
  BY <1>1, <1>2 DEF NewQuery, QueryType
<1>4. QueryHasProject' /\ SeenIsIndexed' /\ SessionsExist' /\ NoneLeftOut'
  BY <1>1, <1>2 DEF NewQuery, QueryHasProject, SeenIsIndexed, SessionsExist, NoneLeftOut,
     Allocated, wsVars
<1> QED
  BY <1>2, <1>3, <1>4 DEF QInv, LookupIsReferences, NewQuery

LEMMA QueryInvariance == QSpec => []QInv
<1>1. QInit => QInv
  <2> SUFFICES ASSUME QInit
               PROVE  QInv
    OBVIOUS
  <2>1. query = [NewQuery("find_symbols", NoProject, {}) EXCEPT !.phase = "idle"]
    BY DEF QInit
  <2>2. query \in QueryType /\ query.phase = "idle" /\ query.reply = "none"
    BY <2>1 DEF NewQuery, QueryType
  <2> QED
    BY <2>2 DEF QInv, QueryHasProject, SeenIsIndexed, SessionsExist, NoneLeftOut, Asking,
       LookupIsReferences
<1>2. IInv /\ QInv /\ [QNext]_vars => QInv'
  <2> SUFFICES ASSUME IInv, QInv, [QNext]_vars
               PROVE  QInv'
    OBVIOUS
  <2>1. CASE QueryStep \/ \E l \in Langs : SessionAnswers(l)
    BY <2>1, QueryKeeps
  <2>2. ASSUME NEW tool \in {"find_symbols", "find_references"}, NEW r \in Roots,
               StartQuery(tool, r)
        PROVE  QInv'
    BY <2>2, StartKeeps
  <2>3. CASE UNCHANGED query
    BY <2>3, StepsOfWorkspace, WorkspaceKeeps
  <2> QED
    BY <2>1, <2>2, <2>3 DEF QNext, DispatchWorkspace, BackgroundStep, vars
<1>3. QSpec => []IInv
  BY QueriesImplementWorkspace, Invariance, PTL
<1> QED
  BY <1>1, <1>2, <1>3, PTL DEF QSpec

-----------------------------------------------------------------------------
\* The workspace and its query are type correct.
THEOREM QueryTypeCorrect == QSpec => []QueryTypeOK
<1>1. IInv /\ QInv => QueryTypeOK
  BY DEF IInv, QInv, QueryTypeOK
<1>2. QSpec => []IInv
  BY QueriesImplementWorkspace, Invariance, PTL
<1> QED
  BY <1>1, <1>2, QueryInvariance, PTL

\* No query calls a method of a nil session, whatever Shutdown takes away between
\* ensureReady and readySession.
THEOREM AsksRealSessionsHolds == QSpec => []AsksRealSessions
<1>1. QInv => AsksRealSessions
  BY DEF QInv, SessionsExist, AsksRealSessions
<1> QED
  BY <1>1, QueryInvariance, PTL

\* No query is answered before every language of its project has been indexed, for
\* any number of languages and although their entries are read one by one.
THEOREM AnswersAfterIndexingHolds == QSpec => []AnswersAfterIndexing
<1>1. QInv => AnswersAfterIndexing
  BY DEF QInv, SeenIsIndexed, AnswersAfterIndexing
<1> QED
  BY <1>1, QueryInvariance, PTL

\* A find_symbols reply without a warning has the answers of every language, unless
\* the workspace is being shut down.
THEOREM CleanReplyIsCompleteHolds == QSpec => []CleanReplyIsComplete
<1>1. QInv => CleanReplyIsComplete
  BY DEF QInv, QueryType, LookupIsReferences, NoneLeftOut, CleanReplyIsComplete
<1> QED
  BY <1>1, QueryInvariance, PTL

-----------------------------------------------------------------------------
(* What QueriesReturn needs besides fairness: only a running server holds the     *)
(* dispatch goroutine in a query, and the steps of a query run out.               *)

\* Stdin is not found closed in the middle of a query, and a project that is queried
\* has a language.
QueryIsServed ==
  /\ query.phase # "idle" => stdinOpen
  /\ \A p \in Projects : Allocated(p) => langsOf[p] # {}

\* The guards of QueryStep: a loop has a next language or is over, some language can be
\* named in a symbol id, and what is asked has been shut down or has answered.
QueryCanMove ==
  /\ Dispatching
  /\ \/ query.phase \in {"state", "collect"}
        /\ (query.todo \cap Langs # {} \/ query.todo = {})
     \/ query.phase = "lookup" /\ Langs # {}
     \/ query.phase = "ask"
        /\ \/ \E l \in query.todo \cap Langs : sess[query.project][l] # "live"
           \/ query.todo = {}

QueryNotStuck ==
  query.phase # "idle" => wsPc = "returned" \/ QueryCanMove \/ AwaitsServer

PhasesLeft(phase) ==
  CASE phase = "state" -> 3 [] phase \in {"collect", "lookup"} -> 2 [] phase = "ask" -> 1
    [] OTHER -> 0

\* A step of a query and an answer end a phase or a turn of its loop; nothing else
\* moves it.
QueryComesCloser ==
  /\ QueryStep \/ (\E l \in Langs : SessionAnswers(l)) =>
       \/ PhasesLeft(query'.phase) < PhasesLeft(query.phase)
       \/ /\ query'.phase = query.phase
          /\ \E l \in query.todo : query'.todo = query.todo \ {l}
  /\ query.phase # "idle" /\ ~QueryStep /\ (\A l \in Langs : ~SessionAnswers(l))
       => UNCHANGED query

LEMMA QueryIsServedStep == IInv /\ QInv /\ QueryIsServed /\ [QNext]_vars => QueryIsServed'
<1> SUFFICES ASSUME IInv, QInv, QueryIsServed, [QNext]_vars
             PROVE  QueryIsServed'
  OBVIOUS
<1>1. query'.phase # "idle" => stdinOpen'
  <2>1. CASE QueryStep \/ (\E l \in Langs : SessionAnswers(l)) \/ UNCHANGED vars
    BY <2>1 DEF QueryIsServed, QueryStep, ReadState, CollectSession, LookupSession, SessionAnswers,
       SessionGone, RefuseNotReady, PassReady, StartAsking, Reply, Dispatching, vars, wsVars
  <2>2. ASSUME NEW tool \in {"find_symbols", "find_references"}, NEW r \in Roots,
               StartQuery(tool, r)
        PROVE  stdinOpen'
    BY <2>2 DEF StartQuery, Dispatching, wsVars
  <2>3. CASE DispatchWorkspace
    BY <2>3 DEF DispatchWorkspace
  <2>4. CASE BackgroundStep
    <3>1. UNCHANGED <<query, stdinOpen>>
      BY <2>4 DEF BackgroundStep, LaunchStep, Subscribe, OpenFails, OpenSucceeds, MarkFailed,
         CheckParent, AbortSession, MarkReady, CancelParent, ShutdownStep, ServeReturns,
         ShutdownCancel, ShutdownTake, ShutdownReturns, ProjectShutdownStep, StopWatcher,
         Detach, CloseSession, ProjectDown, Exited, wsVars, serveVars
    <3> QED
      BY <3>1 DEF QueryIsServed
  <2> QED
    BY <2>1, <2>2, <2>3, <2>4 DEF QNext
<1>2. ASSUME NEW p \in Projects, Allocated(p)'
      PROVE  langsOf'[p] # {}
  <2>1. CASE Allocated(p)
    BY <2>1, StepsOfWorkspace, WorkspaceFacts DEF QueryIsServed
  <2>2. CASE ~Allocated(p)
    <3>1. PICK r \in Roots, q \in Projects, ls \in SUBSET Langs : AddProject(r, q, ls)
      <4>1. rootOf' # rootOf
        BY <1>2, <2>2 DEF Allocated
      <4> QED
        BY <4>1, StepsOfWorkspace DEF Next, LaunchStep, Subscribe, OpenFails, OpenSucceeds,
           MarkFailed, CheckParent, AbortSession, MarkReady, CancelParent, StdinEOF,
           ShutdownStep, ServeReturns, ShutdownCancel, ShutdownTake, ShutdownReturns,
           ProjectShutdownStep, StopWatcher, Detach, CloseSession, ProjectDown, Exited,
           wsVars, projectVars
    <3> QED
      BY <1>2, <2>2, <3>1 DEF AddProject, Allocated, IInv, TypeOK
  <2> QED
    BY <2>1, <2>2
<1> QED
  BY <1>1, <1>2 DEF QueryIsServed

LEMMA QueryCloser == QInv /\ [QNext]_vars => [QueryComesCloser]_vars
<1> SUFFICES ASSUME QInv, QNext
             PROVE  QueryComesCloser
  OBVIOUS
<1> USE DEF PhasesLeft
<1>0. query \in QueryType
  BY DEF QInv
<1>1. ASSUME query.phase # "idle", ~QueryStep, \A l \in Langs : ~SessionAnswers(l)
      PROVE  UNCHANGED query
  BY <1>1 DEF QNext, StartQuery, DispatchWorkspace, BackgroundStep
<1>2. ASSUME QueryStep \/ \E l \in Langs : SessionAnswers(l)
      PROVE  \/ PhasesLeft(query'.phase) < PhasesLeft(query.phase)
             \/ /\ query'.phase = query.phase
                /\ \E l \in query.todo : query'.todo = query.todo \ {l}
  <2>1. ASSUME NEW l \in Langs, ReadState(l) \/ CollectSession(l)
        PROVE  <1>2!2
    BY <1>0, <2>1 DEF ReadState, CollectSession, QueryType
  <2>2. ASSUME NEW l \in Langs, LookupSession(l)
        PROVE  <1>2!2
    BY <1>0, <2>2 DEF LookupSession, Answer, QueryType
  <2>3. ASSUME NEW l \in Langs, SessionAnswers(l) \/ SessionGone(l)
        PROVE  <1>2!2
    <3>1. query.phase = "ask" /\ l \in query.todo
      BY <2>3 DEF SessionAnswers, SessionGone
    <3>2. CASE query' = CallFails(l)
      BY <1>0, <3>1, <3>2 DEF CallFails, QueryType
    <3>3. CASE query' = [query EXCEPT !.todo = @ \ {l}, !.answered = @ \cup {l}]
      BY <1>0, <3>1, <3>3 DEF QueryType
    <3> QED
      BY <2>3, <3>2, <3>3 DEF SessionAnswers, SessionGone
  <2>4. CASE RefuseNotReady
    BY <1>0, <2>4 DEF RefuseNotReady, Answer, QueryType
  <2>5. CASE PassReady
    <3>1. query.phase = "state" /\ query'.phase \in {"collect", "lookup"}
      BY <1>0, <2>5 DEF PassReady, QueryType
    <3> QED
      BY <3>1
  <2>6. CASE StartAsking
    BY <1>0, <2>6 DEF StartAsking, QueryType
  <2>7. CASE Reply
    BY <1>0, <2>7 DEF Reply, Answer, QueryType
  <2> QED
    BY <1>2, <2>1, <2>2, <2>3, <2>4, <2>5, <2>6, <2>7 DEF QueryStep
<1> QED
  BY <1>1, <1>2 DEF QueryComesCloser

\* Whatever Shutdown and the end of stdin do meanwhile, a query that is being answered
\* can take its next step until the process is gone, or waits for the answer of a server
\* that is running, which may never come; each step and each answer leaves less to do.
THEOREM QueriesProgress == QSpec => []QueryNotStuck /\ [][QueryComesCloser]_vars
<1>1. QInit => QueryIsServed
  <2> SUFFICES ASSUME QInit
               PROVE  QueryIsServed
    OBVIOUS
  <2>1. query.phase = "idle"
    BY DEF QInit, NewQuery
  <2> QED
    BY <2>1 DEF QInit, Init, QueryIsServed, Allocated
<1>2. IInv /\ QInv /\ QueryIsServed => QueryNotStuck
  <2> SUFFICES ASSUME IInv, QInv, QueryIsServed, query.phase # "idle", ProcessAlive
               PROVE  QueryCanMove \/ AwaitsServer
    BY DEF QueryNotStuck, ProcessAlive
  <2>1. /\ query \in QueryType /\ stdinOpen
        /\ query.project \in Projects /\ Allocated(query.project)
    BY DEF QInv, QueryType, QueryHasProject, Asking, QueryIsServed
  <2>2. Langs # {}
    BY <2>1 DEF IInv, TypeOK, QueryIsServed
  <2> QED
    BY <2>1, <2>2 DEF QueryCanMove, AwaitsServer, Dispatching, QueryType
<1>3. QSpec => []IInv
  BY QueriesImplementWorkspace, Invariance, PTL
<1> QED
  BY <1>1, <1>2, <1>3, QueryIsServedStep, QueryCloser, QueryInvariance, PTL DEF QSpec
=============================================================================
