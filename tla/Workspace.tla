----------------------------- MODULE Workspace -----------------------------
(***************************************************************************)
(* The lifecycle of a depgraph workspace: registration of project roots,   *)
(* the launchSession goroutines that open one language session per         *)
(* detected language, and Workspace.Shutdown / Project.Shutdown, which     *)
(* race with them (domain/workspace.go, domain/project.go, and the Serve   *)
(* loop of mcp/server.go that drives both).                                *)
(*                                                                         *)
(* Locks are modelled by the grain of the actions: a step is what the code *)
(* does under one acquisition of Workspace.mu, sessionEntry.mu or          *)
(* watcher.mu, and everything between two acquisitions may interleave.     *)
(***************************************************************************)
EXTENDS Naturals

CONSTANTS
  Roots,      \* absolute project roots a client may register
  Projects,   \* *Project objects AddProject can allocate; a bound on allocations
  Langs,      \* languages the detector knows
  NoProject,  \* Workspace.Get's nil
  NoRoot      \* the root of an object that is not allocated yet

ASSUME NoProjectAssumption == NoProject \notin Projects
ASSUME NoRootAssumption == NoRoot \notin Roots

VARIABLES
  cancelled,  \* Workspace.parent is cancelled
  stdinOpen,  \* the dispatch goroutine of Serve still reads requests
  wsPc,       \* control of Serve and of its deferred Workspace.Shutdown
  projects,   \* Workspace.projects
  rootOf,     \* Project.Root
  langsOf,    \* Project.Languages, the keys of Project.sessions
  watcher,    \* the project's source watcher
  subs,       \* languages whose Subscribe channel is open on that watcher
  entry,      \* Project.sessions[lang]: state, err and whether it holds a session
  launch,     \* control of launchSession(project, lang)
  sess,       \* the PortAnalysisSession Open made for (project, lang)
  down,       \* control of Project.Shutdown
  detached,   \* entries Project.Shutdown has taken the session out of
  closing     \* sessions whose s.Shutdown() goroutine is running

wsVars == <<cancelled, stdinOpen, wsPc, projects, rootOf, langsOf, watcher, subs,
            entry, launch, sess, down, detached, closing>>

serveVars   == <<cancelled, stdinOpen, wsPc, projects>>
projectVars == <<rootOf, langsOf, watcher, subs>>
launchVars  == <<launch, sess>>
downVars    == <<down, detached, closing>>

EntryType == [state : {"indexing", "ready", "failed"},
              err   : {"none", "open", "shutdown"},
              session : BOOLEAN]

\* Mutants: markFailed with an error State does not know, or none at all, and a
\* Shutdown that leaves the session in its entry.
StrangeFailure     == [state |-> "failed", err |-> "unknown", session |-> FALSE]
SilentFailure      == [state |-> "failed", err |-> "none", session |-> FALSE]
SessionLeftInEntry == [state |-> "failed", err |-> "shutdown", session |-> TRUE]

NewEntry      == [state |-> "indexing", err |-> "none", session |-> FALSE]
ReadyEntry    == [state |-> "ready", err |-> "none", session |-> TRUE]
FailedEntry   == [state |-> "failed", err |-> "open", session |-> FALSE]
ShutdownEntry == [state |-> "failed", err |-> "shutdown", session |-> FALSE]

\* The points of launchSession: "failing", "checking", "aborting" and
\* "installing" are before markFailed, parent.Err(), sess.Shutdown and markReady.
LaunchPc == {"idle", "spawned", "subscribed", "failing", "checking", "aborting",
             "installing", "done"}

Allocated(p) == rootOf[p] # NoRoot

TypeOK ==
  /\ cancelled \in BOOLEAN
  /\ stdinOpen \in BOOLEAN
  /\ wsPc \in {"serving", "shutdown", "cancelled", "waiting", "returned"}
  /\ projects \in [Roots -> Projects \cup {NoProject}]
  /\ rootOf \in [Projects -> Roots \cup {NoRoot}]
  /\ langsOf \in [Projects -> SUBSET Langs]
  /\ watcher \in [Projects -> {"none", "running", "stopped"}]
  /\ subs \in [Projects -> SUBSET Langs]
  /\ entry \in [Projects -> [Langs -> EntryType]]
  /\ launch \in [Projects -> [Langs -> LaunchPc]]
  /\ sess \in [Projects -> [Langs -> {"none", "live", "closed"}]]
  /\ down \in [Projects -> {"no", "stopping", "detaching", "done"}]
  /\ detached \in [Projects -> SUBSET Langs]
  /\ closing \in [Projects -> SUBSET Langs]

Init ==
  /\ cancelled = FALSE
  /\ stdinOpen = TRUE
  /\ wsPc = "serving"
  /\ projects = [r \in Roots |-> NoProject]
  /\ rootOf = [p \in Projects |-> NoRoot]
  /\ langsOf = [p \in Projects |-> {}]
  /\ watcher = [p \in Projects |-> "none"]
  /\ subs = [p \in Projects |-> {}]
  /\ entry = [p \in Projects |-> [l \in Langs |-> NewEntry]]
  /\ launch = [p \in Projects |-> [l \in Langs |-> "idle"]]
  /\ sess = [p \in Projects |-> [l \in Langs |-> "none"]]
  /\ down = [p \in Projects |-> "no"]
  /\ detached = [p \in Projects |-> {}]
  /\ closing = [p \in Projects |-> {}]

\* main returns as soon as Serve does, and every goroutine ends with it.
ProcessAlive == wsPc # "returned"

-----------------------------------------------------------------------------
\* AddProject, called by the dispatch goroutine. Registration happens under
\* Workspace.mu; the launch goroutines it starts run at their own pace. A call
\* for a registered root, one that detects no language or misses a server
\* binary, and one whose watcher cannot be made all return without a trace.
\* The dispatch goroutine outlives the cancellation of the context.
AddProject(r, p, ls) ==
  /\ ProcessAlive
  /\ stdinOpen
  /\ projects[r] = NoProject
  /\ ~Allocated(p)
  /\ ls # {}
  /\ projects' = [projects EXCEPT ![r] = p]
  /\ rootOf' = [rootOf EXCEPT ![p] = r]
  /\ langsOf' = [langsOf EXCEPT ![p] = ls]
  /\ watcher' = [watcher EXCEPT ![p] = "running"]
  /\ entry' = [entry EXCEPT ![p] = [l \in Langs |-> NewEntry]]
  /\ launch' = [launch EXCEPT ![p] =
                  [l \in Langs |-> IF l \in ls THEN "spawned" ELSE "idle"]]
  /\ UNCHANGED <<cancelled, stdinOpen, wsPc, subs, sess, downVars>>

-----------------------------------------------------------------------------
\* launchSession, one goroutine per (project, language).

\* project.SubscribeFiles(): a stopped watcher hands out a closed channel.
Subscribe(p, l) ==
  /\ ProcessAlive
  /\ launch[p][l] = "spawned"
  /\ launch' = [launch EXCEPT ![p][l] = "subscribed"]
  /\ subs' = [subs EXCEPT ![p] = IF watcher[p] = "running" THEN @ \cup {l} ELSE @]
  /\ UNCHANGED <<serveVars, rootOf, langsOf, watcher, entry, sess, downVars>>

\* sessions.Open returns an error ...
OpenFails(p, l) ==
  /\ ProcessAlive
  /\ launch[p][l] = "subscribed"
  /\ launch' = [launch EXCEPT ![p][l] = "failing"]
  /\ UNCHANGED <<serveVars, projectVars, entry, sess, downVars>>

\* ... or a session, even if the context was cancelled while it was opening
\* (waitForIdle returns early on ctx.Done and reports no error).
OpenSucceeds(p, l) ==
  /\ ProcessAlive
  /\ launch[p][l] = "subscribed"
  /\ launch' = [launch EXCEPT ![p][l] = "checking"]
  /\ sess' = [sess EXCEPT ![p][l] = "live"]
  /\ UNCHANGED <<serveVars, projectVars, entry, downVars>>

MarkFailed(p, l) ==
  /\ ProcessAlive
  /\ launch[p][l] = "failing"
  /\ entry' = [entry EXCEPT ![p][l] = FailedEntry]
  /\ launch' = [launch EXCEPT ![p][l] = "done"]
  /\ UNCHANGED <<serveVars, projectVars, sess, downVars>>

\* if w.parent.Err() != nil { ... }
CheckParent(p, l) ==
  /\ ProcessAlive
  /\ launch[p][l] = "checking"
  /\ launch' = [launch EXCEPT ![p][l] = IF cancelled THEN "aborting" ELSE "installing"]
  /\ UNCHANGED <<serveVars, projectVars, entry, sess, downVars>>

\* The abort path shuts the session down and leaves the entry as it is.
AbortSession(p, l) ==
  /\ ProcessAlive
  /\ launch[p][l] = "aborting"
  /\ sess' = [sess EXCEPT ![p][l] = "closed"]
  /\ launch' = [launch EXCEPT ![p][l] = "done"]
  /\ UNCHANGED <<serveVars, projectVars, entry, downVars>>

\* markReady overwrites the entry whatever it says.
MarkReady(p, l) ==
  /\ ProcessAlive
  /\ launch[p][l] = "installing"
  /\ entry' = [entry EXCEPT ![p][l] = ReadyEntry]
  /\ launch' = [launch EXCEPT ![p][l] = "done"]
  /\ UNCHANGED <<serveVars, projectVars, sess, downVars>>

LaunchStep(p, l) ==
  \/ Subscribe(p, l)
  \/ OpenFails(p, l)
  \/ OpenSucceeds(p, l)
  \/ MarkFailed(p, l)
  \/ CheckParent(p, l)
  \/ AbortSession(p, l)
  \/ MarkReady(p, l)

-----------------------------------------------------------------------------
\* Serve and Workspace.Shutdown.

\* SIGINT or SIGTERM cancels the context main made the workspace with.
CancelParent ==
  /\ ProcessAlive
  /\ ~cancelled
  /\ cancelled' = TRUE
  /\ UNCHANGED <<stdinOpen, wsPc, projects, projectVars, entry, launchVars, downVars>>

\* The client closes stdin: the dispatch goroutine ends.
StdinEOF ==
  /\ ProcessAlive
  /\ stdinOpen
  /\ stdinOpen' = FALSE
  /\ UNCHANGED <<cancelled, wsPc, projects, projectVars, entry, launchVars, downVars>>

\* Serve's select returns and runs the deferred Shutdown.
ServeReturns ==
  /\ wsPc = "serving"
  /\ cancelled \/ ~stdinOpen
  /\ wsPc' = "shutdown"
  /\ UNCHANGED <<cancelled, stdinOpen, projects, projectVars, entry, launchVars, downVars>>

\* Mutant: rootCtx is not called, so launches are not told.
CancelForgotten ==
  /\ wsPc = "shutdown"
  /\ wsPc' = "cancelled"
  /\ UNCHANGED <<cancelled, stdinOpen, projects, projectVars, entry, launchVars, downVars>>

\* w.rootCtx()
ShutdownCancel ==
  /\ wsPc = "shutdown"
  /\ wsPc' = "cancelled"
  /\ cancelled' = TRUE
  /\ UNCHANGED <<stdinOpen, projects, projectVars, entry, launchVars, downVars>>

\* Mutant: the projects stay in the map.
MapKept ==
  /\ wsPc = "cancelled"
  /\ wsPc' = "waiting"
  /\ down' = [p \in Projects |->
                IF \E r \in Roots : projects[r] = p THEN "stopping" ELSE down[p]]
  /\ UNCHANGED <<cancelled, stdinOpen, projects, projectVars, entry, launchVars, detached, closing>>

\* Under Workspace.mu: take every project out of the map, then start one
\* Project.Shutdown goroutine for each.
ShutdownTake ==
  /\ wsPc = "cancelled"
  /\ wsPc' = "waiting"
  /\ down' = [p \in Projects |->
                IF \E r \in Roots : projects[r] = p THEN "stopping" ELSE down[p]]
  /\ projects' = [r \in Roots |-> NoProject]
  /\ UNCHANGED <<cancelled, stdinOpen, projectVars, entry, launchVars, detached, closing>>

\* wg.Wait() of Workspace.Shutdown.
ShutdownReturns ==
  /\ wsPc = "waiting"
  /\ \A p \in Projects : down[p] \in {"no", "done"}
  /\ wsPc' = "returned"
  /\ UNCHANGED <<cancelled, stdinOpen, projects, projectVars, entry, launchVars, downVars>>

-----------------------------------------------------------------------------
\* Project.Shutdown.

\* p.watcher.Stop() closes every subscriber channel.
StopWatcher(p) ==
  /\ down[p] = "stopping"
  /\ down' = [down EXCEPT ![p] = "detaching"]
  /\ watcher' = [watcher EXCEPT ![p] = "stopped"]
  /\ subs' = [subs EXCEPT ![p] = {}]
  /\ UNCHANGED <<serveVars, rootOf, langsOf, entry, launchVars, detached, closing>>

\* Mutant: the session is taken out of the entry and nobody shuts it down.
SessionForgotten(p, l) ==
  /\ down[p] = "detaching"
  /\ l \in langsOf[p] \ detached[p]
  /\ detached' = [detached EXCEPT ![p] = @ \cup {l}]
  /\ entry' = [entry EXCEPT ![p][l] = ShutdownEntry]
  /\ UNCHANGED <<serveVars, projectVars, launchVars, down, closing>>

\* One iteration of the loop over the entries, under the entry's lock, and
\* the s.Shutdown() goroutine it starts for the session it found.
Detach(p, l) ==
  /\ down[p] = "detaching"
  /\ l \in langsOf[p] \ detached[p]
  /\ detached' = [detached EXCEPT ![p] = @ \cup {l}]
  /\ closing' = [closing EXCEPT ![p] = IF entry[p][l].session THEN @ \cup {l} ELSE @]
  /\ entry' = [entry EXCEPT ![p][l] = ShutdownEntry]
  /\ UNCHANGED <<serveVars, projectVars, launchVars, down>>

\* Mutant: wg.Done is not called.
DoneForgotten(p, l) ==
  /\ l \in closing[p]
  /\ sess' = [sess EXCEPT ![p][l] = "closed"]
  /\ UNCHANGED <<serveVars, projectVars, entry, launch, downVars>>

CloseSession(p, l) ==
  /\ l \in closing[p]
  /\ sess' = [sess EXCEPT ![p][l] = "closed"]
  /\ closing' = [closing EXCEPT ![p] = @ \ {l}]
  /\ UNCHANGED <<serveVars, projectVars, entry, launch, down, detached>>

\* wg.Wait() of Project.Shutdown.
ProjectDown(p) ==
  /\ down[p] = "detaching"
  /\ detached[p] = langsOf[p]
  /\ closing[p] = {}
  /\ down' = [down EXCEPT ![p] = "done"]
  /\ UNCHANGED <<serveVars, projectVars, entry, launchVars, detached, closing>>

ShutdownStep ==
  \/ ServeReturns
  \/ ShutdownCancel
  \/ ShutdownTake
  \/ ShutdownReturns

ProjectShutdownStep(p) ==
  \/ StopWatcher(p)
  \/ \E l \in Langs : Detach(p, l) \/ CloseSession(p, l)
  \/ ProjectDown(p)

\* The process is gone.
Exited ==
  /\ ~ProcessAlive
  /\ UNCHANGED wsVars

Next ==
  \/ \E r \in Roots, p \in Projects, ls \in SUBSET Langs : AddProject(r, p, ls)
  \/ \E p \in Projects, l \in Langs : LaunchStep(p, l)
  \/ CancelParent
  \/ StdinEOF
  \/ ShutdownStep
  \/ \E p \in Projects : ProjectShutdownStep(p)
  \/ Exited

\* What launchSession does besides Open, which may never return (LspConn's
\* WaitEndsWithServer shows a way).
PromptStep(p, l) ==
  \/ Subscribe(p, l)
  \/ MarkFailed(p, l)
  \/ CheckParent(p, l)
  \/ AbortSession(p, l)
  \/ MarkReady(p, l)

\* A runnable goroutine is eventually scheduled, and s.Shutdown returns (ServerProcess
\* shows when). Nothing makes Open return, a client call AddProject or close stdin,
\* or a user send a signal.
Fairness ==
  /\ \A p \in Projects, l \in Langs : WF_wsVars(PromptStep(p, l))
  /\ WF_wsVars(ShutdownStep)
  /\ \A p \in Projects : WF_wsVars(ProjectShutdownStep(p))

Spec == Init /\ [][Next]_wsVars

FairSpec == Spec /\ Fairness

-----------------------------------------------------------------------------
(* Ownership: who must shut a session down. *)

HeldByLaunch(p, l)   == launch[p][l] \in {"checking", "aborting", "installing"}
HeldByEntry(p, l)    == entry[p][l].session
HeldByShutdown(p, l) == l \in closing[p]

\* A running session has exactly one owner (its launch goroutine, its entry, or
\* a Project.Shutdown goroutine), and a session that is not running has none:
\* no process is shut down twice, used after its shutdown, or forgotten, in
\* whatever order launchSession and Shutdown take the entry's lock.
SingleOwner ==
  \A p \in Projects, l \in Langs :
    /\ sess[p][l] = "live" <=>
         (HeldByLaunch(p, l) \/ HeldByEntry(p, l) \/ HeldByShutdown(p, l))
    /\ ~(HeldByLaunch(p, l) /\ HeldByEntry(p, l))
    /\ ~(HeldByLaunch(p, l) /\ HeldByShutdown(p, l))
    /\ ~(HeldByEntry(p, l) /\ HeldByShutdown(p, l))

Owner(p, l) ==
  IF sess[p][l] = "none" THEN "unopened"
  ELSE IF HeldByLaunch(p, l) THEN "launcher"
  ELSE IF HeldByEntry(p, l) THEN "entry"
  ELSE IF HeldByShutdown(p, l) THEN "shutdown"
  ELSE "closed"

Ownership == INSTANCE SessionOwnership
  WITH owner <- [p \in Projects |-> [l \in Langs |-> Owner(p, l)]]

\* The lifecycle implements SessionOwnership: in every race between launchSession,
\* Shutdown and the cancellation, a session is handed on launch -> entry ->
\* shutdown and never back, and is shut down at most once.
ImplementsOwnership == Ownership!Spec

\* readySession returns entry.session unchecked whenever the state is Ready, and
\* State sees a failure only through a non-nil err: the three fields of an entry
\* agree in every interleaving of markReady, markFailed and Shutdown.
EntryConsistent ==
  \A p \in Projects, l \in Langs :
    /\ entry[p][l].state = "ready" <=> entry[p][l].session
    /\ entry[p][l].state = "failed" <=> entry[p][l].err # "none"

\* A project that Get can return has a running watcher, and each of its ready
\* sessions listens to it: no query is answered from a view that no longer
\* follows the disk (the comment of AddProject).
RegisteredIsWatched ==
  \A r \in Roots : \A p \in Projects :
    projects[r] = p =>
      /\ rootOf[p] = r
      /\ watcher[p] = "running"
      /\ \A l \in Langs : entry[p][l].state = "ready" => l \in subs[p]

\* Until the context is cancelled a launch has one outcome: an entry that became
\* Ready or Failed stays as it is and keeps its session.
OutcomeIsFinal ==
  [][\A p \in Projects, l \in Langs :
       ~cancelled /\ entry[p][l].state # "indexing" => entry'[p][l] = entry[p][l]]_wsVars

\* Once Open has returned, the entry does not stay Indexing: it becomes Ready or
\* Failed, or the process ends (AddProject's comment: Indexing -> Ready/Failed in
\* the background). The abort path relies on Shutdown to fail the entry.
LaunchSettles ==
  \A p \in Projects, l \in Langs :
    launch[p][l] \notin {"idle", "spawned", "subscribed"}
      ~> entry[p][l].state # "indexing" \/ wsPc = "returned"

\* Cancellation or the end of stdin always ends in Shutdown returning, also while
\* sessions are being opened and projects are being added.
ShutdownCompletes == cancelled \/ ~stdinOpen ~> wsPc = "returned"

-----------------------------------------------------------------------------
\* Serve's comment: every spawned LSP process is reaped. Refuted: a launch that
\* passed the parent.Err() check before the cancellation installs its session
\* after Project.Shutdown has detached the entry.
EverySessionReaped ==
  wsPc = "returned" /\ (\A p \in Projects, l \in Langs : launch[p][l] \in {"idle", "done"})
    => \A p \in Projects, l \in Langs : sess[p][l] # "live"
=============================================================================
