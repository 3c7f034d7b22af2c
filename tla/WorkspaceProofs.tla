--------------------------- MODULE WorkspaceProofs ---------------------------
(***************************************************************************)
(* Proofs about Workspace for every set of roots, projects and languages.  *)
(***************************************************************************)
EXTENDS Workspace, Naturals, TLAPS

USE NoProjectAssumption, NoRootAssumption

\* A Project object that AddProject has not allocated carries no state.
FreshIsBlank ==
  \A p \in Projects : rootOf[p] = NoRoot =>
    /\ down[p] = "no"
    /\ closing[p] = {}
    /\ \A l \in Langs : launch[p][l] = "idle"

\* Before its launch goroutine has it from Open, a session does not exist.
NotOpenedYet ==
  \A p \in Projects, l \in Langs :
    launch[p][l] \in {"idle", "spawned", "subscribed", "failing"} => sess[p][l] = "none"

\* Until its Shutdown starts, the watcher of an allocated project runs, and what
\* is registered is not being shut down.
RegisteredIsUp ==
  \A p \in Projects :
    /\ rootOf[p] # NoRoot /\ down[p] \in {"no", "stopping"} => watcher[p] = "running"
    /\ \A r \in Roots : projects[r] = p => rootOf[p] = r /\ down[p] = "no"

\* A launch subscribes before anything else, so a Ready entry was subscribed.
SubscribedFirst ==
  \A p \in Projects, l \in Langs :
    /\ launch[p][l] \notin {"idle", "spawned"} /\ watcher[p] = "running" => l \in subs[p]
    /\ entry[p][l].state = "ready" => launch[p][l] = "done"

\* Entries are detached only after the cancellation; before it, an entry whose
\* launch has not finished is Indexing.
PendingIsIndexing ==
  /\ wsPc \in {"cancelled", "waiting", "returned"} => cancelled
  /\ \A p \in Projects : down[p] # "no" => cancelled
  /\ ~cancelled => \A p \in Projects, l \in Langs :
                      launch[p][l] # "done" => entry[p][l].state = "indexing"

IInv ==
  /\ TypeOK
  /\ FreshIsBlank
  /\ NotOpenedYet
  /\ SingleOwner
  /\ EntryConsistent
  /\ RegisteredIsUp
  /\ SubscribedFirst
  /\ PendingIsIndexing

-----------------------------------------------------------------------------
\* The four values the code stores in an entry are entries.
LEMMA EntryValues ==
  /\ NewEntry \in EntryType
  /\ ReadyEntry \in EntryType
  /\ FailedEntry \in EntryType
  /\ ShutdownEntry \in EntryType
BY DEF EntryType, NewEntry, ReadyEntry, FailedEntry, ShutdownEntry

LEMMA IInvStep == IInv /\ [Next]_wsVars => IInv'
<1>. SUFFICES ASSUME IInv, [Next]_wsVars
              PROVE  IInv'
  OBVIOUS
<1>. USE EntryValues DEF IInv, Allocated, serveVars, projectVars, launchVars, downVars
<1>1. ASSUME NEW r \in Roots, NEW p \in Projects, NEW ls \in SUBSET Langs, AddProject(r,
   p, ls)
      PROVE  IInv'
  <2>1. TypeOK'
    BY <1>1 DEF AddProject, TypeOK, LaunchPc
  <2>2. FreshIsBlank'
    BY <1>1 DEF AddProject, FreshIsBlank, TypeOK
  <2>3. NotOpenedYet'
    BY <1>1 DEF AddProject, NotOpenedYet, TypeOK, FreshIsBlank
  <2>4. SingleOwner'
    BY <1>1 DEF AddProject, SingleOwner, HeldByLaunch, HeldByEntry, HeldByShutdown,
       TypeOK, EntryType, NotOpenedYet, FreshIsBlank, NewEntry, ReadyEntry, FailedEntry,
          ShutdownEntry
  <2>5. EntryConsistent'
    BY <1>1 DEF AddProject, EntryConsistent, TypeOK, EntryType, NewEntry, ReadyEntry,
       FailedEntry, ShutdownEntry
  <2>6. RegisteredIsUp'
    BY <1>1 DEF AddProject, RegisteredIsUp, TypeOK, FreshIsBlank
  <2>7. SubscribedFirst'
    BY <1>1 DEF AddProject, SubscribedFirst, SingleOwner, HeldByLaunch, HeldByEntry,
       TypeOK, EntryConsistent, NewEntry, ReadyEntry, FailedEntry, ShutdownEntry
  <2>8. PendingIsIndexing'
    BY <1>1 DEF AddProject, PendingIsIndexing, TypeOK, NewEntry
  <2>. QED
    BY <2>1, <2>2, <2>3, <2>4, <2>5, <2>6, <2>7, <2>8
<1>2. ASSUME NEW p \in Projects, NEW l \in Langs, Subscribe(p, l)
      PROVE  IInv'
  <2>1. TypeOK'
    BY <1>2 DEF Subscribe, TypeOK, LaunchPc
  <2>2. FreshIsBlank'
    BY <1>2 DEF Subscribe, FreshIsBlank, TypeOK
  <2>3. NotOpenedYet'
    BY <1>2 DEF Subscribe, NotOpenedYet, TypeOK, FreshIsBlank
  <2>4. SingleOwner'
    BY <1>2 DEF Subscribe, SingleOwner, HeldByLaunch, HeldByEntry, HeldByShutdown,
       TypeOK, EntryType, NotOpenedYet, FreshIsBlank, NewEntry, ReadyEntry, FailedEntry,
          ShutdownEntry
  <2>5. SubscribedFirst'
    BY <1>2 DEF Subscribe, SubscribedFirst, SingleOwner, HeldByLaunch, HeldByEntry,
       TypeOK, EntryConsistent, NewEntry, ReadyEntry, FailedEntry, ShutdownEntry
  <2>6. PendingIsIndexing'
    BY <1>2 DEF Subscribe, PendingIsIndexing, TypeOK, NewEntry
  <2>7. EntryConsistent' /\ RegisteredIsUp'
    BY <1>2 DEF Subscribe, EntryConsistent, RegisteredIsUp
  <2>. QED
    BY <2>1, <2>2, <2>3, <2>4, <2>5, <2>6, <2>7
<1>3. ASSUME NEW p \in Projects, NEW l \in Langs, OpenFails(p, l)
      PROVE  IInv'
  <2>1. TypeOK'
    BY <1>3 DEF OpenFails, TypeOK, LaunchPc
  <2>2. FreshIsBlank'
    BY <1>3 DEF OpenFails, FreshIsBlank, TypeOK
  <2>3. NotOpenedYet'
    BY <1>3 DEF OpenFails, NotOpenedYet, TypeOK, FreshIsBlank
  <2>4. SingleOwner'
    BY <1>3 DEF OpenFails, SingleOwner, HeldByLaunch, HeldByEntry, HeldByShutdown,
       TypeOK, EntryType, NotOpenedYet, FreshIsBlank, NewEntry, ReadyEntry, FailedEntry,
          ShutdownEntry
  <2>5. SubscribedFirst'
    BY <1>3 DEF OpenFails, SubscribedFirst, SingleOwner, HeldByLaunch, HeldByEntry,
       TypeOK, EntryConsistent, NewEntry, ReadyEntry, FailedEntry, ShutdownEntry
  <2>6. PendingIsIndexing'
    BY <1>3 DEF OpenFails, PendingIsIndexing, TypeOK, NewEntry
  <2>7. EntryConsistent' /\ RegisteredIsUp'
    BY <1>3 DEF OpenFails, EntryConsistent, RegisteredIsUp
  <2>. QED
    BY <2>1, <2>2, <2>3, <2>4, <2>5, <2>6, <2>7
<1>4. ASSUME NEW p \in Projects, NEW l \in Langs, OpenSucceeds(p, l)
      PROVE  IInv'
  <2>1. TypeOK'
    BY <1>4 DEF OpenSucceeds, TypeOK, LaunchPc
  <2>2. FreshIsBlank'
    BY <1>4 DEF OpenSucceeds, FreshIsBlank, TypeOK
  <2>3. NotOpenedYet'
    BY <1>4 DEF OpenSucceeds, NotOpenedYet, TypeOK, FreshIsBlank
  <2>4. SingleOwner'
    BY <1>4 DEF OpenSucceeds, SingleOwner, HeldByLaunch, HeldByEntry, HeldByShutdown,
       TypeOK, EntryType, NotOpenedYet, FreshIsBlank, NewEntry, ReadyEntry, FailedEntry,
          ShutdownEntry
  <2>5. SubscribedFirst'
    BY <1>4 DEF OpenSucceeds, SubscribedFirst, SingleOwner, HeldByLaunch, HeldByEntry,
       TypeOK, EntryConsistent, NewEntry, ReadyEntry, FailedEntry, ShutdownEntry
  <2>6. PendingIsIndexing'
    BY <1>4 DEF OpenSucceeds, PendingIsIndexing, TypeOK, NewEntry
  <2>7. EntryConsistent' /\ RegisteredIsUp'
    BY <1>4 DEF OpenSucceeds, EntryConsistent, RegisteredIsUp
  <2>. QED
    BY <2>1, <2>2, <2>3, <2>4, <2>5, <2>6, <2>7
<1>5. ASSUME NEW p \in Projects, NEW l \in Langs, MarkFailed(p, l)
      PROVE  IInv'
  <2>1. TypeOK'
    BY <1>5 DEF MarkFailed, TypeOK, LaunchPc
  <2>2. FreshIsBlank'
    BY <1>5 DEF MarkFailed, FreshIsBlank, TypeOK
  <2>3. NotOpenedYet'
    BY <1>5 DEF MarkFailed, NotOpenedYet, TypeOK, FreshIsBlank
  <2>4. SingleOwner'
    BY <1>5 DEF MarkFailed, SingleOwner, HeldByLaunch, HeldByEntry, HeldByShutdown,
       TypeOK, EntryType, NotOpenedYet, FreshIsBlank, NewEntry, ReadyEntry, FailedEntry,
          ShutdownEntry
  <2>5. EntryConsistent'
    BY <1>5 DEF MarkFailed, EntryConsistent, TypeOK, EntryType, NewEntry, ReadyEntry,
       FailedEntry, ShutdownEntry
  <2>6. SubscribedFirst'
    BY <1>5 DEF MarkFailed, SubscribedFirst, SingleOwner, HeldByLaunch, HeldByEntry,
       TypeOK, EntryConsistent, NewEntry, ReadyEntry, FailedEntry, ShutdownEntry
  <2>7. PendingIsIndexing'
    BY <1>5 DEF MarkFailed, PendingIsIndexing, TypeOK, NewEntry
  <2>8. RegisteredIsUp'
    BY <1>5 DEF MarkFailed, RegisteredIsUp
  <2>. QED
    BY <2>1, <2>2, <2>3, <2>4, <2>5, <2>6, <2>7, <2>8
<1>6. ASSUME NEW p \in Projects, NEW l \in Langs, CheckParent(p, l)
      PROVE  IInv'
  <2>1. TypeOK'
    BY <1>6 DEF CheckParent, TypeOK, LaunchPc
  <2>2. FreshIsBlank'
    BY <1>6 DEF CheckParent, FreshIsBlank, TypeOK
  <2>3. NotOpenedYet'
    BY <1>6 DEF CheckParent, NotOpenedYet, TypeOK, FreshIsBlank
  <2>4. SingleOwner'
    BY <1>6 DEF CheckParent, SingleOwner, HeldByLaunch, HeldByEntry, HeldByShutdown,
       TypeOK, EntryType, NotOpenedYet, FreshIsBlank, NewEntry, ReadyEntry, FailedEntry,
          ShutdownEntry
  <2>5. SubscribedFirst'
    BY <1>6 DEF CheckParent, SubscribedFirst, SingleOwner, HeldByLaunch, HeldByEntry,
       TypeOK, EntryConsistent, NewEntry, ReadyEntry, FailedEntry, ShutdownEntry
  <2>6. PendingIsIndexing'
    BY <1>6 DEF CheckParent, PendingIsIndexing, TypeOK, NewEntry
  <2>7. EntryConsistent' /\ RegisteredIsUp'
    BY <1>6 DEF CheckParent, EntryConsistent, RegisteredIsUp
  <2>. QED
    BY <2>1, <2>2, <2>3, <2>4, <2>5, <2>6, <2>7
<1>7. ASSUME NEW p \in Projects, NEW l \in Langs, AbortSession(p, l)
      PROVE  IInv'
  <2>1. TypeOK'
    BY <1>7 DEF AbortSession, TypeOK, LaunchPc
  <2>2. FreshIsBlank'
    BY <1>7 DEF AbortSession, FreshIsBlank, TypeOK
  <2>3. NotOpenedYet'
    BY <1>7 DEF AbortSession, NotOpenedYet, TypeOK, FreshIsBlank
  <2>4. SingleOwner'
    BY <1>7 DEF AbortSession, SingleOwner, HeldByLaunch, HeldByEntry, HeldByShutdown,
       TypeOK, EntryType, NotOpenedYet, FreshIsBlank, NewEntry, ReadyEntry, FailedEntry,
          ShutdownEntry
  <2>5. SubscribedFirst'
    BY <1>7 DEF AbortSession, SubscribedFirst, SingleOwner, HeldByLaunch, HeldByEntry,
       TypeOK, EntryConsistent, NewEntry, ReadyEntry, FailedEntry, ShutdownEntry
  <2>6. PendingIsIndexing'
    BY <1>7 DEF AbortSession, PendingIsIndexing, TypeOK, NewEntry
  <2>7. EntryConsistent' /\ RegisteredIsUp'
    BY <1>7 DEF AbortSession, EntryConsistent, RegisteredIsUp
  <2>. QED
    BY <2>1, <2>2, <2>3, <2>4, <2>5, <2>6, <2>7
<1>8. ASSUME NEW p \in Projects, NEW l \in Langs, MarkReady(p, l)
      PROVE  IInv'
  <2>1. TypeOK'
    BY <1>8 DEF MarkReady, TypeOK, LaunchPc
  <2>2. FreshIsBlank'
    BY <1>8 DEF MarkReady, FreshIsBlank, TypeOK
  <2>3. NotOpenedYet'
    BY <1>8 DEF MarkReady, NotOpenedYet, TypeOK, FreshIsBlank
  <2>4. SingleOwner'
    BY <1>8 DEF MarkReady, SingleOwner, HeldByLaunch, HeldByEntry, HeldByShutdown,
       TypeOK, EntryType, NotOpenedYet, FreshIsBlank, NewEntry, ReadyEntry, FailedEntry,
          ShutdownEntry
  <2>5. EntryConsistent'
    BY <1>8 DEF MarkReady, EntryConsistent, TypeOK, EntryType, NewEntry, ReadyEntry,
       FailedEntry, ShutdownEntry
  <2>6. SubscribedFirst'
    BY <1>8 DEF MarkReady, SubscribedFirst, SingleOwner, HeldByLaunch, HeldByEntry,
       TypeOK, EntryConsistent, NewEntry, ReadyEntry, FailedEntry, ShutdownEntry
  <2>7. PendingIsIndexing'
    BY <1>8 DEF MarkReady, PendingIsIndexing, TypeOK, NewEntry
  <2>8. RegisteredIsUp'
    BY <1>8 DEF MarkReady, RegisteredIsUp
  <2>. QED
    BY <2>1, <2>2, <2>3, <2>4, <2>5, <2>6, <2>7, <2>8
<1>9. CASE CancelParent
  <2>1. TypeOK'
    BY <1>9 DEF CancelParent, TypeOK, LaunchPc
  <2>2. PendingIsIndexing'
    BY <1>9 DEF CancelParent, PendingIsIndexing, TypeOK, NewEntry
  <2>3. FreshIsBlank' /\ NotOpenedYet' /\ SingleOwner' /\ EntryConsistent'
     /\ RegisteredIsUp' /\ SubscribedFirst'
    BY <1>9 DEF CancelParent, FreshIsBlank, NotOpenedYet, SingleOwner, EntryConsistent,
       RegisteredIsUp, SubscribedFirst, HeldByLaunch, HeldByEntry, HeldByShutdown
  <2>. QED
    BY <2>1, <2>2, <2>3
<1>10. CASE StdinEOF
  <2>1. TypeOK'
    BY <1>10 DEF StdinEOF, TypeOK, LaunchPc
  <2>2. FreshIsBlank' /\ NotOpenedYet' /\ SingleOwner' /\ EntryConsistent'
     /\ RegisteredIsUp' /\ SubscribedFirst' /\ PendingIsIndexing'
    BY <1>10 DEF StdinEOF, FreshIsBlank, NotOpenedYet, SingleOwner, EntryConsistent,
       RegisteredIsUp, SubscribedFirst, PendingIsIndexing, HeldByLaunch, HeldByEntry,
          HeldByShutdown
  <2>. QED
    BY <2>1, <2>2
<1>11. CASE ServeReturns
  <2>1. TypeOK'
    BY <1>11 DEF ServeReturns, TypeOK, LaunchPc
  <2>2. PendingIsIndexing'
    BY <1>11 DEF ServeReturns, PendingIsIndexing, TypeOK, NewEntry
  <2>3. FreshIsBlank' /\ NotOpenedYet' /\ SingleOwner' /\ EntryConsistent'
     /\ RegisteredIsUp' /\ SubscribedFirst'
    BY <1>11 DEF ServeReturns, FreshIsBlank, NotOpenedYet, SingleOwner, EntryConsistent,
       RegisteredIsUp, SubscribedFirst, HeldByLaunch, HeldByEntry, HeldByShutdown
  <2>. QED
    BY <2>1, <2>2, <2>3
<1>12. CASE ShutdownCancel
  <2>1. TypeOK'
    BY <1>12 DEF ShutdownCancel, TypeOK, LaunchPc
  <2>2. PendingIsIndexing'
    BY <1>12 DEF ShutdownCancel, PendingIsIndexing, TypeOK, NewEntry
  <2>3. FreshIsBlank' /\ NotOpenedYet' /\ SingleOwner' /\ EntryConsistent'
     /\ RegisteredIsUp' /\ SubscribedFirst'
    BY <1>12 DEF ShutdownCancel, FreshIsBlank, NotOpenedYet, SingleOwner,
       EntryConsistent, RegisteredIsUp, SubscribedFirst, HeldByLaunch, HeldByEntry,
          HeldByShutdown
  <2>. QED
    BY <2>1, <2>2, <2>3
<1>13. CASE ShutdownTake
  <2>1. TypeOK'
    BY <1>13 DEF ShutdownTake, TypeOK, LaunchPc
  <2>2. FreshIsBlank'
    BY <1>13 DEF ShutdownTake, FreshIsBlank, TypeOK, RegisteredIsUp
  <2>3. RegisteredIsUp'
    BY <1>13 DEF ShutdownTake, RegisteredIsUp, TypeOK, FreshIsBlank
  <2>4. PendingIsIndexing'
    BY <1>13 DEF ShutdownTake, PendingIsIndexing, TypeOK, NewEntry
  <2>5. NotOpenedYet' /\ SingleOwner' /\ EntryConsistent' /\ SubscribedFirst'
    BY <1>13 DEF ShutdownTake, NotOpenedYet, SingleOwner, EntryConsistent,
       SubscribedFirst, HeldByLaunch, HeldByEntry, HeldByShutdown
  <2>. QED
    BY <2>1, <2>2, <2>3, <2>4, <2>5
<1>14. CASE ShutdownReturns
  <2>1. TypeOK'
    BY <1>14 DEF ShutdownReturns, TypeOK, LaunchPc
  <2>2. PendingIsIndexing'
    BY <1>14 DEF ShutdownReturns, PendingIsIndexing, TypeOK, NewEntry
  <2>3. FreshIsBlank' /\ NotOpenedYet' /\ SingleOwner' /\ EntryConsistent'
     /\ RegisteredIsUp' /\ SubscribedFirst'
    BY <1>14 DEF ShutdownReturns, FreshIsBlank, NotOpenedYet, SingleOwner,
       EntryConsistent, RegisteredIsUp, SubscribedFirst, HeldByLaunch, HeldByEntry,
          HeldByShutdown
  <2>. QED
    BY <2>1, <2>2, <2>3
<1>15. ASSUME NEW p \in Projects, StopWatcher(p)
      PROVE  IInv'
  <2>1. TypeOK'
    BY <1>15 DEF StopWatcher, TypeOK, LaunchPc
  <2>2. FreshIsBlank'
    BY <1>15 DEF StopWatcher, FreshIsBlank, TypeOK
  <2>3. RegisteredIsUp'
    BY <1>15 DEF StopWatcher, RegisteredIsUp, TypeOK, FreshIsBlank
  <2>4. SubscribedFirst'
    BY <1>15 DEF StopWatcher, SubscribedFirst, SingleOwner, HeldByLaunch, HeldByEntry,
       TypeOK, EntryConsistent, NewEntry, ReadyEntry, FailedEntry, ShutdownEntry
  <2>5. PendingIsIndexing'
    BY <1>15 DEF StopWatcher, PendingIsIndexing, TypeOK, NewEntry
  <2>6. NotOpenedYet' /\ SingleOwner' /\ EntryConsistent'
    BY <1>15 DEF StopWatcher, NotOpenedYet, SingleOwner, EntryConsistent, HeldByLaunch,
       HeldByEntry, HeldByShutdown
  <2>. QED
    BY <2>1, <2>2, <2>3, <2>4, <2>5, <2>6
<1>16. ASSUME NEW p \in Projects, NEW l \in Langs, Detach(p, l)
      PROVE  IInv'
  <2>1. TypeOK'
    BY <1>16 DEF Detach, TypeOK, LaunchPc
  <2>2. FreshIsBlank'
    BY <1>16 DEF Detach, FreshIsBlank, TypeOK
  <2>3. SingleOwner'
    BY <1>16 DEF Detach, SingleOwner, HeldByLaunch, HeldByEntry, HeldByShutdown, TypeOK,
       EntryType, NotOpenedYet, FreshIsBlank, NewEntry, ReadyEntry, FailedEntry,
          ShutdownEntry
  <2>4. EntryConsistent'
    BY <1>16 DEF Detach, EntryConsistent, TypeOK, EntryType, NewEntry, ReadyEntry,
       FailedEntry, ShutdownEntry
  <2>5. SubscribedFirst'
    BY <1>16 DEF Detach, SubscribedFirst, SingleOwner, HeldByLaunch, HeldByEntry, TypeOK,
       EntryConsistent, NewEntry, ReadyEntry, FailedEntry, ShutdownEntry
  <2>6. PendingIsIndexing'
    BY <1>16 DEF Detach, PendingIsIndexing, TypeOK, NewEntry
  <2>7. NotOpenedYet' /\ RegisteredIsUp'
    BY <1>16 DEF Detach, NotOpenedYet, RegisteredIsUp
  <2>. QED
    BY <2>1, <2>2, <2>3, <2>4, <2>5, <2>6, <2>7
<1>17. ASSUME NEW p \in Projects, NEW l \in Langs, CloseSession(p, l)
      PROVE  IInv'
  <2>1. TypeOK'
    BY <1>17 DEF CloseSession, TypeOK, LaunchPc
  <2>2. FreshIsBlank'
    BY <1>17 DEF CloseSession, FreshIsBlank, TypeOK
  <2>3. NotOpenedYet'
    BY <1>17 DEF CloseSession, NotOpenedYet, TypeOK, FreshIsBlank, SingleOwner,
       HeldByShutdown
  <2>4. SingleOwner'
    BY <1>17 DEF CloseSession, SingleOwner, HeldByLaunch, HeldByEntry, HeldByShutdown,
       TypeOK, EntryType, NotOpenedYet, FreshIsBlank, NewEntry, ReadyEntry, FailedEntry,
          ShutdownEntry
  <2>5. EntryConsistent' /\ RegisteredIsUp' /\ SubscribedFirst' /\ PendingIsIndexing'
    BY <1>17 DEF CloseSession, EntryConsistent, RegisteredIsUp, SubscribedFirst,
       PendingIsIndexing
  <2>. QED
    BY <2>1, <2>2, <2>3, <2>4, <2>5
<1>18. ASSUME NEW p \in Projects, ProjectDown(p)
      PROVE  IInv'
  <2>1. TypeOK'
    BY <1>18 DEF ProjectDown, TypeOK, LaunchPc
  <2>2. FreshIsBlank'
    BY <1>18 DEF ProjectDown, FreshIsBlank, TypeOK
  <2>3. RegisteredIsUp'
    BY <1>18 DEF ProjectDown, RegisteredIsUp, TypeOK, FreshIsBlank
  <2>4. PendingIsIndexing'
    BY <1>18 DEF ProjectDown, PendingIsIndexing, TypeOK, NewEntry
  <2>5. NotOpenedYet' /\ SingleOwner' /\ EntryConsistent' /\ SubscribedFirst'
    BY <1>18 DEF ProjectDown, NotOpenedYet, SingleOwner, EntryConsistent,
       SubscribedFirst, HeldByLaunch, HeldByEntry, HeldByShutdown
  <2>. QED
    BY <2>1, <2>2, <2>3, <2>4, <2>5
<1>19. CASE UNCHANGED wsVars
  BY <1>19 DEF wsVars, TypeOK, LaunchPc, FreshIsBlank, NotOpenedYet, SingleOwner,
     EntryConsistent, RegisteredIsUp, SubscribedFirst, PendingIsIndexing,
     HeldByLaunch, HeldByEntry, HeldByShutdown
<1>. QED
  BY <1>1, <1>2, <1>3, <1>4, <1>5, <1>6, <1>7, <1>8, <1>9, <1>10, <1>11, <1>12, <1>13,
     <1>14, <1>15, <1>16, <1>17, <1>18, <1>19 DEF Next, LaunchStep, ShutdownStep,
     ProjectShutdownStep, Exited

\* Every invariant the proofs use holds in every reachable state.
THEOREM Invariance == Spec => []IInv
<1>1. Init => IInv
  <2>. SUFFICES ASSUME Init PROVE IInv
    OBVIOUS
  <2>1. entry \in [Projects -> [Langs -> EntryType]]
    BY EntryValues DEF Init
  <2>2. /\ cancelled \in BOOLEAN
        /\ stdinOpen \in BOOLEAN
        /\ wsPc \in {"serving", "shutdown", "cancelled", "waiting", "returned"}
    BY DEF Init
  <2>3. /\ langsOf \in [Projects -> SUBSET Langs]
        /\ subs \in [Projects -> SUBSET Langs]
        /\ detached \in [Projects -> SUBSET Langs]
        /\ closing \in [Projects -> SUBSET Langs]
    BY DEF Init
  <2>4. TypeOK
    BY <2>1, <2>2, <2>3 DEF Init, TypeOK, LaunchPc
  <2>5. FreshIsBlank /\ NotOpenedYet
    BY DEF Init, FreshIsBlank, NotOpenedYet
  <2>6. SingleOwner
    BY DEF Init, SingleOwner, HeldByLaunch, HeldByEntry, HeldByShutdown, NewEntry
  <2>7. EntryConsistent /\ SubscribedFirst
    BY DEF Init, EntryConsistent, SubscribedFirst, NewEntry
  <2>8. RegisteredIsUp
    BY DEF Init, RegisteredIsUp
  <2>9. PendingIsIndexing
    BY DEF Init, PendingIsIndexing, NewEntry
  <2>. QED
    BY <2>4, <2>5, <2>6, <2>7, <2>8, <2>9 DEF IInv
<1>. QED
  BY <1>1, IInvStep, PTL DEF Spec

\* Every reachable state has the types of TypeOK.
THEOREM TypeCorrect == Spec => []TypeOK
BY Invariance, PTL DEF IInv

\* A running session has exactly one owner, one that is not running has none.
THEOREM SingleOwnerHolds == Spec => []SingleOwner
BY Invariance, PTL DEF IInv

\* The state, the error and the session of an entry always agree.
THEOREM EntryConsistentHolds == Spec => []EntryConsistent
BY Invariance, PTL DEF IInv

\* What Get can return is watched, and its ready sessions follow the watcher.
THEOREM RegisteredIsWatchedHolds == Spec => []RegisteredIsWatched
<1>1. IInv => RegisteredIsWatched
  BY DEF IInv, RegisteredIsWatched, RegisteredIsUp, SubscribedFirst
<1>. QED
  BY <1>1, Invariance, PTL

\* No step changes an entry that has its outcome, until the context is cancelled.
LEMMA OutcomeStays ==
  ASSUME IInv, [Next]_wsVars, NEW p \in Projects, NEW l \in Langs,
         ~cancelled, entry[p][l].state # "indexing"
  PROVE  entry'[p][l] = entry[p][l]
<1> USE DEF IInv, TypeOK, PendingIsIndexing, Allocated, serveVars, projectVars, launchVars,
            downVars
<1>1. ASSUME NEW r \in Roots, NEW q \in Projects, NEW ls \in SUBSET Langs,
             AddProject(r, q, ls)
      PROVE  entry'[p][l] = entry[p][l]
  BY <1>1 DEF AddProject, FreshIsBlank
<1>2. ASSUME NEW q \in Projects, NEW k \in Langs, MarkFailed(q, k) \/ MarkReady(q, k)
      PROVE  entry'[p][l] = entry[p][l]
  BY <1>2 DEF MarkFailed, MarkReady
<1>3. ASSUME NEW q \in Projects, NEW k \in Langs, Detach(q, k)
      PROVE  entry'[p][l] = entry[p][l]
  BY <1>3 DEF Detach
<1>4. CASE UNCHANGED entry
  BY <1>4
<1> QED
  BY <1>1, <1>2, <1>3, <1>4 DEF Next, LaunchStep, Subscribe, OpenFails, OpenSucceeds,
     CheckParent, AbortSession, CancelParent, StdinEOF, ShutdownStep, ServeReturns,
     ShutdownCancel, ShutdownTake, ShutdownReturns, ProjectShutdownStep, StopWatcher,
     CloseSession, ProjectDown, Exited, wsVars

\* Until the context is cancelled, Ready and Failed are final.
THEOREM OutcomeIsFinalHolds == Spec => OutcomeIsFinal
<1>1. IInv /\ [Next]_wsVars =>
        [\A p \in Projects, l \in Langs :
           ~cancelled /\ entry[p][l].state # "indexing" => entry'[p][l] = entry[p][l]]_wsVars
  BY OutcomeStays
<1> QED
  BY <1>1, Invariance, PTL DEF Spec, OutcomeIsFinal

-----------------------------------------------------------------------------
(* The lifecycle implements SessionOwnership. *)

own == [p \in Projects |-> [l \in Langs |-> Owner(p, l)]]

\* A step that changes the owner of one session changes own there only.
LEMMA OwnerStep ==
  ASSUME NEW p \in Projects, NEW l \in Langs, NEW v,
         Owner(p, l)' = v,
         \A q \in Projects, k \in Langs : q # p \/ k # l => Owner(q, k)' = Owner(q, k)
  PROVE  own' = [own EXCEPT ![p][l] = v]
BY DEF own

\* A step that changes no owner leaves own as it is.
LEMMA OwnerStutter ==
  ASSUME \A q \in Projects, k \in Langs : Owner(q, k)' = Owner(q, k)
  PROVE  own' = own
BY DEF own

\* Sessions are handed on as SessionOwnership says, in every interleaving.
THEOREM ImplementsOwnershipHolds == Spec => ImplementsOwnership
<1>. USE DEF HeldByLaunch, HeldByEntry, HeldByShutdown
<1>1. Init => Ownership!Init
  <2>. SUFFICES ASSUME Init PROVE own = [p \in Projects |-> [l \in Langs |-> "unopened"]]
    BY DEF Ownership!Init, own
  <2>1. ASSUME NEW p \in Projects, NEW l \in Langs
        PROVE  Owner(p, l) = "unopened"
    BY DEF Init, Owner
  <2>. QED
    BY <2>1 DEF own
<1>2. IInv /\ [Next]_wsVars => [Ownership!Next]_own
  <2>. SUFFICES ASSUME IInv, [Next]_wsVars
                PROVE  Ownership!Next \/ own' = own
    BY DEF own
  <2>. USE DEF IInv, TypeOK, EntryType, SingleOwner, serveVars, projectVars, launchVars,
               downVars, NewEntry, ReadyEntry, FailedEntry, ShutdownEntry
  <2>1. ASSUME NEW p \in Projects, NEW l \in Langs, OpenSucceeds(p, l)
        PROVE  Ownership!Open(p, l)
    <3>1. own[p][l] = "unopened"
      BY <2>1 DEF OpenSucceeds, own, Owner, NotOpenedYet
    <3>2. Owner(p, l)' = "launcher"
      <4>1. launch'[p][l] = "checking" /\ sess'[p][l] = "live"
        BY <2>1 DEF OpenSucceeds
      <4>. QED
        BY <4>1 DEF Owner
    <3>3. \A q \in Projects, k \in Langs :
            q # p \/ k # l => Owner(q, k)' = Owner(q, k)
      BY <2>1 DEF OpenSucceeds, Owner
    <3>4. own' = [own EXCEPT ![p][l] = "launcher"]
      BY <3>2, <3>3, OwnerStep
    <3>. QED
      BY <3>1, <3>4 DEF Ownership!Open, Ownership!Pass, own
  <2>2. ASSUME NEW p \in Projects, NEW l \in Langs, AbortSession(p, l)
        PROVE  Ownership!Abort(p, l)
    <3>1. own[p][l] = "launcher"
      BY <2>2 DEF AbortSession, own, Owner
    <3>2. Owner(p, l)' = "closed"
      BY <2>2 DEF AbortSession, Owner
    <3>3. \A q \in Projects, k \in Langs :
            q # p \/ k # l => Owner(q, k)' = Owner(q, k)
      BY <2>2 DEF AbortSession, Owner
    <3>4. own' = [own EXCEPT ![p][l] = "closed"]
      BY <3>2, <3>3, OwnerStep
    <3>. QED
      BY <3>1, <3>4 DEF Ownership!Abort, Ownership!Pass, own
  <2>3. ASSUME NEW p \in Projects, NEW l \in Langs, MarkReady(p, l)
        PROVE  Ownership!Install(p, l)
    <3>1. own[p][l] = "launcher"
      BY <2>3 DEF MarkReady, own, Owner
    <3>2. Owner(p, l)' = "entry"
      BY <2>3 DEF MarkReady, Owner
    <3>3. \A q \in Projects, k \in Langs :
            q # p \/ k # l => Owner(q, k)' = Owner(q, k)
      BY <2>3 DEF MarkReady, Owner
    <3>4. own' = [own EXCEPT ![p][l] = "entry"]
      BY <3>2, <3>3, OwnerStep
    <3>. QED
      BY <3>1, <3>4 DEF Ownership!Install, Ownership!Pass, own
  <2>4. ASSUME NEW p \in Projects, NEW l \in Langs, Detach(p, l)
        PROVE  Ownership!Detach(p, l) \/ own' = own
    <3>1. \A q \in Projects, k \in Langs :
            q # p \/ k # l => Owner(q, k)' = Owner(q, k)
      BY <2>4 DEF Detach, Owner
    <3>2. CASE HeldByEntry(p, l)
      <4>1. own[p][l] = "entry"
        BY <3>2 DEF own, Owner
      <4>2. Owner(p, l)' = "shutdown"
        BY <2>4, <3>2 DEF Detach, Owner
      <4>3. own' = [own EXCEPT ![p][l] = "shutdown"]
        BY <3>1, <4>2, OwnerStep
      <4>. QED
        BY <4>1, <4>3 DEF Ownership!Detach, Ownership!Pass, own
    <3>3. CASE ~HeldByEntry(p, l)
      <4>1. Owner(p, l)' = Owner(p, l)
        BY <2>4, <3>3 DEF Detach, Owner
      <4>. QED
        BY <3>1, <4>1, OwnerStutter
    <3>. QED
      BY <3>2, <3>3
  <2>5. ASSUME NEW p \in Projects, NEW l \in Langs, CloseSession(p, l)
        PROVE  Ownership!Close(p, l)
    <3>1. own[p][l] = "shutdown"
      BY <2>5 DEF CloseSession, own, Owner
    <3>2. Owner(p, l)' = "closed"
      BY <2>5 DEF CloseSession, Owner
    <3>3. \A q \in Projects, k \in Langs :
            q # p \/ k # l => Owner(q, k)' = Owner(q, k)
      BY <2>5 DEF CloseSession, Owner
    <3>4. own' = [own EXCEPT ![p][l] = "closed"]
      BY <3>2, <3>3, OwnerStep
    <3>. QED
      BY <3>1, <3>4 DEF Ownership!Close, Ownership!Pass, own
  <2>6. ASSUME NEW r \in Roots, NEW p \in Projects, NEW ls \in SUBSET Langs,
               AddProject(r, p, ls)
        PROVE  own' = own
    <3>1. \A q \in Projects, k \in Langs : Owner(q, k)' = Owner(q, k)
      BY <2>6 DEF AddProject, Allocated, Owner, FreshIsBlank, NotOpenedYet
    <3>. QED
      BY <3>1, OwnerStutter
  <2>7. ASSUME NEW p \in Projects, NEW l \in Langs,
               \/ Subscribe(p, l)
               \/ OpenFails(p, l)
               \/ MarkFailed(p, l)
               \/ CheckParent(p, l)
        PROVE  own' = own
    <3>1. CASE Subscribe(p, l) \/ OpenFails(p, l)
      <4>1. sess[p][l] = "none"
        BY <3>1 DEF Subscribe, OpenFails, NotOpenedYet
      <4>2. \A q \in Projects, k \in Langs :
              q # p \/ k # l => launch'[q][k] = launch[q][k]
        BY <3>1 DEF Subscribe, OpenFails
      <4>3. UNCHANGED <<sess, entry, closing>>
        BY <3>1 DEF Subscribe, OpenFails
      <4>4. ASSUME NEW q \in Projects, NEW k \in Langs
            PROVE  Owner(q, k)' = Owner(q, k)
        <5>1. CASE q = p /\ k = l
          BY <4>1, <4>3, <5>1 DEF Owner
        <5>2. CASE q # p \/ k # l
          BY <4>2, <4>3, <5>2 DEF Owner
        <5>. QED
          BY <5>1, <5>2
      <4>. QED
        BY <4>4, OwnerStutter
    <3>2. CASE MarkFailed(p, l)
      <4>1. \A q \in Projects, k \in Langs : Owner(q, k)' = Owner(q, k)
        BY <3>2 DEF MarkFailed, Owner, NotOpenedYet
      <4>. QED
        BY <4>1, OwnerStutter
    <3>3. CASE CheckParent(p, l)
      <4>1. \A q \in Projects, k \in Langs : Owner(q, k)' = Owner(q, k)
        BY <3>3 DEF CheckParent, Owner
      <4>. QED
        BY <4>1, OwnerStutter
    <3>. QED
      BY <2>7, <3>1, <3>2, <3>3
  <2>8. CASE UNCHANGED <<sess, launch, entry, closing>>
    <3>1. \A q \in Projects, k \in Langs : Owner(q, k)' = Owner(q, k)
      BY <2>8 DEF Owner
    <3>. QED
      BY <3>1, OwnerStutter
  <2>. QED
    BY <2>1, <2>2, <2>3, <2>4, <2>5, <2>6, <2>7, <2>8
       DEF Next, LaunchStep, CancelParent, StdinEOF, ShutdownStep, ServeReturns,
           ShutdownCancel, ShutdownTake, ShutdownReturns, ProjectShutdownStep,
           StopWatcher, ProjectDown, Exited, wsVars, Ownership!Next
<1>. QED
  BY <1>1, <1>2, Invariance, PTL DEF Spec, ImplementsOwnership, Ownership!Spec, own

-----------------------------------------------------------------------------
(* What ShutdownCompletes and LaunchSettles need besides fairness: Shutdown is   *)
(* never stuck, and its steps and those of a launch run out.                      *)

\* Project.Shutdown takes sessions out of the project's own entries, and closes what
\* it has taken out.
DetachesOwn ==
  \A p \in Projects :
    /\ closing[p] \subseteq detached[p] /\ detached[p] \subseteq langsOf[p]
    /\ down[p] \in {"no", "stopping"} => detached[p] = {}

\* A launch leaves its entry Indexing only for a cancelled context, hence for a
\* Shutdown that is on its way.
AbandonedIfCancelled ==
  \A p \in Projects, l \in Langs :
    launch[p][l] = "aborting" \/ (launch[p][l] = "done" /\ entry[p][l].state = "indexing")
      => cancelled

\* The guards of ShutdownStep, and of ProjectShutdownStep.
ShutdownCanMove ==
  \/ wsPc = "serving" /\ (cancelled \/ ~stdinOpen)
  \/ wsPc \in {"shutdown", "cancelled"}
  \/ wsPc = "waiting" /\ \A p \in Projects : down[p] \in {"no", "done"}

ProjectCanMove(p) ==
  \/ down[p] = "stopping"
  \/ down[p] = "detaching" /\ langsOf[p] \ detached[p] # {}
  \/ closing[p] # {}
  \/ down[p] = "detaching" /\ detached[p] = langsOf[p] /\ closing[p] = {}

ShutdownNotStuck ==
  cancelled \/ ~stdinOpen =>
    wsPc = "returned" \/ ShutdownCanMove \/ \E p \in Projects : ProjectCanMove(p)

\* What is left to do: for Serve, for Project.Shutdown, and for one of its languages.
ServeLeft(pc) ==
  CASE pc = "serving" -> 4 [] pc = "shutdown" -> 3 [] pc = "cancelled" -> 2
    [] pc = "waiting" -> 1 [] OTHER -> 0

DownLeft(d) ==
  CASE d = "no" -> 3 [] d = "stopping" -> 2 [] d = "detaching" -> 1 [] OTHER -> 0

SessionLeft(l, ls, taken, open) ==
  IF l \in open THEN 1 ELSE IF l \in ls \ taken THEN 2 ELSE 0

LaunchLeft(pc) ==
  CASE pc = "idle" -> 5 [] pc = "spawned" -> 4 [] pc = "subscribed" -> 3
    [] pc \in {"failing", "checking"} -> 2 [] pc \in {"aborting", "installing"} -> 1
    [] OTHER -> 0

\* Nothing Shutdown has done is undone, also while projects are still being added;
\* and each of its steps leaves less to do.
ShutdownComesCloser ==
  /\ ServeLeft(wsPc') <= ServeLeft(wsPc)
  /\ ShutdownStep => ServeLeft(wsPc') < ServeLeft(wsPc)
  /\ \A p \in Projects :
       LET Left(l) == SessionLeft(l, langsOf[p], detached[p], closing[p])
           After(l) == SessionLeft(l, langsOf'[p], detached'[p], closing'[p])
       IN /\ DownLeft(down'[p]) <= DownLeft(down[p])
          /\ down[p] # "no" => \A l \in Langs : After(l) <= Left(l)
          /\ ProjectShutdownStep(p) =>
               DownLeft(down'[p]) < DownLeft(down[p]) \/ \E l \in Langs : After(l) < Left(l)

LaunchComesCloser ==
  \A p \in Projects, l \in Langs :
    /\ LaunchLeft(launch'[p][l]) <= LaunchLeft(launch[p][l])
    /\ LaunchStep(p, l) => LaunchLeft(launch'[p][l]) < LaunchLeft(launch[p][l])

\* The steps that do not touch Project.Shutdown's state and languages.
Quiet == UNCHANGED <<langsOf, down, detached, closing>>

LEMMA WhatShutdownReads ==
  ASSUME [Next]_wsVars
  PROVE  \/ Quiet
         \/ \E r \in Roots, p \in Projects, ls \in SUBSET Langs : AddProject(r, p, ls)
         \/ ShutdownTake
         \/ \E p \in Projects : ProjectShutdownStep(p)
<1> USE DEF projectVars, downVars
<1>1. ASSUME NEW p \in Projects, NEW l \in Langs, LaunchStep(p, l)
      PROVE  Quiet
  BY <1>1, ZenonT(30) DEF Quiet, LaunchStep, Subscribe, OpenFails, OpenSucceeds, MarkFailed,
     CheckParent, AbortSession, MarkReady
<1>2. CASE CancelParent \/ StdinEOF \/ ServeReturns \/ ShutdownCancel \/ ShutdownReturns
  BY <1>2, ZenonT(30) DEF Quiet, CancelParent, StdinEOF, ServeReturns, ShutdownCancel,
     ShutdownReturns
<1>3. CASE UNCHANGED wsVars
  BY <1>3 DEF Quiet, wsVars
<1> QED
  BY <1>1, <1>2, <1>3 DEF Next, ShutdownStep, Exited

\* ShutdownTake starts the shutdown of projects whose shutdown has not begun.
LEMMA TakeStops ==
  ASSUME IInv, ShutdownTake
  PROVE  /\ UNCHANGED <<langsOf, detached, closing>>
         /\ \A p \in Projects :
              down'[p] = down[p] \/ (down[p] = "no" /\ down'[p] = "stopping")
<1> SUFFICES ASSUME NEW p \in Projects
             PROVE  down'[p] = down[p] \/ (down[p] = "no" /\ down'[p] = "stopping")
  BY DEF ShutdownTake, projectVars
<1>1. down'[p] = IF \E r \in Roots : projects[r] = p THEN "stopping" ELSE down[p]
  BY DEF ShutdownTake
<1>2. (\E r \in Roots : projects[r] = p) => down[p] = "no"
  BY DEF IInv, RegisteredIsUp
<1> QED
  BY <1>1, <1>2

LEMMA DetachesOwnStep == IInv /\ DetachesOwn /\ [Next]_wsVars => DetachesOwn'
<1> SUFFICES ASSUME IInv, DetachesOwn, [Next]_wsVars
             PROVE  DetachesOwn'
  OBVIOUS
<1> USE DEF TypeOK, DetachesOwn, projectVars, downVars
<1>0. TypeOK /\ FreshIsBlank
  BY DEF IInv
<1>1. CASE Quiet
  BY <1>1 DEF Quiet
<1>2. ASSUME NEW r \in Roots, NEW p \in Projects, NEW ls \in SUBSET Langs,
             AddProject(r, p, ls)
      PROVE  DetachesOwn'
  BY <1>0, <1>2 DEF AddProject, Allocated, FreshIsBlank
<1>3. CASE ShutdownTake
  BY <1>3, TakeStops
<1>4. ASSUME NEW p \in Projects, ProjectShutdownStep(p)
      PROVE  DetachesOwn'
  <2>1. CASE StopWatcher(p) \/ ProjectDown(p)
    BY <1>0, <2>1 DEF StopWatcher, ProjectDown
  <2>2. ASSUME NEW l \in Langs, Detach(p, l)
        PROVE  DetachesOwn'
    <3>1. /\ down[p] = "detaching" /\ l \in langsOf[p] /\ UNCHANGED <<down, langsOf>>
          /\ detached' = [detached EXCEPT ![p] = @ \cup {l}]
          /\ closing' = closing \/ closing' = [closing EXCEPT ![p] = @ \cup {l}]
      BY <1>0, <2>2 DEF Detach
    <3> QED
      BY <1>0, <3>1
  <2>3. ASSUME NEW l \in Langs, CloseSession(p, l)
        PROVE  DetachesOwn'
    BY <1>0, <2>3 DEF CloseSession
  <2> QED
    BY <1>4, <2>1, <2>2, <2>3 DEF ProjectShutdownStep
<1> QED
  BY <1>1, <1>2, <1>3, <1>4, WhatShutdownReads

LEMMA ShutdownCloser == IInv /\ DetachesOwn /\ [Next]_wsVars => [ShutdownComesCloser]_wsVars
<1> SUFFICES ASSUME IInv, DetachesOwn, Next, ~UNCHANGED wsVars
             PROVE  ShutdownComesCloser
  OBVIOUS
<1> DEFINE Left(p, l) == SessionLeft(l, langsOf[p], detached[p], closing[p])
           After(p, l) == SessionLeft(l, langsOf'[p], detached'[p], closing'[p])
           Lowers(p) == \/ DownLeft(down'[p]) < DownLeft(down[p])
                        \/ \E l \in Langs : After(p, l) < Left(p, l)
           Keeps(p) == /\ DownLeft(down'[p]) <= DownLeft(down[p])
                       /\ down[p] # "no" => \A l \in Langs : After(p, l) <= Left(p, l)
<1>0. TypeOK /\ FreshIsBlank
  BY DEF IInv
<1> USE <1>0 DEF TypeOK, DetachesOwn, serveVars, projectVars, downVars
<1>1. /\ ServeLeft(wsPc') <= ServeLeft(wsPc)
      /\ ShutdownStep => ServeLeft(wsPc') < ServeLeft(wsPc)
  <2>1. CASE ShutdownStep
    BY <2>1 DEF ShutdownStep, ServeReturns, ShutdownCancel, ShutdownTake, ShutdownReturns,
       ServeLeft
  <2>2. ASSUME ~ShutdownStep
        PROVE  wsPc' = wsPc
    BY <2>2, ZenonT(30) DEF Next, AddProject, LaunchStep, Subscribe, OpenFails, OpenSucceeds,
       MarkFailed, CheckParent, AbortSession, MarkReady, CancelParent, StdinEOF,
       ProjectShutdownStep, StopWatcher, Detach, CloseSession, ProjectDown, Exited, wsVars
  <2>3. ServeLeft(wsPc) <= ServeLeft(wsPc)
    BY DEF ServeLeft
  <2> QED
    BY <2>1, <2>2, <2>3
<1>2. ASSUME NEW p \in Projects
      PROVE  Keeps(p) /\ (ProjectShutdownStep(p) => Lowers(p))
  <2>0. /\ DownLeft(down[p]) <= DownLeft(down[p])
        /\ \A l, ls, taken, open :
             SessionLeft(l, ls, taken, open) <= SessionLeft(l, ls, taken, open)
    BY DEF DownLeft, SessionLeft
  <2>1. CASE StopWatcher(p) \/ ProjectDown(p)
    <3>1. DownLeft(down'[p]) < DownLeft(down[p])
      BY <2>1 DEF StopWatcher, ProjectDown, DownLeft
    <3>2. UNCHANGED <<langsOf, detached, closing>>
      BY <2>1 DEF StopWatcher, ProjectDown
    <3>3. DownLeft(down'[p]) <= DownLeft(down[p])
      BY <3>1 DEF DownLeft
    <3> QED
      BY <2>0, <3>1, <3>2, <3>3
  <2>2. ASSUME NEW l \in Langs, Detach(p, l) \/ CloseSession(p, l)
        PROVE  Keeps(p) /\ Lowers(p)
    <3>1. After(p, l) < Left(p, l)
      BY <2>2 DEF Detach, CloseSession, SessionLeft
    <3>2. \A k \in Langs : After(p, k) <= Left(p, k)
      BY <2>2 DEF Detach, CloseSession, SessionLeft
    <3>3. down' = down
      BY <2>2 DEF Detach, CloseSession
    <3> QED
      BY <2>0, <3>1, <3>2, <3>3
  <2>3. ASSUME ~ProjectShutdownStep(p)
        PROVE  Keeps(p)
    <3>1. CASE Quiet
      BY <2>0, <3>1 DEF Quiet
    <3>2. ASSUME NEW r \in Roots, NEW q \in Projects, NEW ls \in SUBSET Langs,
                 AddProject(r, q, ls)
          PROVE  Keeps(p)
      BY <2>0, <3>2 DEF AddProject, Allocated, FreshIsBlank
    <3>3. CASE ShutdownTake
      <4>1. DownLeft(down'[p]) <= DownLeft(down[p])
        BY <2>0, <3>3, TakeStops DEF DownLeft
      <4> QED
        BY <2>0, <3>3, <4>1, TakeStops
    <3>4. ASSUME NEW q \in Projects, ProjectShutdownStep(q)
          PROVE  Keeps(p)
      <4>1. /\ down'[p] = down[p] /\ langsOf'[p] = langsOf[p]
            /\ detached'[p] = detached[p] /\ closing'[p] = closing[p]
        <5>1. q # p
          BY <2>3, <3>4
        <5>2. CASE StopWatcher(q) \/ ProjectDown(q)
          BY <5>1, <5>2 DEF StopWatcher, ProjectDown
        <5>3. ASSUME NEW l \in Langs, Detach(q, l) \/ CloseSession(q, l)
              PROVE  <4>1!:
          BY <5>1, <5>3 DEF Detach, CloseSession
        <5> QED
          BY <3>4, <5>2, <5>3 DEF ProjectShutdownStep
      <4> QED
        BY <2>0, <4>1
    <3> QED
      BY <3>1, <3>2, <3>3, <3>4, WhatShutdownReads
  <2> QED
    BY <2>1, <2>2, <2>3 DEF ProjectShutdownStep
<1> QED
  BY <1>1, <1>2 DEF ShutdownComesCloser

\* Once the context is cancelled or stdin closed, Shutdown can always take a step until
\* it has returned, and each of its steps leaves less to do: it ends under weak
\* fairness of those steps, whatever launches and AddProject do meanwhile.
THEOREM ShutdownProgress == Spec => []ShutdownNotStuck /\ [][ShutdownComesCloser]_wsVars
<1>1. Init => DetachesOwn
  BY DEF Init, DetachesOwn
<1>2. IInv /\ DetachesOwn => ShutdownNotStuck
  <2> SUFFICES ASSUME IInv, DetachesOwn, wsPc = "waiting", ~ShutdownCanMove
               PROVE  \E p \in Projects : ProjectCanMove(p)
    BY DEF IInv, TypeOK, ShutdownNotStuck, ShutdownCanMove
  <2>1. PICK p \in Projects : down[p] \in {"stopping", "detaching"}
    BY DEF IInv, TypeOK, ShutdownCanMove
  <2>2. detached[p] \subseteq langsOf[p]
    BY DEF DetachesOwn
  <2> QED
    BY <2>1, <2>2 DEF ProjectCanMove
<1> QED
  BY <1>1, <1>2, DetachesOwnStep, ShutdownCloser, Invariance, PTL DEF Spec

LEMMA AbandonedStep == IInv /\ AbandonedIfCancelled /\ [Next]_wsVars => AbandonedIfCancelled'
<1> SUFFICES ASSUME IInv, AbandonedIfCancelled, [Next]_wsVars
             PROVE  AbandonedIfCancelled'
  OBVIOUS
<1>0. /\ cancelled \in BOOLEAN
      /\ launch \in [Projects -> [Langs -> LaunchPc]]
      /\ entry \in [Projects -> [Langs -> EntryType]]
  BY DEF IInv, TypeOK
<1> USE <1>0 DEF AbandonedIfCancelled, serveVars, projectVars, launchVars, downVars
<1>1. ASSUME NEW r \in Roots, NEW p \in Projects, NEW ls \in SUBSET Langs,
             AddProject(r, p, ls)
      PROVE  AbandonedIfCancelled'
  BY <1>1 DEF AddProject
<1>2. ASSUME NEW p \in Projects, NEW l \in Langs, LaunchStep(p, l)
      PROVE  AbandonedIfCancelled'
  <2>1. CASE Subscribe(p, l) \/ OpenFails(p, l) \/ OpenSucceeds(p, l)
    BY <2>1 DEF Subscribe, OpenFails, OpenSucceeds
  <2>2. CASE CheckParent(p, l)
    BY <2>2 DEF CheckParent
  <2>5. CASE AbortSession(p, l)
    BY <2>5 DEF AbortSession
  <2>3. CASE MarkFailed(p, l)
    BY <2>3 DEF MarkFailed, FailedEntry
  <2>4. CASE MarkReady(p, l)
    BY <2>4 DEF MarkReady, ReadyEntry
  <2> QED
    BY <1>2, <2>1, <2>2, <2>3, <2>4, <2>5 DEF LaunchStep
<1>3. ASSUME NEW p \in Projects, NEW l \in Langs, Detach(p, l)
      PROVE  AbandonedIfCancelled'
  BY <1>3 DEF Detach, ShutdownEntry
<1>4. CASE UNCHANGED <<launch, entry>> /\ (cancelled => cancelled')
  BY <1>4
<1> QED
  BY <1>1, <1>2, <1>3, <1>4 DEF Next, CancelParent, StdinEOF, ShutdownStep, ServeReturns,
     ShutdownCancel, ShutdownTake, ShutdownReturns, ProjectShutdownStep, StopWatcher,
     CloseSession, ProjectDown, Exited, wsVars

LEMMA LaunchCloser == IInv /\ [Next]_wsVars => [LaunchComesCloser]_wsVars
<1> SUFFICES ASSUME IInv, Next, ~UNCHANGED wsVars, NEW p \in Projects, NEW l \in Langs
             PROVE  /\ LaunchLeft(launch'[p][l]) <= LaunchLeft(launch[p][l])
                    /\ LaunchStep(p, l) =>
                         LaunchLeft(launch'[p][l]) < LaunchLeft(launch[p][l])
  BY DEF LaunchComesCloser
<1> USE DEF IInv, TypeOK, launchVars
<1>0. LaunchLeft(launch[p][l]) <= LaunchLeft(launch[p][l])
  BY DEF LaunchLeft
<1>1. CASE LaunchStep(p, l)
  BY <1>1 DEF LaunchStep, Subscribe, OpenFails, OpenSucceeds, MarkFailed, CheckParent,
     AbortSession, MarkReady, LaunchLeft
<1>2. ASSUME NEW q \in Projects, NEW k \in Langs, LaunchStep(q, k), ~LaunchStep(p, l)
      PROVE  launch'[p][l] = launch[p][l]
  BY <1>2 DEF LaunchStep, Subscribe, OpenFails, OpenSucceeds, MarkFailed, CheckParent,
     AbortSession, MarkReady
<1>3. ASSUME NEW r \in Roots, NEW q \in Projects, NEW ls \in SUBSET Langs,
             AddProject(r, q, ls)
      PROVE  LaunchLeft(launch'[p][l]) <= LaunchLeft(launch[p][l])
  BY <1>0, <1>3 DEF AddProject, Allocated, FreshIsBlank, LaunchLeft
<1>4. CASE UNCHANGED launch /\ ~LaunchStep(p, l)
  BY <1>0, <1>4
<1> QED
  BY <1>0, <1>1, <1>2, <1>3, <1>4 DEF Next, CancelParent, StdinEOF, ShutdownStep,
     ServeReturns, ShutdownCancel, ShutdownTake, ShutdownReturns, ProjectShutdownStep,
     StopWatcher, Detach, CloseSession, ProjectDown, Exited, wsVars

\* A launch goroutine never goes back, and what it leaves Indexing it leaves to a
\* Shutdown that is on its way: with ShutdownProgress, what LaunchSettles needs
\* besides fairness.
THEOREM LaunchProgress == Spec => []AbandonedIfCancelled /\ [][LaunchComesCloser]_wsVars
<1>1. Init => AbandonedIfCancelled
  BY DEF Init, AbandonedIfCancelled
<1> QED
  BY <1>1, AbandonedStep, LaunchCloser, Invariance, PTL DEF Spec
=============================================================================
