------------------------------ MODULE DocSync ------------------------------
(***************************************************************************)
(* Document synchronisation of a language session (adapters/lsp/session.go *)
(* preloadProject, runEventLoop, didOpen, didChange, didClose, Shutdown)   *)
(* on top of the file watcher of its project: the documents the language   *)
(* server has open are to follow the files on disk.                        *)
(*                                                                         *)
(* The session subscribes, preloads every file, and then translates the    *)
(* events of its channel. A notification to the server arrives at once and *)
(* in order; document versions are left out. Project.Shutdown stops the    *)
(* watcher and then shuts the session down, which may overlap with the     *)
(* event loop draining what its channel still holds.                       *)
(***************************************************************************)
EXTENDS Watcher

VARIABLES
  pc,         \* the goroutine of Open, then that of runEventLoop
  todo,       \* files preloadProject has still to open, or Shutdown to close
  work,       \* the notification about to be made: its file and its text
  opened,     \* s.openedURIs
  docs,       \* docs[f]: the text the server has for f, NoText if not open
  down        \* control of Shutdown

sessionVars == <<pc, todo, work, opened, docs, down>>
vars == <<watcherVars, sessionVars>>

NoWork == [do |-> "nothing"]

TypeOK ==
  /\ WatcherTypeOK
  /\ pc \in {"spawned", "opening", "preload", "loop", "ended"}
  /\ todo \in SUBSET Files
  /\ work \in {NoWork} \cup [do : {"open", "change", "close"}, file : Files,
                             text : Texts \cup {NoText}]
  /\ opened \in SUBSET Files
  /\ docs \in [Files -> Texts \cup {NoText}]
  /\ down \in {"no", "closing", "done"}

Init ==
  /\ WatcherInit
  /\ pc = "spawned"
  /\ todo = {}
  /\ work = NoWork
  /\ opened = {}
  /\ docs = [f \in Files |-> NoText]
  /\ down = "no"

-----------------------------------------------------------------------------
\* launchSession subscribes before it opens the session.
SubscribeDrained ==
  /\ pc = "spawned"
  /\ Subscribe(Drained)
  /\ pc' = "opening"
  /\ UNCHANGED <<todo, work, opened, docs, down>>

\* preloadProject: walk the root once, ...
WalkFiles ==
  /\ pc = "opening"
  /\ pc' = "preload"
  /\ todo' = {f \in Files : text[f] # NoText}
  /\ UNCHANGED <<watcherVars, work, opened, docs, down>>

\* ... then read each file, skip it if it has gone, ...
PreloadRead(f) ==
  /\ pc = "preload"
  /\ work = NoWork
  /\ f \in todo
  /\ todo' = todo \ {f}
  /\ work' = IF text[f] = NoText THEN NoWork
             ELSE [do |-> "open", file |-> f, text |-> text[f]]
  /\ UNCHANGED <<watcherVars, pc, opened, docs, down>>

PreloadDone ==
  /\ pc = "preload"
  /\ work = NoWork
  /\ todo = {}
  /\ pc' = "loop"
  /\ UNCHANGED <<watcherVars, todo, work, opened, docs, down>>

\* runEventLoop: receive an event, read the file, and look at openedURIs.
TakeEvent ==
  /\ pc = "loop"
  /\ work = NoWork
  /\ chan # <<>>
  /\ chan' = Tail(chan)
  /\ LET f == Head(chan).path
     IN work' =
          IF f \notin Files THEN NoWork
          ELSE IF Head(chan).op = "delete"
            THEN IF f \in opened THEN [do |-> "close", file |-> f, text |-> NoText] ELSE NoWork
          ELSE IF text[f] = NoText THEN NoWork
          ELSE [do |-> IF f \in opened THEN "change" ELSE "open", file |-> f, text |-> text[f]]
  /\ UNCHANGED <<diskVars, raw, watched, subs, stopVars, run, backlog, dropped, panicked,
                 pc, todo, opened, docs, down>>

\* Mutant: didOpen does not register the document.
NeverRegistered(w) == IF w.do = "close" THEN opened \ {w.file} ELSE opened

OpenSet(w) == CASE w.do = "open"   -> opened \cup {w.file}
                [] w.do = "close"  -> opened \ {w.file}
                [] w.do = "change" -> opened

\* didOpen, didChange or didClose. A server that was shut down gets nothing, and
\* a change of a document it has not open is an error it ignores.
Notification ==
  /\ work # NoWork
  /\ opened' = OpenSet(work)
  /\ docs' = IF down = "done" \/ (work.do = "change" /\ docs[work.file] = NoText)
               THEN docs ELSE [docs EXCEPT ![work.file] = work.text]
  /\ work' = NoWork
  /\ UNCHANGED <<watcherVars, pc, todo, down>>

LoopEnds ==
  /\ pc = "loop"
  /\ work = NoWork
  /\ chan = <<>>
  /\ Drained \in shut
  /\ pc' = "ended"
  /\ UNCHANGED <<watcherVars, todo, work, opened, docs, down>>

SessionStep ==
  \/ SubscribeDrained
  \/ WalkFiles
  \/ \E f \in Files : PreloadRead(f)
  \/ PreloadDone
  \/ TakeEvent
  \/ Notification
  \/ LoopEnds

-----------------------------------------------------------------------------
\* Shutdown, once the watcher has been stopped: copy the open set, ...
ShutdownTakes ==
  /\ down = "no"
  /\ stop.pc = "stopped"
  /\ pc \in {"loop", "ended"}
  /\ down' = "closing"
  /\ todo' = opened
  /\ UNCHANGED <<watcherVars, pc, work, opened, docs>>

\* ... close every document of the copy, ...
ShutdownCloses(f) ==
  /\ down = "closing"
  /\ f \in todo
  /\ todo' = todo \ {f}
  /\ opened' = opened \ {f}
  /\ docs' = [docs EXCEPT ![f] = NoText]
  /\ UNCHANGED <<watcherVars, pc, work, down>>

\* ... and end the server.
ShutdownEnds ==
  /\ down = "closing"
  /\ todo = {}
  /\ down' = "done"
  /\ docs' = [f \in Files |-> NoText]
  /\ UNCHANGED <<watcherVars, pc, todo, work, opened>>

ShutdownStep ==
  \/ ShutdownTakes
  \/ \E f \in Files : ShutdownCloses(f)
  \/ ShutdownEnds

Finished ==
  /\ down = "done"
  /\ pc = "ended"
  /\ UNCHANGED vars

Next ==
  \/ (DiskStep \/ RunStep \/ StopMarks \/ StopStep) /\ UNCHANGED sessionVars
  \/ SessionStep
  \/ ShutdownStep
  \/ Finished

Spec == Init /\ [][Next]_vars

-----------------------------------------------------------------------------
\* Every event has been handled and the session is in its loop.
Quiescent ==
  /\ pc = "loop"
  /\ work = NoWork
  /\ raw = <<>>
  /\ run.pc = "select"
  /\ chan = <<>>
  /\ stop.pc = "no"

InSync(f) == docs[f] = text[f]

\* However saves, deletions, new directories, the preload and the event loop
\* interleave, and with other subscribers that never receive: when every event
\* has been handled and none was dropped, a file on disk is open with its latest
\* text, and a deleted file is not open if its directory was watched all along.
FollowsDisk ==
  Quiescent /\ ~dropped =>
    \A f \in Files :
      \/ InSync(f)
      \/ DirOf[f] # Root /\ life[DirOf[f]] \in {"again", "lost"}
      \/ DirOf[f] # Root /\ life[DirOf[f]] \in {"new", "gone"} /\ text[f] = NoText

\* Stop closes a subscriber's channel only after the last send to it: publish,
\* which sends outside the lock to a copy of the subscribers, never panics.
NoSendOnClosedChannel == ~panicked

\* The open set the session keeps is the server's, whenever no notification is
\* on its way and Shutdown has not begun.
OpenSetAgrees ==
  down = "no" /\ work = NoWork => \A f \in Files : f \in opened <=> docs[f] # NoText

\* Stop, the event loop and Shutdown all return, also when a subscriber's buffer
\* is full and nobody receives: after Stop was called no goroutine waits for ever
\* (each of their steps brings them closer to the end, so they cannot run for ever).
StopEndsEverything ==
  closed /\ ~ENABLED (RunStep \/ StopStep \/ SessionStep \/ ShutdownStep) =>
    stop.pc = "stopped" /\ pc = "ended" /\ down = "done"

-----------------------------------------------------------------------------
\* The comment of watcher: subdirectories created at runtime are picked up.
\* Refuted: w.watched keeps a directory that was removed, so a directory created
\* again under the same name is never watched again.
AlwaysFollowsDisk ==
  Quiescent /\ ~dropped => \A f \in Files : text[f] # NoText => InSync(f)
=============================================================================
