------------------------------ MODULE Watcher ------------------------------
(***************************************************************************)
(* The file watcher of a project (adapters/fswatch/watcher.go): what the   *)
(* goroutine run makes of the raw fsnotify events and how it fans them out *)
(* to its subscribers, while files and directories keep changing on disk   *)
(* and Stop may be called. newWatcher has returned: the directories that   *)
(* exist in the initial state are watched. A subscriber is a session; only *)
(* Drained reads its channel (the PreloadFiles languages do). The others,  *)
(* which subscribed before, never receive.                                 *)
(*                                                                         *)
(* The disk and fsnotify are external. An inotify watch belongs to a       *)
(* directory's inode: it disappears with the directory.                    *)
(***************************************************************************)
EXTENDS Naturals, Sequences, FiniteSets

CONSTANTS
  Files,       \* source files that match the language and no exclude
  Dirs,        \* directories directly below the root
  DirOf,       \* DirOf[f]: the directory of f, or Root
  Root,        \* the project's root, which exists and is watched
  Texts,       \* contents a file may have
  NoText,      \* the content of a file that does not exist
  Others,      \* sessions that have subscribed and never receive
  Drained,     \* the session with a runEventLoop, which has not subscribed yet
  Buffer,      \* capacity of a subscriber's channel (64 in the code)
  MaxChanges   \* bound: changes made to the disk

ASSUME WatcherAssumption ==
  /\ IsFiniteSet(Files)
  /\ DirOf \in [Files -> Dirs \cup {Root}]
  /\ Root \notin Dirs
  /\ Files \cap Dirs = {}
  /\ NoText \notin Texts
  /\ Drained \notin Others
  /\ Buffer \in Nat \ {0}
  /\ MaxChanges \in Nat

VARIABLES
  life,       \* life[d]: what happened to directory d so far
  text,       \* text[f]: the content of f on disk
  changes,    \* changes made so far
  inotify,    \* directories with an inotify watch
  raw,        \* fsw.Events
  watched,    \* w.watched
  subs,       \* w.subs
  closed,     \* w.closed
  fswOpen,    \* fsw.Close has not been called
  run,        \* control of the goroutine run
  stop,       \* control of Stop, with the subscribers it has taken
  chan,       \* the buffer of Drained's channel
  backlog,    \* backlog[s]: how full the buffer of another subscriber is
  shut,       \* subscribers whose channel is closed
  dropped,    \* an event for Drained was dropped
  panicked    \* something was sent on a closed channel

diskVars    == <<life, text, changes, inotify>>
stopVars    == <<closed, fswOpen, stop, shut>>
channelVars == <<chan, backlog, dropped, panicked>>
watcherVars == <<life, text, changes, inotify, raw, watched, subs, closed, fswOpen, run,
                 stop, chan, backlog, shut, dropped, panicked>>

Subscribers == Others \cup {Drained}

Event == [op : {"create", "modify", "delete"}, path : Files \cup Dirs]

E(op, path) == [op |-> op, path |-> path]

\* "again" and "lost": created a second time, and removed after that.
Lives == {"old", "none", "new", "gone", "again", "lost"}

Exists(d) == d # Root => life[d] \in {"old", "new", "again"}

WatcherTypeOK ==
  /\ life \in [Dirs -> Lives]
  /\ text \in [Files -> Texts \cup {NoText}]
  /\ changes \in 0..MaxChanges
  /\ inotify \in SUBSET Dirs
  /\ raw \in Seq(Event)
  /\ watched \in SUBSET Dirs
  /\ subs \in SUBSET Subscribers
  /\ closed \in BOOLEAN
  /\ fswOpen \in BOOLEAN
  /\ run \in [pc : {"select", "add", "list", "publish", "send", "exited"},
              outbox : Seq(Event), to : SUBSET Subscribers]
  /\ stop \in [pc : {"no", "marked", "closing", "stopped"}, taken : SUBSET Subscribers]
  /\ chan \in Seq(Event) /\ Len(chan) <= Buffer
  /\ backlog \in [Others -> 0..Buffer]
  /\ shut \in SUBSET Subscribers
  /\ dropped \in BOOLEAN
  /\ panicked \in BOOLEAN

WatcherInit ==
  /\ life \in [Dirs -> {"old", "none"}]
  /\ text \in {t \in [Files -> Texts \cup {NoText}] :
                 \A f \in Files : ~Exists(DirOf[f]) => t[f] = NoText}
  /\ changes = 0
  /\ inotify = {d \in Dirs : Exists(d)}
  /\ raw = <<>>
  /\ watched = inotify
  /\ subs = Others
  /\ closed = FALSE
  /\ fswOpen = TRUE
  /\ run = [pc |-> "select", outbox |-> <<>>, to |-> {}]
  /\ stop = [pc |-> "no", taken |-> {}]
  /\ chan = <<>>
  /\ backlog = [s \in Others |-> 0]
  /\ shut = {}
  /\ dropped = FALSE
  /\ panicked = FALSE

-----------------------------------------------------------------------------
\* The disk, and what fsnotify reports of it (external).

Notify(d, e) ==
  /\ changes < MaxChanges
  /\ changes' = changes + 1
  /\ raw' = IF d \in inotify \cup {Root} /\ fswOpen THEN Append(raw, e) ELSE raw

Save(f) ==
  /\ Exists(DirOf[f])
  /\ \E t \in Texts \ {text[f]} : text' = [text EXCEPT ![f] = t]
  /\ Notify(DirOf[f], E(IF text[f] = NoText THEN "create" ELSE "modify", f))
  /\ UNCHANGED <<life, inotify, watched, subs, run, stopVars, channelVars>>

Delete(f) ==
  /\ text[f] # NoText
  /\ text' = [text EXCEPT ![f] = NoText]
  /\ Notify(DirOf[f], E("delete", f))
  /\ UNCHANGED <<life, inotify, watched, subs, run, stopVars, channelVars>>

MakeDir(d) ==
  /\ life[d] \in {"none", "gone"}
  /\ life' = [life EXCEPT ![d] = IF @ = "none" THEN "new" ELSE "again"]
  /\ Notify(Root, E("create", d))
  /\ UNCHANGED <<text, inotify, watched, subs, run, stopVars, channelVars>>

\* rm -r: the files have gone before.
RemoveDir(d) ==
  /\ Exists(d)
  /\ \A f \in Files : DirOf[f] = d => text[f] = NoText
  /\ life' = [life EXCEPT ![d] = IF @ = "again" THEN "lost" ELSE "gone"]
  /\ inotify' = inotify \ {d}
  /\ Notify(Root, E("delete", d))
  /\ UNCHANGED <<text, watched, subs, run, stopVars, channelVars>>

DiskStep ==
  \/ \E f \in Files : Save(f) \/ Delete(f)
  \/ \E d \in Dirs : MakeDir(d) \/ RemoveDir(d)

-----------------------------------------------------------------------------
\* run, handle and handleNewDir.

\* handle: the create of what os.Stat finds to be a directory starts
\* handleNewDir, with the directory's event waiting in the outbox; any other
\* event is published.
Handle ==
  /\ run.pc = "select"
  /\ raw # <<>>
  /\ raw' = Tail(raw)
  /\ LET e == Head(raw)
         newDir == e.op = "create" /\ e.path \in Dirs /\ Exists(e.path)
     IN run' = [pc |-> IF newDir THEN "add" ELSE "publish", outbox |-> <<e>>, to |-> {}]
  /\ UNCHANGED <<diskVars, watched, subs, stopVars, channelVars>>

\* addDir, under w.mu: a directory that w.watched holds is not added again;
\* fsw.Add fails if the directory has gone or fsw is closed.
AddDir ==
  /\ run.pc = "add"
  /\ LET d == Head(run.outbox).path
         added == IF ~closed /\ d \notin watched /\ Exists(d) /\ fswOpen THEN {d} ELSE {}
     IN /\ watched' = watched \cup added
        /\ inotify' = inotify \cup added
  /\ run' = [run EXCEPT !.pc = "list"]
  /\ UNCHANGED <<life, text, changes, raw, subs, stopVars, channelVars>>

\* Mutant: only what is created from now on is noticed.
NoFiles(d) == {}

FilesIn(d) == {f \in Files : DirOf[f] = d /\ text[f] # NoText}

\* The walk goes on to the directory's files, which it reads all at once.
ListDir ==
  /\ run.pc = "list"
  /\ LET found == FilesIn(Head(run.outbox).path)
     IN \E order \in {s \in [1..Cardinality(found) -> found] :
                        \A i, j \in DOMAIN s : s[i] = s[j] => i = j} :
          run' = [pc |-> "publish", to |-> {},
                  outbox |-> [i \in DOMAIN order |-> E("create", order[i])]]
  /\ UNCHANGED <<diskVars, raw, watched, subs, stopVars, channelVars>>

\* publish copies w.subs under w.mu, unless w.closed, ...
Publish ==
  /\ run.pc = "publish"
  /\ run' = IF run.outbox = <<>> THEN [run EXCEPT !.pc = "select"]
            ELSE IF closed THEN [run EXCEPT !.outbox = Tail(@)]
            ELSE [pc |-> "send", outbox |-> run.outbox, to |-> subs]
  /\ UNCHANGED <<diskVars, raw, watched, subs, stopVars, channelVars>>

\* Mutant: one more than the buffer holds.
RoomForOneMore(n) == n <= Buffer

HasRoom(n) == n < Buffer

\* ... and then sends to each, without blocking: a full buffer drops the event.
Send(s) ==
  /\ run.pc = "send"
  /\ s \in run.to
  /\ run' = [run EXCEPT !.to = @ \ {s}]
  /\ panicked' = (panicked \/ s \in shut)
  /\ IF s = Drained
       THEN /\ chan' = IF HasRoom(Len(chan)) THEN Append(chan, Head(run.outbox)) ELSE chan
            /\ dropped' = (dropped \/ ~HasRoom(Len(chan)))
            /\ UNCHANGED backlog
       ELSE /\ backlog' = [backlog EXCEPT ![s] = IF HasRoom(@) THEN @ + 1 ELSE @]
            /\ UNCHANGED <<chan, dropped>>
  /\ UNCHANGED <<diskVars, raw, watched, subs, stopVars>>

SendsDone ==
  /\ run.pc = "send"
  /\ run.to = {}
  /\ run' = [pc |-> "publish", outbox |-> Tail(run.outbox), to |-> {}]
  /\ UNCHANGED <<diskVars, raw, watched, subs, stopVars, channelVars>>

\* fsw.Events is closed: what fsnotify has not delivered is lost.
RunExits ==
  /\ run.pc = "select"
  /\ ~fswOpen
  /\ run' = [run EXCEPT !.pc = "exited"]
  /\ UNCHANGED <<diskVars, raw, watched, subs, stopVars, channelVars>>

RunStep ==
  \/ Handle
  \/ AddDir
  \/ ListDir
  \/ Publish
  \/ \E s \in Subscribers : Send(s)
  \/ SendsDone
  \/ RunExits

-----------------------------------------------------------------------------
\* Subscribe: after Stop it returns a closed channel.
Subscribe(s) ==
  /\ subs' = IF closed THEN subs ELSE subs \cup {s}
  /\ shut' = IF closed THEN shut \cup {s} ELSE shut
  /\ UNCHANGED <<diskVars, raw, watched, closed, fswOpen, run, stop, channelVars>>

\* Mutants: the channels are closed without waiting for run; fsw is not closed.
CloseAtOnce ==
  /\ stop.pc = "closing"
  /\ stop' = [stop EXCEPT !.pc = "stopped"]
  /\ shut' = shut \cup stop.taken
  /\ UNCHANGED <<diskVars, raw, watched, subs, closed, fswOpen, run, channelVars>>

FswLeftOpen ==
  /\ stop.pc = "marked"
  /\ stop' = [stop EXCEPT !.pc = "closing"]
  /\ UNCHANGED <<diskVars, raw, watched, subs, closed, fswOpen, run, shut, channelVars>>

\* Stop takes the subscribers under w.mu, ...
StopMarks ==
  /\ stop.pc = "no"
  /\ stop' = [pc |-> "marked", taken |-> subs]
  /\ closed' = TRUE
  /\ subs' = {}
  /\ UNCHANGED <<diskVars, raw, watched, fswOpen, run, shut, channelVars>>

\* ... closes fsw, ...
StopClosesFsw ==
  /\ stop.pc = "marked"
  /\ stop' = [stop EXCEPT !.pc = "closing"]
  /\ fswOpen' = FALSE
  /\ UNCHANGED <<diskVars, raw, watched, subs, closed, run, shut, channelVars>>

\* ... waits for run to exit, and only then closes the channels.
StopClosesChannels ==
  /\ stop.pc = "closing"
  /\ run.pc = "exited"
  /\ stop' = [stop EXCEPT !.pc = "stopped"]
  /\ shut' = shut \cup stop.taken
  /\ UNCHANGED <<diskVars, raw, watched, subs, closed, fswOpen, run, channelVars>>

StopStep == StopClosesFsw \/ StopClosesChannels
=============================================================================
