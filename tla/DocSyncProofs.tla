---------------------------- MODULE DocSyncProofs ----------------------------
(***************************************************************************)
(* Proofs about DocSync and the Watcher it is built on, for any files,     *)
(* directories, subscribers, buffer sizes and number of changes.           *)
(***************************************************************************)
EXTENDS DocSync, FiniteSetTheorems, TLAPS

USE WatcherAssumption

\* What run has in hand at each point of its control.
RunShape ==
  /\ run.pc \in {"add", "list"} => run.outbox # <<>> /\ Head(run.outbox).path \in Dirs
  /\ run.pc = "send" => run.outbox # <<>>
  /\ run.pc # "send" => run.to = {}

\* A channel that may still be sent to is open: it is closed after run has exited,
\* or because its subscriber came after Stop, when subs is no longer copied.
ChannelsOpen ==
  /\ closed <=> stop.pc # "no"
  /\ closed => subs = {}
  /\ stop.pc = "stopped" => run.pc = "exited"
  /\ pc = "spawned" => Drained \notin subs \cup run.to \cup shut \cup stop.taken
  /\ (run.to \cup subs) \cap shut = {}
  /\ ~panicked

\* A notification on its way fits the open set it was decided on.
WorkFits ==
  /\ work.do \in {"open", "change"} => work.text # NoText
  /\ work.do = "close" => work.text = NoText
  /\ work.do = "change" /\ down = "no" => work.file \in opened

OpenSetKept == down = "no" => \A f \in Files : f \in opened <=> docs[f] # NoText

IInv ==
  /\ TypeOK
  /\ RunShape
  /\ ChannelsOpen
  /\ WorkFits
  /\ OpenSetKept

RunType == [pc : {"select", "add", "list", "publish", "send", "exited"},
            outbox : Seq(Event), to : SUBSET Subscribers]

-----------------------------------------------------------------------------
\* The files of a directory can be listed in an order: there are finitely many.
LEMMA ListIsASequence ==
  ASSUME NEW d, NEW order \in [1..Cardinality(FilesIn(d)) -> FilesIn(d)]
  PROVE  [i \in DOMAIN order |-> E("create", order[i])] \in Seq(Event)
<1>1. FilesIn(d) \subseteq Files
  BY DEF FilesIn
<1>2. Cardinality(FilesIn(d)) \in Nat
  BY <1>1, FS_Subset, FS_CardinalityType
<1>3. \A i \in DOMAIN order : E("create", order[i]) \in Event
  BY <1>1 DEF E, Event
<1> QED
  BY <1>2, <1>3

LEMMA IInvInit == Init => IInv
<1> SUFFICES ASSUME Init
             PROVE  IInv
  OBVIOUS
<1> USE DEF Init, WatcherInit
<1>1. TypeOK
  <2>1. run \in RunType
    BY DEF RunType
  <2>2. life \in [Dirs -> Lives] /\ text \in [Files -> Texts \cup {NoText}]
    BY DEF Lives
  <2>3. inotify \in SUBSET Dirs /\ watched \in SUBSET Dirs /\ subs \in SUBSET Subscribers
    BY DEF Subscribers
  <2>4. /\ chan \in Seq(Event) /\ Len(chan) <= Buffer /\ raw \in Seq(Event)
        /\ backlog \in [Others -> 0..Buffer] /\ changes \in 0..MaxChanges
    OBVIOUS
  <2>5. docs \in [Files -> Texts \cup {NoText}]
    OBVIOUS
  <2> QED
    BY <2>1, <2>2, <2>3, <2>4, <2>5 DEF TypeOK, WatcherTypeOK, RunType
<1>2. RunShape /\ ChannelsOpen /\ WorkFits /\ OpenSetKept
  BY DEF RunShape, ChannelsOpen, WorkFits, NoWork, OpenSetKept
<1> QED
  BY <1>1, <1>2 DEF IInv

\* A change on disk reaches run and the session only through fsw.Events.
LEMMA DiskKeeps == ASSUME IInv, DiskStep, UNCHANGED sessionVars PROVE IInv'
<1> USE DEF IInv, sessionVars, stopVars, channelVars
<1>1. /\ UNCHANGED <<watched, subs, run, closed, fswOpen, stop, shut, chan, backlog,
                     dropped, panicked>>
  BY DEF DiskStep, Save, Delete, MakeDir, RemoveDir
<1>2. \A d, e : Notify(d, e) /\ e \in Event =>
     raw' \in Seq(Event) /\ changes' \in 0..MaxChanges
  BY DEF Notify, TypeOK, WatcherTypeOK
<1>3. WatcherTypeOK'
  <2>1. ASSUME NEW f \in Files, Save(f)
        PROVE  WatcherTypeOK'
    <3>1. E(IF text[f] = NoText THEN "create" ELSE "modify", f) \in Event
      BY DEF E, Event
    <3>2. raw' \in Seq(Event) /\ changes' \in 0..MaxChanges
      BY <1>2, <2>1, <3>1 DEF Save
    <3> QED
      BY <1>1, <2>1, <3>2 DEF Save, TypeOK, WatcherTypeOK
  <2>2. ASSUME NEW f \in Files, Delete(f)
        PROVE  WatcherTypeOK'
    <3>1. E("delete", f) \in Event
      BY DEF E, Event
    <3>2. raw' \in Seq(Event) /\ changes' \in 0..MaxChanges
      BY <1>2, <2>2, <3>1 DEF Delete
    <3> QED
      BY <1>1, <2>2, <3>2 DEF Delete, TypeOK, WatcherTypeOK
  <2>3. ASSUME NEW d \in Dirs, MakeDir(d)
        PROVE  WatcherTypeOK'
    <3>1. E("create", d) \in Event
      BY DEF E, Event
    <3>2. raw' \in Seq(Event) /\ changes' \in 0..MaxChanges
      BY <1>2, <2>3, <3>1 DEF MakeDir
    <3> QED
      BY <1>1, <2>3, <3>2 DEF MakeDir, TypeOK, WatcherTypeOK, Lives
  <2>4. ASSUME NEW d \in Dirs, RemoveDir(d)
        PROVE  WatcherTypeOK'
    <3>1. E("delete", d) \in Event
      BY DEF E, Event
    <3>2. raw' \in Seq(Event) /\ changes' \in 0..MaxChanges
      BY <1>2, <2>4, <3>1 DEF RemoveDir
    <3> QED
      BY <1>1, <2>4, <3>2 DEF RemoveDir, TypeOK, WatcherTypeOK, Lives
  <2> QED
    BY <2>1, <2>2, <2>3, <2>4 DEF DiskStep
<1>4. TypeOK'
  BY <1>3 DEF TypeOK
<1>5. RunShape' /\ ChannelsOpen' /\ WorkFits' /\ OpenSetKept'
  BY <1>1 DEF RunShape, ChannelsOpen, WorkFits, OpenSetKept
<1> QED
  BY <1>4, <1>5

\* run is a record of three fields: what an assignment to some of them leaves.
LEMMA RunUpdate ==
  ASSUME NEW r \in RunType, NEW p, NEW o, NEW t
  PROVE  /\ [r EXCEPT !.pc = p] = [pc |-> p, outbox |-> r.outbox, to |-> r.to]
         /\ [r EXCEPT !.outbox = o] = [pc |-> r.pc, outbox |-> o, to |-> r.to]
         /\ [r EXCEPT !.to = t] = [pc |-> r.pc, outbox |-> r.outbox, to |-> t]
BY DEF RunType

\* A step of run that touches nothing but run itself.
LEMMA RunAlone ==
  ASSUME IInv, run' \in RunType, RunShape', run'.to \subseteq run.to \cup subs,
         run.pc = "exited" => run'.pc = "exited",
         UNCHANGED <<diskVars, raw, watched, subs, stopVars, channelVars, sessionVars>>
  PROVE  IInv'
<1> USE DEF IInv, sessionVars, diskVars, stopVars, channelVars
<1>1. TypeOK'
  BY DEF TypeOK, WatcherTypeOK, RunType
<1>2. ChannelsOpen'
  BY DEF ChannelsOpen
<1>3. WorkFits' /\ OpenSetKept'
  BY DEF WorkFits, OpenSetKept
<1> QED
  BY <1>1, <1>2, <1>3

LEMMA RunKeeps == ASSUME IInv, RunStep, UNCHANGED sessionVars PROVE IInv'
<1>1. /\ run \in RunType /\ run.outbox \in Seq(Event) /\ run.to \in SUBSET Subscribers
      /\ run.pc \in {"select", "add", "list", "publish", "send", "exited"}
  BY DEF IInv, TypeOK, WatcherTypeOK, RunType
<1>2. WorkFits' /\ OpenSetKept'
  BY DEF IInv, sessionVars, WorkFits, OpenSetKept
<1>3. ASSUME Handle
      PROVE  IInv'
  <2>1. Head(raw) \in Event /\ raw' \in Seq(Event) /\ <<Head(raw)>> \in Seq(Event)
    BY <1>3 DEF Handle, IInv, TypeOK, WatcherTypeOK
  <2>2. PICK p \in {"add", "publish"} :
          /\ run' = [pc |-> p, outbox |-> <<Head(raw)>>, to |-> {}]
          /\ p = "add" => Head(raw).path \in Dirs
    BY <1>3 DEF Handle
  <2>3. run' \in RunType /\ RunShape' /\ run'.to = run.to
    <3>1. run.to = {}
      BY <1>3 DEF Handle, IInv, RunShape
    <3>2. run'.outbox = <<Head(raw)>> /\ run'.to = {} /\ run'.pc = p
      BY <2>2
    <3>3. run'.outbox # <<>> /\ Head(run'.outbox) = Head(raw)
      BY <3>2
    <3> QED
      BY <2>1, <2>2, <3>1, <3>2, <3>3 DEF RunType, RunShape
  <2>4. TypeOK'
    BY <1>3, <2>1, <2>3 DEF Handle, diskVars, stopVars, channelVars, sessionVars, IInv,
       TypeOK, WatcherTypeOK, RunType
  <2>5. ChannelsOpen'
    BY <1>3, <2>3 DEF Handle, diskVars, stopVars, channelVars, sessionVars, IInv,
       ChannelsOpen
  <2> QED
    BY <1>2, <2>3, <2>4, <2>5 DEF IInv
<1>4. ASSUME AddDir
      PROVE  IInv'
  <2>1. watched' \in SUBSET Dirs /\ inotify' \in SUBSET Dirs
    BY <1>4 DEF AddDir, IInv, RunShape, TypeOK, WatcherTypeOK
  <2>2. run' = [pc |-> "list", outbox |-> run.outbox, to |-> run.to]
    BY <1>1, <1>4, RunUpdate DEF AddDir
  <2>3. run' \in RunType /\ RunShape' /\ run'.to = run.to
    BY <1>1, <1>4, <2>2 DEF RunType, RunShape, IInv, AddDir
  <2>4. UNCHANGED <<life, text, changes, raw, subs, stopVars, channelVars>>
    BY <1>4 DEF AddDir
  <2>5. TypeOK'
    BY <2>1, <2>3, <2>4 DEF stopVars, channelVars, sessionVars, IInv, TypeOK,
       WatcherTypeOK, RunType
  <2>6. ChannelsOpen'
    BY <1>4, <2>3, <2>4 DEF AddDir, stopVars, channelVars, sessionVars, IInv, ChannelsOpen
  <2> QED
    BY <1>2, <2>3, <2>5, <2>6 DEF IInv
<1>5. ASSUME ListDir
      PROVE  IInv'
  <2>1. PICK list \in Seq(Event) : run' = [pc |-> "publish", to |-> {}, outbox |-> list]
    BY <1>5, ListIsASequence, ZenonT(30) DEF ListDir
  <2>2. run' \in RunType /\ RunShape' /\ run'.to = {} /\ run.pc # "exited"
    BY <1>5, <2>1 DEF RunType, RunShape, ListDir
  <2> QED
    BY <1>5, <2>2, RunAlone DEF ListDir
<1>6. ASSUME Publish
      PROVE  IInv'
  <2> run.pc = "publish" /\ run.to = {}
    BY <1>6 DEF Publish, IInv, RunShape
  <2>1. CASE run.outbox = <<>>
    <3>1. run' = [pc |-> "select", outbox |-> run.outbox, to |-> run.to]
      BY <1>1, <1>6, <2>1, RunUpdate DEF Publish
    <3>2. run' \in RunType /\ RunShape' /\ run'.to = run.to
      BY <1>1, <3>1 DEF RunType, RunShape
    <3> QED
      BY <1>6, <3>2, RunAlone DEF Publish
  <2>2. CASE run.outbox # <<>> /\ closed
    <3>1. run' = [pc |-> "publish", outbox |-> Tail(run.outbox), to |-> run.to]
      BY <1>1, <1>6, <2>2, RunUpdate DEF Publish
    <3>2. run' \in RunType /\ RunShape' /\ run'.to = run.to
      BY <1>1, <2>2, <3>1 DEF RunType, RunShape
    <3> QED
      BY <1>6, <3>2, RunAlone DEF Publish
  <2>3. CASE run.outbox # <<>> /\ ~closed
    <3>1. run' = [pc |-> "send", outbox |-> run.outbox, to |-> subs]
      BY <1>6, <2>3 DEF Publish
    <3>2. run' \in RunType /\ RunShape' /\ run'.to = subs
      BY <1>1, <2>3, <3>1 DEF RunType, RunShape, IInv, TypeOK, WatcherTypeOK
    <3> QED
      BY <1>6, <3>2, RunAlone DEF Publish
  <2> QED
    BY <2>1, <2>2, <2>3
<1>7. ASSUME NEW s \in Subscribers, Send(s)
      PROVE  IInv'
  <2>1. run' = [pc |-> "send", outbox |-> run.outbox, to |-> run.to \ {s}]
    BY <1>1, <1>7, RunUpdate DEF Send
  <2>2. run' \in RunType /\ RunShape' /\ run'.to \subseteq run.to
    BY <1>1, <1>7, <2>1 DEF RunType, RunShape, IInv, Send
  <2>3. panicked' = FALSE
    BY <1>7 DEF Send, IInv, ChannelsOpen
  <2>4. Head(run.outbox) \in Event
    BY <1>1, <1>7 DEF Send, IInv, RunShape
  <2>5. chan' = chan \/ (Len(chan) < Buffer /\ chan' = Append(chan, Head(run.outbox)))
    BY <1>7 DEF Send, HasRoom
  <2>6. chan' \in Seq(Event) /\ Len(chan') <= Buffer
    <3>1. chan \in Seq(Event) /\ Len(chan) <= Buffer
      BY DEF IInv, TypeOK, WatcherTypeOK
    <3>2. /\ Append(chan, Head(run.outbox)) \in Seq(Event)
          /\ Len(Append(chan, Head(run.outbox))) = Len(chan) + 1 /\ Len(chan) \in Nat
      BY <2>4, <3>1
    <3> QED
      BY <2>5, <3>1, <3>2
  <2>7. backlog' \in [Others -> 0..Buffer]
    <3>1. backlog \in [Others -> 0..Buffer]
      BY DEF IInv, TypeOK, WatcherTypeOK
    <3>2. CASE s = Drained
      BY <1>7, <3>1, <3>2 DEF Send
    <3>3. CASE s \in Others
      <4>1. (IF HasRoom(backlog[s]) THEN backlog[s] + 1 ELSE backlog[s]) \in 0..Buffer
        BY <3>1, <3>3 DEF HasRoom
      <4>2. backlog' = [backlog EXCEPT ![s] = IF HasRoom(backlog[s]) THEN backlog[s] + 1
                                              ELSE backlog[s]]
        BY <1>7, <3>3 DEF Send
      <4> QED
        BY <3>1, <4>1, <4>2
    <3> QED
      BY <3>2, <3>3 DEF Subscribers
  <2>8. dropped' \in BOOLEAN
    BY <1>7 DEF Send, IInv, TypeOK, WatcherTypeOK
  <2>9. UNCHANGED <<diskVars, raw, watched, subs, stopVars>>
    BY <1>7 DEF Send
  <2>10. TypeOK'
    <3>1. /\ life' \in [Dirs -> Lives] /\ text' \in [Files -> Texts \cup {NoText}]
          /\ changes' \in 0..MaxChanges
          /\ inotify' \in SUBSET Dirs /\ watched' \in SUBSET Dirs
          /\ raw' \in Seq(Event) /\ subs' \in SUBSET Subscribers
      BY <2>9 DEF diskVars, IInv, TypeOK, WatcherTypeOK
    <3>2. /\ closed' \in BOOLEAN /\ fswOpen' \in BOOLEAN /\ shut' \in SUBSET Subscribers
          /\ stop' \in [pc : {"no", "marked", "closing", "stopped"}, taken : SUBSET Subscribers]
      BY <2>9 DEF stopVars, IInv, TypeOK, WatcherTypeOK
    <3>3. WatcherTypeOK'
      BY <2>2, <2>3, <2>6, <2>7, <2>8, <3>1, <3>2 DEF WatcherTypeOK, RunType
    <3> QED
      BY <3>3 DEF sessionVars, IInv, TypeOK
  <2>11. ChannelsOpen'
    BY <1>7, <2>2, <2>3, <2>9 DEF Send, stopVars, sessionVars, IInv, ChannelsOpen
  <2> QED
    BY <1>2, <2>2, <2>10, <2>11 DEF IInv
<1>8. ASSUME SendsDone
      PROVE  IInv'
  <2>1. run' = [pc |-> "publish", outbox |-> Tail(run.outbox), to |-> {}]
    BY <1>8 DEF SendsDone
  <2>2. Tail(run.outbox) \in Seq(Event)
    BY <1>1, <1>8 DEF SendsDone, IInv, RunShape
  <2>3. run' \in RunType /\ RunShape' /\ run'.to = {}
    BY <2>1, <2>2 DEF RunType, RunShape
  <2> QED
    BY <1>8, <2>3, RunAlone DEF SendsDone
<1>9. ASSUME RunExits
      PROVE  IInv'
  <2>1. run' = [pc |-> "exited", outbox |-> run.outbox, to |-> run.to]
    BY <1>1, <1>9, RunUpdate DEF RunExits
  <2>2. run' \in RunType /\ RunShape' /\ run'.to = run.to /\ run'.pc = "exited"
    BY <1>1, <1>9, <2>1 DEF RunType, RunShape, IInv, RunExits
  <2> QED
    BY <1>9, <2>2, RunAlone DEF RunExits
<1> QED
  BY <1>3, <1>4, <1>5, <1>6, <1>7, <1>8, <1>9 DEF RunStep

LEMMA StopKeeps == ASSUME IInv, StopMarks \/ StopStep, UNCHANGED sessionVars PROVE IInv'
<1>1. /\ stop.pc \in {"no", "marked", "closing", "stopped"}
      /\ stop.taken \in SUBSET Subscribers
      /\ stop = [pc |-> stop.pc, taken |-> stop.taken]
  BY DEF IInv, TypeOK, WatcherTypeOK
<1>2. /\ UNCHANGED <<diskVars, raw, watched, run, channelVars, sessionVars>>
      /\ subs' = subs \/ subs' = {}
      /\ closed' \in BOOLEAN /\ fswOpen' \in BOOLEAN
      /\ shut' \in SUBSET Subscribers
      /\ \/ stop' = [pc |-> "marked", taken |-> subs]
         \/ stop' = [pc |-> "closing", taken |-> stop.taken]
         \/ stop' = [pc |-> "stopped", taken |-> stop.taken]
  BY <1>1 DEF StopMarks, StopStep, StopClosesFsw, StopClosesChannels, IInv, TypeOK,
     WatcherTypeOK
<1>3. TypeOK'
  <2>1. stop' \in [pc : {"no", "marked", "closing", "stopped"}, taken : SUBSET Subscribers]
    BY <1>1, <1>2 DEF IInv, TypeOK, WatcherTypeOK
  <2> QED
    BY <1>2, <2>1 DEF diskVars, channelVars, sessionVars, IInv, TypeOK, WatcherTypeOK
<1>4. RunShape' /\ WorkFits' /\ OpenSetKept'
  BY <1>2 DEF sessionVars, IInv, RunShape, WorkFits, OpenSetKept
<1>5. ChannelsOpen'
  <2> USE DEF IInv, sessionVars, channelVars
  <2>1. CASE StopMarks
    BY <1>2, <2>1 DEF StopMarks, ChannelsOpen
  <2>2. CASE StopClosesFsw
    <3>1. stop'.pc = "closing" /\ stop'.taken = stop.taken
      BY <1>1, <2>2 DEF StopClosesFsw
    <3> QED
      BY <1>2, <2>2, <3>1 DEF StopClosesFsw, ChannelsOpen
  <2>3. CASE StopClosesChannels
    <3>1. /\ run.to = {} /\ subs = {} /\ closed /\ run.pc = "exited"
          /\ stop'.pc = "stopped"
      BY <1>1, <2>3 DEF StopClosesChannels, RunShape, ChannelsOpen
    <3>2. stop'.taken = stop.taken
      BY <1>1, <2>3 DEF StopClosesChannels
    <3> QED
      BY <1>2, <2>3, <3>1, <3>2 DEF StopClosesChannels, ChannelsOpen
  <2> QED
    BY <2>1, <2>2, <2>3 DEF StopStep
<1> QED
  BY <1>3, <1>4, <1>5 DEF IInv

LEMMA SessionKeeps == ASSUME IInv, SessionStep PROVE IInv'
<1> USE DEF IInv, watcherVars
<1>1. ASSUME SubscribeDrained
      PROVE  IInv'
  <2> USE <1>1 DEF SubscribeDrained, Subscribe, diskVars, channelVars
  <2>1. TypeOK'
    BY DEF TypeOK, WatcherTypeOK, Subscribers
  <2>2. ChannelsOpen'
    BY DEF ChannelsOpen
  <2>3. RunShape' /\ WorkFits' /\ OpenSetKept'
    BY DEF RunShape, WorkFits, OpenSetKept
  <2> QED
    BY <2>1, <2>2, <2>3
<1>2. ASSUME WalkFiles \/ (\E f \in Files : PreloadRead(f)) \/ PreloadDone \/ LoopEnds
      PROVE  IInv'
  <2>1. /\ UNCHANGED <<watcherVars, opened, docs, down>>
        /\ pc # "spawned" /\ pc' \in {"preload", "loop", "ended"}
        /\ todo' \in SUBSET Files
    BY <1>2 DEF WalkFiles, PreloadRead, PreloadDone, LoopEnds, TypeOK
  <2>2. \/ work' = work \/ work' = NoWork
        \/ \E f \in Files : text[f] # NoText
                            /\ work' = [do |-> "open", file |-> f, text |-> text[f]]
    BY <1>2 DEF WalkFiles, PreloadRead, PreloadDone, LoopEnds
  <2>3. TypeOK'
    BY <2>1, <2>2 DEF TypeOK, WatcherTypeOK
  <2>4. WorkFits'
    BY <2>1, <2>2 DEF WorkFits, NoWork
  <2>5. RunShape' /\ ChannelsOpen' /\ OpenSetKept'
    BY <2>1 DEF RunShape, ChannelsOpen, OpenSetKept
  <2> QED
    BY <2>3, <2>4, <2>5
<1>3. ASSUME TakeEvent
      PROVE  IInv'
  <2>1. /\ chan' = Tail(chan) /\ chan # <<>>
        /\ UNCHANGED <<life, text, changes, inotify, raw, watched, subs, closed, fswOpen,
                       stop, shut, run, backlog, dropped, panicked, pc, todo, opened, docs,
                       down>>
    BY <1>3 DEF TakeEvent, diskVars, stopVars
  <2>2. \/ work' = NoWork
        \/ \E f \in Files :
             \/ work' = [do |-> "close", file |-> f, text |-> NoText]
             \/ text[f] # NoText /\ f \in opened
                /\ work' = [do |-> "change", file |-> f, text |-> text[f]]
             \/ text[f] # NoText /\ work' = [do |-> "open", file |-> f, text |-> text[f]]
    BY <1>3 DEF TakeEvent
  <2>3. chan' \in Seq(Event) /\ Len(chan') <= Buffer
    BY <2>1 DEF TypeOK, WatcherTypeOK
  <2>4. work' \in {NoWork} \cup [do : {"open", "change", "close"}, file : Files,
                                 text : Texts \cup {NoText}]
    BY <2>2 DEF TypeOK, WatcherTypeOK
  <2>5. TypeOK'
    BY <2>1, <2>3, <2>4 DEF TypeOK, WatcherTypeOK
  <2>6. WorkFits'
    BY <2>1, <2>2 DEF WorkFits, NoWork
  <2>7. RunShape' /\ ChannelsOpen' /\ OpenSetKept'
    BY <2>1 DEF RunShape, ChannelsOpen, OpenSetKept
  <2> QED
    BY <2>5, <2>6, <2>7
<1>4. ASSUME Notification
      PROVE  IInv'
  <2>1. /\ UNCHANGED <<watcherVars, pc, todo, down>> /\ work' = NoWork
        /\ opened' = OpenSet(work)
        /\ docs' = IF down = "done" \/ (work.do = "change" /\ docs[work.file] = NoText)
                     THEN docs ELSE [docs EXCEPT ![work.file] = work.text]
    BY <1>4 DEF Notification
  <2>2. /\ work.do \in {"open", "change", "close"} /\ work.file \in Files
        /\ work.text \in Texts \cup {NoText}
    BY <1>4 DEF Notification, TypeOK
  <2>3. opened' \in SUBSET Files /\ docs' \in [Files -> Texts \cup {NoText}]
    BY <2>1, <2>2 DEF OpenSet, TypeOK
  <2>4. TypeOK'
    BY <2>1, <2>3 DEF TypeOK, WatcherTypeOK
  <2>5. OpenSetKept'
    <3>1. CASE work.do = "open"
      BY <2>1, <2>2, <3>1 DEF OpenSetKept, WorkFits, OpenSet, TypeOK
    <3>2. CASE work.do = "close"
      BY <2>1, <2>2, <3>2 DEF OpenSetKept, WorkFits, OpenSet, TypeOK
    <3>3. CASE work.do = "change"
      BY <2>1, <2>2, <3>3 DEF OpenSetKept, WorkFits, OpenSet, TypeOK
    <3> QED
      BY <2>2, <3>1, <3>2, <3>3
  <2>6. RunShape' /\ ChannelsOpen' /\ WorkFits'
    BY <2>1 DEF RunShape, ChannelsOpen, WorkFits, NoWork
  <2> QED
    BY <2>4, <2>5, <2>6
<1> QED
  BY <1>1, <1>2, <1>3, <1>4 DEF SessionStep

LEMMA ShutdownKeeps == ASSUME IInv, ShutdownStep PROVE IInv'
<1> USE DEF IInv, watcherVars, ShutdownStep, ShutdownTakes, ShutdownCloses, ShutdownEnds
<1>1. UNCHANGED <<watcherVars, pc, work>> /\ down' # "no"
  OBVIOUS
<1>2. TypeOK'
  <2>1. WatcherTypeOK'
    BY <1>1 DEF TypeOK, WatcherTypeOK
  <2>2. /\ todo' \in SUBSET Files /\ opened' \in SUBSET Files
        /\ docs' \in [Files -> Texts \cup {NoText}] /\ down' \in {"no", "closing", "done"}
    BY DEF TypeOK
  <2> QED
    BY <1>1, <2>1, <2>2 DEF TypeOK
<1>3. RunShape' /\ ChannelsOpen' /\ WorkFits' /\ OpenSetKept'
  BY <1>1 DEF RunShape, ChannelsOpen, WorkFits, OpenSetKept
<1> QED
  BY <1>2, <1>3

LEMMA IInvStep == IInv /\ [Next]_vars => IInv'
<1> SUFFICES ASSUME IInv, [Next]_vars
             PROVE  IInv'
  OBVIOUS
<1>1. CASE DiskStep /\ UNCHANGED sessionVars
  BY <1>1, DiskKeeps
<1>2. CASE RunStep /\ UNCHANGED sessionVars
  BY <1>2, RunKeeps
<1>3. CASE (StopMarks \/ StopStep) /\ UNCHANGED sessionVars
  BY <1>3, StopKeeps
<1>4. CASE SessionStep
  BY <1>4, SessionKeeps
<1>5. CASE ShutdownStep
  BY <1>5, ShutdownKeeps
<1>6. CASE UNCHANGED vars
  BY <1>6 DEF IInv, vars, watcherVars, sessionVars, TypeOK, WatcherTypeOK, RunShape,
     ChannelsOpen, WorkFits, OpenSetKept
<1> QED
  BY <1>1, <1>2, <1>3, <1>4, <1>5, <1>6 DEF Next, Finished

LEMMA Invariance == Spec => []IInv
BY IInvInit, IInvStep, PTL DEF Spec

-----------------------------------------------------------------------------
\* FollowsDisk. A file is followed through the last event about it that has not been
\* handled: it says whether the file exists, and the text is read when it is handled.

\* A queue of events: does it concern f, does its last event about f fit what is on
\* disk, does it hold the create of a directory.
On(q, f) == \E i \in DOMAIN q : q[i].path = f

Fits(e, t) == e.op = "delete" <=> t = NoText

LastFits(q, f, t) ==
  \A i \in DOMAIN q :
    q[i].path = f /\ (\A j \in DOMAIN q : j > i => q[j].path # f) => Fits(q[i], t)

Made(q, d) == \E i \in DOMAIN q : q[i] = E("create", d)

LEMMA NoneOn == ASSUME NEW q, NEW f, NEW t, ~On(q, f) PROVE LastFits(q, f, t)
BY DEF On, LastFits

LEMMA EmptyQueue == \A f, d : ~On(<<>>, f) /\ ~Made(<<>>, d)
BY DEF On, Made

LEMMA OneEvent ==
  ASSUME NEW e, NEW f, NEW t
  PROVE  /\ On(<<e>>, f) <=> e.path = f
         /\ Fits(e, t) => LastFits(<<e>>, f, t)
BY DEF On, LastFits

\* A queue grows at its end, ...
LEMMA Appended ==
  ASSUME NEW q \in Seq(Event), NEW e \in Event, NEW f, NEW t
  PROVE  /\ On(Append(q, e), f) <=> On(q, f) \/ e.path = f
         /\ e.path = f /\ Fits(e, t) => LastFits(Append(q, e), f, t)
         /\ e.path # f /\ LastFits(q, f, t) => LastFits(Append(q, e), f, t)
<1> DEFINE v == Append(q, e)
<1>1. /\ Len(q) \in Nat /\ DOMAIN q = 1..Len(q) /\ DOMAIN v = 1..(Len(q) + 1)
      /\ v[Len(q) + 1] = e /\ \A i \in 1..Len(q) : v[i] = q[i]
  OBVIOUS
<1> HIDE DEF v
<1>2. On(v, f) <=> On(q, f) \/ e.path = f
  BY <1>1 DEF On
<1>3. e.path = f /\ Fits(e, t) => LastFits(v, f, t)
  BY <1>1 DEF LastFits
<1>4. e.path # f /\ LastFits(q, f, t) => LastFits(v, f, t)
  BY <1>1 DEF LastFits
<1> QED
  BY <1>2, <1>3, <1>4 DEF v

LEMMA MadeAppended ==
  ASSUME NEW q \in Seq(Event), NEW e \in Event, NEW d
  PROVE  Made(Append(q, e), d) <=> Made(q, d) \/ e = E("create", d)
<1> DEFINE v == Append(q, e)
<1>1. /\ Len(q) \in Nat /\ DOMAIN q = 1..Len(q) /\ DOMAIN v = 1..(Len(q) + 1)
      /\ v[Len(q) + 1] = e /\ \A i \in 1..Len(q) : v[i] = q[i]
  OBVIOUS
<1> HIDE DEF v
<1>2. Made(v, d) <=> Made(q, d) \/ e = E("create", d)
  BY <1>1 DEF Made
<1> QED
  BY <1>2 DEF v

\* ... and is handled from its front.
LEMMA Handled ==
  ASSUME NEW q \in Seq(Event), q # <<>>, NEW f, NEW t
  PROVE  /\ On(q, f) <=> Head(q).path = f \/ On(Tail(q), f)
         /\ LastFits(q, f, t) => LastFits(Tail(q), f, t)
         /\ LastFits(q, f, t) /\ Head(q).path = f /\ ~On(Tail(q), f) => Fits(Head(q), t)
<1> DEFINE v == Tail(q)
<1>1. /\ Len(q) \in Nat \ {0} /\ DOMAIN q = 1..Len(q) /\ DOMAIN v = 1..(Len(q) - 1)
      /\ Head(q) = q[1] /\ \A i \in 1..(Len(q) - 1) : v[i] = q[i + 1]
  OBVIOUS
<1>2. /\ 1 \in DOMAIN q
      /\ \A i \in DOMAIN q : i = 1 \/ (i > 1 /\ \E k \in DOMAIN v : k + 1 = i /\ q[i] = v[k])
      /\ \A i \in DOMAIN v : i + 1 \in DOMAIN q /\ v[i] = q[i + 1]
  <2>1. \A i \in DOMAIN q : i = 1 \/ (i > 1 /\ i - 1 \in DOMAIN v /\ (i - 1) + 1 = i)
    BY <1>1
  <2> QED
    BY <1>1, <2>1
<1> HIDE DEF v
<1>3. On(q, f) <=> Head(q).path = f \/ On(v, f)
  <2>1. ASSUME On(q, f)
        PROVE  Head(q).path = f \/ On(v, f)
    <3>1. PICK i \in DOMAIN q : q[i].path = f
      BY <2>1 DEF On
    <3> QED
      BY <1>1, <1>2, <3>1 DEF On
  <2>2. ASSUME Head(q).path = f \/ On(v, f)
        PROVE  On(q, f)
    BY <1>1, <1>2, <2>2 DEF On
  <2> QED
    BY <2>1, <2>2
<1>4. ASSUME LastFits(q, f, t), NEW i \in DOMAIN v, v[i].path = f,
             \A j \in DOMAIN v : j > i => v[j].path # f
      PROVE  Fits(v[i], t)
  <2>1. i + 1 \in DOMAIN q /\ q[i + 1] = v[i]
    BY <1>2
  <2>2. ASSUME NEW j \in DOMAIN q, j > i + 1
        PROVE  q[j].path # f
    <3>1. PICK k \in DOMAIN v : k + 1 = j /\ q[j] = v[k]
      BY <1>1, <1>2, <2>2
    <3>2. k > i
      BY <1>1, <2>2, <3>1
    <3> QED
      BY <1>4, <3>1, <3>2
  <2> QED
    BY <1>4, <2>1, <2>2 DEF LastFits
<1>5. LastFits(q, f, t) /\ Head(q).path = f /\ ~On(v, f) => Fits(Head(q), t)
  <2> SUFFICES ASSUME LastFits(q, f, t), Head(q).path = f, ~On(v, f)
               PROVE  Fits(q[1], t)
    BY <1>1
  <2>1. 1 \in DOMAIN q /\ q[1].path = f
    BY <1>1
  <2>2. ASSUME NEW j \in DOMAIN q, j > 1
        PROVE  q[j].path # f
    <3>1. PICK k \in DOMAIN v : q[j] = v[k]
      BY <1>1, <1>2, <2>2
    <3> QED
      BY <3>1 DEF On
  <2> QED
    BY <2>1, <2>2 DEF LastFits
<1> QED
  BY <1>3, <1>4, <1>5 DEF v, LastFits

LEMMA MadeHandled ==
  ASSUME NEW q \in Seq(Event), q # <<>>, NEW d
  PROVE  Made(q, d) <=> Head(q) = E("create", d) \/ Made(Tail(q), d)
<1> DEFINE v == Tail(q)
<1>1. /\ 1 \in DOMAIN q /\ Head(q) = q[1]
      /\ \A i \in DOMAIN q : i = 1 \/ (i - 1 \in DOMAIN v /\ q[i] = v[i - 1])
      /\ \A i \in DOMAIN v : i + 1 \in DOMAIN q /\ v[i] = q[i + 1]
  OBVIOUS
<1> HIDE DEF v
<1>2. ASSUME Made(q, d)
      PROVE  Head(q) = E("create", d) \/ Made(v, d)
  <2>1. PICK i \in DOMAIN q : q[i] = E("create", d)
    BY <1>2 DEF Made
  <2> QED
    BY <1>1, <2>1 DEF Made
<1>3. ASSUME Head(q) = E("create", d) \/ Made(v, d)
      PROVE  Made(q, d)
  BY <1>1, <1>3 DEF Made
<1> QED
  BY <1>2, <1>3 DEF v

\* What run has still to send to Drained.
Out == IF run.pc = "send" /\ Drained \notin run.to THEN Tail(run.outbox) ELSE run.outbox

\* Directory d waits for addDir; for its files to be listed.
ToAdd(d) == Made(raw, d) \/ (run.pc = "add" /\ Head(run.outbox).path = d)
ToList(d) == ToAdd(d) \/ (run.pc = "list" /\ Head(run.outbox).path = d)

\* What run has in its outbox, and what has not happened yet before Stop.
InHand ==
  /\ run.pc = "select" => run.outbox = <<>>
  /\ run.pc \in {"add", "list"} => \E d \in Dirs : run.outbox = <<E("create", d)>>
  /\ stop.pc = "no" => /\ run.pc # "exited" /\ fswOpen /\ shut = {}
                       /\ down = "no" /\ pc # "ended"

\* A directory is watched, or run has its create still ahead.
DirsWatched ==
  /\ \A f \in Files : ~Exists(DirOf[f]) => text[f] = NoText
  /\ stop.pc = "no" => \A d \in Dirs :
       /\ life[d] = "old" => d \in inotify
       /\ life[d] = "none" => d \notin watched /\ d \notin inotify /\ ~ToList(d)
       /\ life[d] = "new" => d \in inotify \/ (d \notin watched /\ ToAdd(d))
       /\ life[d] = "new" /\ run.pc = "list" /\ Head(run.outbox).path = d => d \in inotify

\* How far the session has come.
Preloading ==
  /\ pc = "spawned" => chan = <<>>
  /\ pc # "spawned" /\ stop.pc = "no" => Drained \in subs
  /\ pc \in {"spawned", "opening"} => work = NoWork /\ \A f \in Files : docs[f] = NoText
  /\ pc = "preload" => \A f \in todo : docs[f] = NoText /\ (work # NoWork => work.file # f)
  /\ down # "no" => pc \in {"loop", "ended"}
  /\ pc = "loop" /\ down = "no" => todo = {}

Followed(f) == DirOf[f] # Root => life[DirOf[f]] \in {"old", "none", "new"}

\* A directory that is not watched yet has not been heard of.
Unheard(f) ==
  /\ DirOf[f] # Root
  /\ life[DirOf[f]] \in {"none", "new"}
  /\ DirOf[f] \notin inotify

Pending(f) == On(raw, f) \/ On(Out, f) \/ On(chan, f)

LastEventFits(f) ==
  /\ LastFits(raw, f, text[f])
  /\ ~On(raw, f) => LastFits(Out, f, text[f])
  /\ ~On(raw, f) /\ ~On(Out, f) => LastFits(chan, f, text[f])

\* The text the server will have once the notification being made has arrived.
Final(f) == IF work # NoWork /\ work.file = f THEN work.text ELSE docs[f]

\* Nothing more will come for f.
Settled(f) ==
  /\ pc \in {"preload", "loop"}
  /\ f \notin todo
  /\ ~Pending(f)
  /\ DirOf[f] # Root /\ life[DirOf[f]] = "new" => text[f] # NoText /\ ~ToList(DirOf[f])

Tracked(f) ==
  Followed(f) =>
    /\ Unheard(f) => ~Pending(f)
    /\ LastEventFits(f)
    /\ Settled(f) => Final(f) = text[f]

Calm == stop.pc = "no" /\ ~dropped

Converges == Calm => \A f \in Files : Tracked(f)

SyncInv ==
  /\ InHand
  /\ DirsWatched
  /\ Preloading
  /\ Converges

LEMMA SyncInvInit == Init => SyncInv
<1> SUFFICES ASSUME Init
             PROVE  SyncInv
  OBVIOUS
<1>1. /\ raw = <<>> /\ chan = <<>> /\ run.pc = "select" /\ run.outbox = <<>>
      /\ pc = "spawned" /\ stop.pc = "no" /\ fswOpen /\ shut = {} /\ down = "no"
      /\ work = NoWork /\ docs = [f \in Files |-> NoText]
  BY DEF Init, WatcherInit
<1>2. InHand /\ Preloading
  BY <1>1 DEF InHand, Preloading
<1>3. DirsWatched
  <2>1. /\ life \in [Dirs -> {"old", "none"}]
        /\ \A f \in Files : ~Exists(DirOf[f]) => text[f] = NoText
        /\ inotify = {d \in Dirs : Exists(d)} /\ watched = inotify
    BY DEF Init, WatcherInit
  <2>2. \A d \in Dirs : d \in inotify <=> life[d] = "old"
    BY <2>1 DEF Exists
  <2>3. \A d \in Dirs : ~ToList(d)
    BY <1>1, EmptyQueue DEF ToList, ToAdd
  <2> QED
    BY <1>1, <2>1, <2>2, <2>3 DEF DirsWatched
<1>4. ASSUME NEW f \in Files
      PROVE  Tracked(f)
  <2>1. Out = <<>>
    BY <1>1 DEF Out
  <2>2. ~On(raw, f) /\ ~On(Out, f) /\ ~On(chan, f)
    BY <1>1, <2>1, EmptyQueue
  <2> QED
    BY <1>1, <2>2, NoneOn DEF Tracked, Pending, LastEventFits, Settled
<1> QED
  BY <1>2, <1>3, <1>4 DEF SyncInv, Converges

\* A change elsewhere on disk adds at most events that do not concern f.
LEMMA OtherChange ==
  ASSUME IInv, SyncInv, Calm, NEW f \in Files, Followed(f)',
         UNCHANGED <<run, chan, pc, todo, work, docs>>, text'[f] = text[f],
         raw' = raw \/ \E e \in Event : e.path # f /\ raw' = Append(raw, e),
         DirOf[f] # Root /\ life'[DirOf[f]] # life[DirOf[f]] =>
           life[DirOf[f]] = "none" /\ life'[DirOf[f]] = "new",
         DirOf[f] \in inotify => DirOf[f] \in inotify'
  PROVE  Tracked(f)'
<1> DEFINE d == DirOf[f]
<1>1. raw \in Seq(Event) /\ Out' = Out
  BY DEF IInv, TypeOK, WatcherTypeOK, Out
<1>2. /\ On(raw', f) <=> On(raw, f)
      /\ LastFits(raw, f, text[f]) => LastFits(raw', f, text[f])
      /\ Made(raw, d) => Made(raw', d)
  <2>1. CASE raw' = raw
    BY <2>1
  <2>2. ASSUME NEW e \in Event, e.path # f, raw' = Append(raw, e)
        PROVE  <1>2!1 /\ <1>2!2 /\ <1>2!3
    <3>1. Made(raw, d) => Made(raw', d)
      BY <1>1, <2>2, MadeAppended
    <3> QED
      BY <1>1, <2>2, <3>1, Appended
  <2> QED
    BY <2>1, <2>2
<1>3. Followed(f) /\ Tracked(f)
  BY DEF Followed, SyncInv, Converges
<1>4. Unheard(f)' => Unheard(f)
  BY DEF Unheard
<1>5. Pending(f)' <=> Pending(f)
  BY <1>1, <1>2 DEF Pending
<1>6. LastEventFits(f)'
  BY <1>1, <1>2, <1>3 DEF Tracked, LastEventFits
<1>7. ToList(d) => ToList(d)'
  BY <1>2 DEF ToList, ToAdd
<1>8. d # Root /\ life[d] = "none" => text[f] = NoText
  BY DEF SyncInv, DirsWatched, Exists
<1>9. Settled(f)' => Settled(f)
  BY <1>5, <1>7, <1>8 DEF Settled
<1>10. Final(f)' = Final(f)
  BY DEF Final
<1> QED
  BY <1>3, <1>4, <1>5, <1>6, <1>9, <1>10 DEF Tracked

\* A change to f in a directory that is watched is heard of; in one that is not, its
\* files are still to be listed.
LEMMA OwnChange ==
  ASSUME IInv, SyncInv, Calm, NEW f \in Files, Exists(DirOf[f]), Followed(f),
         UNCHANGED <<life, inotify, run, chan, stop, pc, todo, work, docs>>,
         NEW e \in Event, Notify(DirOf[f], e), e.path = f, Fits(e, text'[f])
  PROVE  Tracked(f)'
<1> DEFINE d == DirOf[f]
<1>1. raw \in Seq(Event) /\ Out' = Out /\ fswOpen
  BY DEF IInv, TypeOK, WatcherTypeOK, Out, SyncInv, InHand, Calm
<1>2. CASE d \in inotify \cup {Root}
  <2>1. raw' = Append(raw, e)
    BY <1>1, <1>2 DEF Notify
  <2>2. On(raw', f) /\ LastFits(raw', f, text'[f])
    BY <1>1, <2>1, Appended
  <2>3. LastEventFits(f)' /\ Pending(f)' /\ ~Unheard(f)'
    BY <1>2, <2>2 DEF LastEventFits, Pending, Unheard
  <2> QED
    BY <2>3 DEF Tracked, Settled
<1>3. CASE d \notin inotify \cup {Root}
  <2>1. raw' = raw
    BY <1>1, <1>3 DEF Notify
  <2>2. life[d] = "new" /\ ToAdd(d)
    BY <1>3 DEF Followed, Exists, SyncInv, DirsWatched, Calm
  <2>3. ~Pending(f)
    BY <1>3, <2>2 DEF SyncInv, Converges, Tracked, Unheard
  <2>4. ~Pending(f)' /\ LastEventFits(f)'
    BY <1>1, <2>1, <2>3, NoneOn DEF Pending, LastEventFits
  <2>5. ToList(d)'
    BY <2>1, <2>2 DEF ToList, ToAdd
  <2> QED
    BY <1>3, <2>2, <2>4, <2>5 DEF Tracked, Settled
<1> QED
  BY <1>2, <1>3

LEMMA DiskSync == ASSUME IInv, SyncInv, DiskStep, UNCHANGED sessionVars PROVE SyncInv'
<1> USE DEF sessionVars, stopVars, channelVars
<1>1. UNCHANGED <<watched, subs, run, closed, fswOpen, stop, shut, chan, dropped>>
  BY DEF DiskStep, Save, Delete, MakeDir, RemoveDir
<1>2. raw \in Seq(Event) /\ text \in [Files -> Texts \cup {NoText}] /\ life \in [Dirs -> Lives]
  BY DEF IInv, TypeOK, WatcherTypeOK
<1>3. InHand' /\ Preloading'
  BY <1>1 DEF SyncInv, InHand, Preloading
<1>4. Calm' => Calm /\ fswOpen
  BY <1>1 DEF Calm, SyncInv, InHand
<1>5. ASSUME NEW f \in Files, Save(f) \/ Delete(f)
      PROVE  DirsWatched' /\ Converges'
  <2>1. PICK e \in Event :
          /\ Notify(DirOf[f], e) /\ e.path = f /\ Fits(e, text'[f])
          /\ Exists(DirOf[f])
          /\ UNCHANGED <<life, inotify>>
          /\ \A g \in Files : g # f => text'[g] = text[g]
    <3>1. CASE Save(f)
      <4> DEFINE e == E(IF text[f] = NoText THEN "create" ELSE "modify", f)
      <4>1. PICK t \in Texts : text' = [text EXCEPT ![f] = t]
        BY <3>1 DEF Save
      <4>2. e \in Event /\ e.path = f /\ e.op # "delete" /\ text'[f] # NoText
        BY <1>2, <4>1 DEF E, Event
      <4> QED
        BY <1>2, <3>1, <4>1, <4>2 DEF Save, Fits
    <3>2. CASE Delete(f)
      <4>1. E("delete", f) \in Event /\ E("delete", f).path = f /\ E("delete", f).op = "delete"
        BY DEF E, Event
      <4>2. Exists(DirOf[f]) /\ text'[f] = NoText
        BY <1>2, <3>2 DEF Delete, SyncInv, DirsWatched
      <4> QED
        BY <1>2, <3>2, <4>1, <4>2 DEF Delete, Fits
    <3> QED
      BY <1>5, <3>1, <3>2
  <2>2. raw' = raw \/ raw' = Append(raw, e)
    BY <2>1 DEF Notify
  <2>3. \A d \in Dirs : Made(raw', d) <=> Made(raw, d)
    <3>1. ASSUME NEW d \in Dirs, raw' = Append(raw, e)
          PROVE  Made(raw', d) <=> Made(raw, d)
      <4>1. e # E("create", d)
        BY <2>1 DEF E
      <4> QED
        BY <1>2, <3>1, <4>1, MadeAppended
    <3> QED
      BY <2>2, <3>1
  <2>4. DirsWatched'
    BY <1>1, <2>1, <2>3 DEF SyncInv, DirsWatched, Exists, ToAdd, ToList
  <2>5. ASSUME Calm', NEW g \in Files
        PROVE  Tracked(g)'
    <3>1. CASE g = f
      BY <1>1, <1>4, <2>1, <2>5, <3>1, OwnChange DEF Tracked, Followed
    <3>2. CASE g # f
      BY <1>1, <1>4, <2>1, <2>2, <2>5, <3>2, OtherChange DEF Tracked
    <3> QED
      BY <3>1, <3>2
  <2> QED
    BY <2>4, <2>5 DEF Converges
<1>6. ASSUME NEW d \in Dirs, MakeDir(d) \/ RemoveDir(d)
      PROVE  DirsWatched' /\ Converges'
  <2>1. PICK e \in Event :
          /\ e.path = d
          /\ Notify(Root, e)
          /\ MakeDir(d) => e = E("create", d)
          /\ raw' = raw \/ raw' = Append(raw, e)
          /\ fswOpen => raw' = Append(raw, e)
    <3>1. E("create", d) \in Event /\ E("create", d).path = d
      BY DEF E, Event
    <3>2. E("delete", d) \in Event /\ E("delete", d).path = d
      BY DEF E, Event
    <3> QED
      BY <1>6, <3>1, <3>2 DEF MakeDir, RemoveDir, Notify
  <2>2. \A b \in Dirs : b # d => (Made(raw', b) <=> Made(raw, b))
    <3>1. ASSUME NEW b \in Dirs, b # d, raw' = Append(raw, e)
          PROVE  Made(raw', b) <=> Made(raw, b)
      <4>1. e # E("create", b)
        BY <2>1, <3>1 DEF E
      <4> QED
        BY <1>2, <3>1, <4>1, MadeAppended
    <3> QED
      BY <2>1, <3>1
  <2>3. text' = text /\ \A b \in Dirs : b # d =>
       life'[b] = life[b] /\ (b \in inotify' <=> b \in inotify)
    BY <1>2, <1>6 DEF MakeDir, RemoveDir
  <2>4. \/ /\ life[d] = "none" /\ life'[d] = "new" /\ inotify' = inotify
           /\ fswOpen => Made(raw', d)
        \/ /\ life'[d] = "again" /\ inotify' = inotify
        \/ /\ life'[d] \in {"gone", "lost"}
           /\ \A f \in Files : DirOf[f] = d => text[f] = NoText
    <3>1. MakeDir(d) /\ fswOpen => Made(raw', d)
      <4>1. ASSUME e = E("create", d), raw' = Append(raw, e)
            PROVE  Made(raw', d)
        BY <1>2, <4>1, MadeAppended
      <4> QED
        BY <2>1, <4>1
    <3> QED
      BY <1>2, <1>6, <3>1 DEF MakeDir, RemoveDir
  <2>5. DirsWatched'
    <3>1. ASSUME NEW f \in Files, ~Exists(DirOf[f])'
          PROVE  text'[f] = NoText
      BY <2>3, <2>4, <3>1 DEF SyncInv, DirsWatched, Exists
    <3>2. ASSUME stop.pc = "no", NEW b \in Dirs
          PROVE  /\ life'[b] = "old" => b \in inotify'
                 /\ life'[b] = "none" => b \notin watched /\ b \notin inotify' /\ ~ToList(b)'
                 /\ life'[b] = "new" => b \in inotify' \/ (b \notin watched /\ ToAdd(b)')
                 /\ life'[b] = "new" /\ run.pc = "list" /\ Head(run.outbox).path = b =>
                      b \in inotify'
      <4>0. fswOpen
        BY <3>2 DEF SyncInv, InHand
      <4>1. CASE b # d
        BY <1>1, <2>2, <2>3, <3>2, <4>1 DEF SyncInv, DirsWatched, ToAdd, ToList
      <4>2. CASE b = d
        <5>1. life'[d] \in {"gone", "lost", "again"} \/
                (life'[d] = "new" /\ inotify' = inotify /\ life[d] = "none" /\ Made(raw', d))
          BY <2>4, <4>0
        <5>2. life[d] = "none" =>
                d \notin watched /\ ~(run.pc = "list" /\ Head(run.outbox).path = d)
          BY <3>2 DEF SyncInv, DirsWatched, ToList
        <5> QED
          BY <1>1, <3>2, <4>2, <5>1, <5>2 DEF ToAdd
      <4> QED
        BY <4>1, <4>2
    <3> QED
      BY <1>1, <3>1, <3>2 DEF DirsWatched
  <2>6. ASSUME Calm', NEW f \in Files, Followed(f)'
        PROVE  Tracked(f)'
    <3>1. e.path # f
      BY <2>1
    <3>2. DirOf[f] # Root => DirOf[f] \in Dirs
      OBVIOUS
    <3>3. DirOf[f] # Root /\ life'[DirOf[f]] # life[DirOf[f]] =>
            life[DirOf[f]] = "none" /\ life'[DirOf[f]] = "new"
      BY <2>3, <2>4, <2>6, <3>2 DEF Followed
    <3>4. DirOf[f] \in inotify => DirOf[f] \in inotify'
      <4>1. DirOf[f] \in inotify => DirOf[f] # Root /\ DirOf[f] \in Dirs
        BY <3>2 DEF IInv, TypeOK, WatcherTypeOK
      <4> QED
        BY <2>3, <2>4, <2>6, <4>1 DEF Followed
    <3> QED
      BY <1>1, <1>4, <2>1, <2>3, <2>6, <3>1, <3>3, <3>4, OtherChange
  <2> QED
    BY <2>5, <2>6 DEF Converges, Tracked
<1> QED
  BY <1>3, <1>5, <1>6 DEF DiskStep, SyncInv

\* run carries events from raw to Drained's channel: f is tracked as long as its last
\* event stays the last and none gets lost.
LEMMA Carried ==
  ASSUME SyncInv, Calm, NEW f \in Files,
         UNCHANGED <<life, text, pc, todo, work, docs>>, inotify \subseteq inotify',
         LastEventFits(f) =>
           /\ LastFits(raw', f, text[f])
           /\ ~On(raw', f) => LastFits(Out', f, text[f])
           /\ ~On(raw', f) /\ ~On(Out', f) => LastFits(chan', f, text[f]),
         (On(raw', f) \/ On(Out', f) \/ On(chan', f)) /\ Unheard(f) => Pending(f),
         Pending(f) /\ pc \in {"preload", "loop"} =>
              On(raw', f) \/ On(Out', f) \/ On(chan', f),
         DirOf[f] # Root /\ life[DirOf[f]] = "new" /\ text[f] # NoText /\ ToList(DirOf[f]) =>
           \/ Made(raw', DirOf[f])
           \/ (run'.pc \in {"add", "list"} /\ Head(run'.outbox).path = DirOf[f])
           \/ On(raw', f) \/ On(Out', f) \/ On(chan', f)
  PROVE  Tracked(f)'
<1>1. (Followed(f)' <=> Followed(f)) /\ Tracked(f)
  BY DEF Followed, SyncInv, Converges
<1>2. Unheard(f)' => Unheard(f)
  BY DEF Unheard
<1>3. Final(f)' = Final(f)
  BY DEF Final
<1>4. Pending(f)' <=> On(raw', f) \/ On(Out', f) \/ On(chan', f)
  BY DEF Pending
<1>5. LastEventFits(f) => LastEventFits(f)'
  BY DEF LastEventFits
<1>6. Settled(f)' => Settled(f)
  BY <1>4 DEF Settled, ToList, ToAdd
<1> QED
  BY <1>1, <1>2, <1>3, <1>4, <1>5, <1>6 DEF Tracked

\* What a step of run leaves alone.
LEMMA RunLeaves ==
  ASSUME IInv, SyncInv, RunStep, UNCHANGED sessionVars
  PROVE  /\ UNCHANGED <<life, text, subs, closed, fswOpen, stop, shut, pc, todo, work,
                        docs, down>>
         /\ run \in RunType /\ run.outbox \in Seq(Event)
         /\ raw \in Seq(Event)
         /\ chan \in Seq(Event)
         /\ (dropped => dropped')
         /\ (Calm' => Calm)
<1> USE DEF diskVars, stopVars, channelVars, sessionVars
<1>1. UNCHANGED <<life, text, subs, closed, fswOpen, stop, shut>> /\ (dropped => dropped')
  <2>1. CASE Handle \/ AddDir \/ ListDir \/ Publish \/ SendsDone \/ RunExits
    BY <2>1 DEF Handle, AddDir, ListDir, Publish, SendsDone, RunExits
  <2>2. ASSUME NEW s \in Subscribers, Send(s)
        PROVE  UNCHANGED <<life, text, subs, closed, fswOpen, stop, shut>>
               /\ (dropped => dropped')
    BY <2>2 DEF Send
  <2> QED
    BY <2>1, <2>2 DEF RunStep
<1>2. /\ run \in RunType /\ run.outbox \in Seq(Event)
      /\ raw \in Seq(Event)
      /\ chan \in Seq(Event)
  BY DEF IInv, TypeOK, WatcherTypeOK, RunType
<1> QED
  BY <1>1, <1>2 DEF Calm

LEMMA HandleSync ==
  ASSUME IInv, SyncInv, Handle, UNCHANGED sessionVars
  PROVE  SyncInv'
<1>0. RunStep
  BY DEF RunStep
<1> DEFINE e == Head(raw)
<1>1. /\ UNCHANGED <<life, text, subs, closed, fswOpen, stop, shut, pc, todo, work, docs,
                     down>>
      /\ run \in RunType /\ raw \in Seq(Event)
      /\ chan \in Seq(Event)
      /\ (Calm' => Calm)
  BY <1>0, RunLeaves
<1>2. /\ UNCHANGED <<inotify, watched, chan>> /\ run.pc = "select" /\ raw # <<>>
      /\ raw' = Tail(raw)
      /\ e \in Event
  <2>1. /\ UNCHANGED <<inotify, watched, chan>> /\ run.pc = "select" /\ raw # <<>>
        /\ raw' = Tail(raw)
    BY DEF Handle, diskVars, channelVars
  <2> QED
    BY <1>1, <2>1
<1>3. /\ run'.outbox = <<e>> /\ run'.to = {} /\ run'.pc \in {"add", "publish"}
      /\ run'.pc = "add" <=> e.op = "create" /\ e.path \in Dirs /\ Exists(e.path)
  BY DEF Handle
<1>4. e.op = "create" /\ e.path \in Dirs => e = E("create", e.path)
  BY <1>2 DEF Event, E
<1>5. InHand'
  BY <1>1, <1>2, <1>3, <1>4 DEF SyncInv, InHand
<1>6. Preloading'
  BY <1>1, <1>2 DEF SyncInv, Preloading
<1>7. Head(<<e>>) = e
  OBVIOUS
<1>8. \A d \in Dirs : Made(raw, d) <=> e = E("create", d) \/ Made(raw', d)
  <2>1. \A d \in Dirs : Made(raw, d) <=> e = E("create", d) \/ Made(Tail(raw), d)
    BY <1>1, <1>2, MadeHandled
  <2> QED
    BY <1>2, <2>1
<1>9. \A d \in Dirs : e = E("create", d) => e.op = "create" /\ e.path = d
  BY DEF E
<1> HIDE DEF e
<1>10. ASSUME NEW d \in Dirs
       PROVE  /\ ToList(d)' => ToList(d)
              /\ life[d] = "new" => (ToAdd(d)' <=> ToAdd(d)) /\ (ToList(d)' <=> ToList(d))
  <2>1. life[d] = "new" => Exists(d)
    BY DEF Exists
  <2>2. run'.pc = "add" /\ Head(run'.outbox).path = d => e = E("create", d)
    BY <1>3, <1>4, <1>7
  <2>3. e = E("create", d) /\ life[d] = "new" =>
       run'.pc = "add" /\ Head(run'.outbox).path = d
    BY <1>3, <1>7, <1>9, <2>1
  <2> QED
    BY <1>2, <1>3, <1>8, <2>2, <2>3 DEF ToList, ToAdd
<1>11. DirsWatched'
  BY <1>1, <1>2, <1>3, <1>10 DEF SyncInv, DirsWatched, Exists
<1>12. ASSUME Calm', NEW f \in Files
       PROVE  Tracked(f)'
  <2>1. Out = <<>> /\ Out' = <<e>>
    BY <1>2, <1>3 DEF Out, SyncInv, InHand
  <2>2. /\ ~On(Out, f)
        /\ On(Out', f) <=> e.path = f
        /\ Fits(e, text[f]) => LastFits(Out', f, text[f])
    BY <2>1, EmptyQueue, OneEvent
  <2>3. /\ On(raw, f) <=> e.path = f \/ On(raw', f)
        /\ LastFits(raw, f, text[f]) => LastFits(raw', f, text[f])
        /\ LastFits(raw, f, text[f]) /\ e.path = f /\ ~On(raw', f) => Fits(e, text[f])
    BY <1>1, <1>2, Handled DEF e
  <2>4. e.path # f => LastFits(Out', f, text[f])
    BY <2>2, NoneOn
  <2>5. LastEventFits(f) =>
           /\ LastFits(raw', f, text[f])
           /\ ~On(raw', f) => LastFits(Out', f, text[f])
           /\ ~On(raw', f) /\ ~On(Out', f) => LastFits(chan', f, text[f])
    BY <1>2, <2>2, <2>3, <2>4 DEF LastEventFits
  <2>6. Pending(f) <=> On(raw', f) \/ On(Out', f) \/ On(chan', f)
    BY <1>2, <2>2, <2>3 DEF Pending
  <2>7. DirOf[f] # Root /\ life[DirOf[f]] = "new" /\ ToList(DirOf[f]) =>
          \/ Made(raw', DirOf[f])
          \/ (run'.pc \in {"add", "list"} /\ Head(run'.outbox).path = DirOf[f])
    BY <1>10 DEF ToList, ToAdd
  <2> QED
    BY <1>1, <1>2, <1>12, <2>5, <2>6, <2>7, Carried
<1> QED
  BY <1>5, <1>6, <1>11, <1>12 DEF SyncInv, Converges

LEMMA AddDirSync ==
  ASSUME IInv, SyncInv, AddDir, UNCHANGED sessionVars
  PROVE  SyncInv'
<1>0. RunStep
  BY DEF RunStep
<1>1. /\ UNCHANGED <<life, text, subs, closed, fswOpen, stop, shut, pc, todo, work, docs,
                     down>>
      /\ run \in RunType /\ raw \in Seq(Event)
      /\ chan \in Seq(Event)
      /\ (Calm' => Calm)
  BY <1>0, RunLeaves
<1>2. UNCHANGED <<raw, chan>> /\ run.pc = "add"
  BY DEF AddDir, channelVars
<1>3. PICK h \in Dirs : run.outbox = <<E("create", h)>>
  BY <1>2 DEF SyncInv, InHand
<1>4. Head(run.outbox).path = h
  BY <1>3 DEF E
<1>5. run'.pc = "list" /\ run'.outbox = run.outbox /\ run'.to = run.to
  BY <1>1 DEF AddDir, RunType
<1>6. InHand'
  BY <1>1, <1>3, <1>5 DEF SyncInv, InHand
<1>7. Preloading'
  BY <1>1, <1>2 DEF SyncInv, Preloading
<1>8. PICK added \in SUBSET {h} :
        /\ watched' = watched \cup added /\ inotify' = inotify \cup added
        /\ h \in added <=> ~closed /\ h \notin watched /\ Exists(h) /\ fswOpen
  BY <1>4 DEF AddDir
<1>9. stop.pc = "no" => ~closed /\ fswOpen
  BY DEF IInv, ChannelsOpen, SyncInv, InHand
<1>10. ASSUME NEW d \in Dirs
       PROVE  ToList(d)' <=> ToList(d)
  BY <1>2, <1>4, <1>5 DEF ToList, ToAdd
<1>11. ASSUME stop.pc = "no", NEW d \in Dirs
       PROVE  /\ life[d] = "old" => d \in inotify'
              /\ life[d] = "none" => d \notin watched' /\ d \notin inotify' /\ ~ToList(d)'
              /\ life[d] = "new" => d \in inotify' \/ (d \notin watched' /\ ToAdd(d)')
              /\ life[d] = "new" /\ run'.pc = "list" /\ Head(run'.outbox).path = d =>
                   d \in inotify'
  <2>1. CASE d = h
    <3>1. life[d] = "new" => d \in inotify'
      BY <1>8, <1>9, <1>11, <2>1 DEF Exists, SyncInv, DirsWatched
    <3>2. life[d] # "none"
      BY <1>2, <1>4, <1>11, <2>1 DEF SyncInv, DirsWatched, ToList, ToAdd
    <3>3. life[d] = "old" => d \in inotify'
      BY <1>8, <1>11 DEF SyncInv, DirsWatched
    <3> QED
      BY <3>1, <3>2, <3>3
  <2>2. CASE d # h
    <3>1. (d \in watched' <=> d \in watched) /\ (d \in inotify' <=> d \in inotify)
      BY <1>8, <2>2
    <3>2. ToAdd(d)' <=> ToAdd(d)
      BY <1>2, <1>4, <1>5, <2>2 DEF ToAdd
    <3> QED
      BY <1>4, <1>5, <1>10, <1>11, <2>2, <3>1, <3>2 DEF SyncInv, DirsWatched
  <2> QED
    BY <2>1, <2>2
<1>12. DirsWatched'
  BY <1>1, <1>11 DEF SyncInv, DirsWatched, Exists
<1>13. ASSUME Calm', NEW f \in Files
       PROVE  Tracked(f)'
  <2>1. Out' = Out
    BY <1>2, <1>5 DEF Out
  <2>2. LastEventFits(f) =>
           /\ LastFits(raw', f, text[f])
           /\ ~On(raw', f) => LastFits(Out', f, text[f])
           /\ ~On(raw', f) /\ ~On(Out', f) => LastFits(chan', f, text[f])
    BY <1>2, <2>1 DEF LastEventFits
  <2>3. Pending(f) <=> On(raw', f) \/ On(Out', f) \/ On(chan', f)
    BY <1>2, <2>1 DEF Pending
  <2>4. DirOf[f] # Root /\ ToList(DirOf[f]) =>
          \/ Made(raw', DirOf[f])
          \/ (run'.pc \in {"add", "list"} /\ Head(run'.outbox).path = DirOf[f])
    BY <1>2, <1>4, <1>5 DEF ToList, ToAdd
  <2> QED
    BY <1>1, <1>8, <1>13, <2>2, <2>3, <2>4, Carried
<1> QED
  BY <1>6, <1>7, <1>12, <1>13 DEF SyncInv, Converges


\* An order of a finite set, without repetition and as long as the set is large, has
\* every member.
LEMMA OrderedAll ==
  ASSUME NEW d, NEW order \in [1..Cardinality(FilesIn(d)) -> FilesIn(d)],
         \A i, j \in DOMAIN order : order[i] = order[j] => i = j
  PROVE  \A f \in FilesIn(d) : \E i \in DOMAIN order : order[i] = f
<1> DEFINE n == Cardinality(FilesIn(d))
<1>1. IsFiniteSet(FilesIn(d)) /\ n \in Nat
  BY FS_Subset, FS_CardinalityType DEF FilesIn
<1>2. IsFiniteSet(1..n) /\ Cardinality(1..n) = n
  <2>1. n \in Int /\ 1 \in Int
    BY <1>1
  <2> HIDE DEF n
  <2>2. IsFiniteSet(1..n) /\ Cardinality(1..n) = IF 1 > n THEN 0 ELSE n - 1 + 1
    BY <2>1, FS_Interval
  <2>3. n \in Nat
    BY <1>1 DEF n
  <2> QED
    BY <2>2, <2>3
<1>3. order \in Injection(1..n, FilesIn(d))
  BY DEF Injection, IsInjective
<1>4. order \in Surjection(1..n, FilesIn(d))
  BY <1>1, <1>2, <1>3, FS_Injection
<1> QED
  BY <1>4 DEF Surjection

LEMMA ListDirSync ==
  ASSUME IInv, SyncInv, ListDir, UNCHANGED sessionVars
  PROVE  SyncInv'
<1>0. RunStep
  BY DEF RunStep
<1>1. /\ UNCHANGED <<life, text, subs, closed, fswOpen, stop, shut, pc, todo, work, docs,
                     down>>
      /\ run \in RunType /\ raw \in Seq(Event)
      /\ chan \in Seq(Event)
      /\ (Calm' => Calm)
  BY <1>0, RunLeaves
<1>2. UNCHANGED <<inotify, watched, raw, chan>> /\ run.pc = "list"
  BY DEF ListDir, diskVars, channelVars
<1>3. PICK h \in Dirs : run.outbox = <<E("create", h)>>
  BY <1>2 DEF SyncInv, InHand
<1>4. Head(run.outbox).path = h
  BY <1>3 DEF E
<1>5. PICK order \in [1..Cardinality(FilesIn(h)) -> FilesIn(h)] :
        /\ \A i, j \in DOMAIN order : order[i] = order[j] => i = j
        /\ run'.pc = "publish" /\ run'.to = {}
        /\ run'.outbox = [i \in DOMAIN order |-> E("create", order[i])]
  <2>1. PICK order \in [1..Cardinality(FilesIn(h)) -> FilesIn(h)] :
          /\ \A i, j \in DOMAIN order : order[i] = order[j] => i = j
          /\ run' = [pc |-> "publish", to |-> {},
                     outbox |-> [i \in DOMAIN order |-> E("create", order[i])]]
    BY <1>4, Zenon DEF ListDir
  <2> QED
    BY <2>1
<1>6. Out = <<E("create", h)>> /\ Out' = run'.outbox
  BY <1>2, <1>3, <1>5 DEF Out
<1>7. \A f \in FilesIn(h) : \E i \in DOMAIN order : order[i] = f
  BY <1>5, OrderedAll
<1>8. ASSUME NEW f \in Files
      PROVE  /\ On(Out', f) <=> f \in FilesIn(h)
             /\ LastFits(Out', f, text[f])
             /\ ~On(Out, f)
  <2>1. /\ DOMAIN Out' = DOMAIN order
        /\ \A i \in DOMAIN order : Out'[i].path = order[i] /\ Out'[i].op = "create"
                                   /\ order[i] \in FilesIn(h)
    BY <1>5, <1>6 DEF E
  <2>2. LastFits(Out', f, text[f])
    BY <2>1 DEF LastFits, Fits, FilesIn
  <2>3. On(Out', f) <=> f \in FilesIn(h)
    BY <1>7, <2>1 DEF On
  <2>4. E("create", h).path = h /\ h # f
    BY DEF E
  <2>5. On(<<E("create", h)>>, f) <=> E("create", h).path = f
    BY OneEvent
  <2> QED
    BY <1>6, <2>2, <2>3, <2>4, <2>5
<1>9. ASSUME NEW d \in Dirs
      PROVE  /\ ToAdd(d)' <=> ToAdd(d)
             /\ ToList(d)' => ToList(d)
             /\ d # h => (ToList(d)' <=> ToList(d))
  BY <1>2, <1>4, <1>5 DEF ToList, ToAdd
<1>10. InHand' /\ Preloading'
  BY <1>1, <1>2, <1>5 DEF SyncInv, InHand, Preloading
<1>11. DirsWatched'
  BY <1>1, <1>2, <1>5, <1>9 DEF SyncInv, DirsWatched, Exists
<1>12. ASSUME Calm', NEW f \in Files
       PROVE  Tracked(f)'
  <2>1. LastEventFits(f) =>
           /\ LastFits(raw', f, text[f])
           /\ ~On(raw', f) => LastFits(Out', f, text[f])
           /\ ~On(raw', f) /\ ~On(Out', f) => LastFits(chan', f, text[f])
    BY <1>2, <1>8 DEF LastEventFits
  <2>2. Pending(f) => On(raw', f) \/ On(Out', f) \/ On(chan', f)
    BY <1>2, <1>8 DEF Pending
  <2>3. (On(raw', f) \/ On(Out', f) \/ On(chan', f)) /\ Unheard(f) => Pending(f)
    <3>1. stop.pc = "no"
      BY <1>1, <1>12 DEF Calm
    <3>2. life[h] # "none" /\ (life[h] = "new" => h \in inotify)
      BY <1>2, <1>4, <3>1 DEF SyncInv, DirsWatched, ToList
    <3>3. f \in FilesIn(h) => ~Unheard(f)
      BY <3>2 DEF Unheard, FilesIn
    <3> QED
      BY <1>2, <1>8, <3>3 DEF Pending
  <2>4. DirOf[f] # Root /\ text[f] # NoText /\ ToList(DirOf[f]) =>
          Made(raw', DirOf[f]) \/ On(Out', f)
    <3>1. DirOf[f] = h /\ text[f] # NoText => f \in FilesIn(h)
      BY DEF FilesIn
    <3> QED
      BY <1>2, <1>4, <1>8, <3>1 DEF ToList, ToAdd
  <2> QED
    BY <1>1, <1>2, <1>12, <2>1, <2>2, <2>3, <2>4, Carried
<1> QED
  BY <1>10, <1>11, <1>12 DEF SyncInv, Converges

\* A step of publish: an event for Drained goes from the front of Out to the end of chan,
\* or nothing does.
LEMMA Passed ==
  ASSUME IInv, SyncInv, RunStep, UNCHANGED sessionVars,
         UNCHANGED <<raw, inotify, watched>>,
         run.pc \notin {"add", "list"}, run'.pc \notin {"add", "list"},
         run'.pc = "select" => run'.outbox = <<>>,
         stop.pc = "no" => run'.pc # "exited",
         pc = "spawned" => chan' = <<>>,
         Calm' => \/ Out' = Out /\ chan' = chan
                  \/ Out' = Tail(Out) /\ Out # <<>> /\ chan' = chan /\ pc = "spawned"
                  \/ Out' = Tail(Out) /\ Out # <<>> /\ chan' = Append(chan, Head(Out))
  PROVE  SyncInv'
<1>1. /\ UNCHANGED <<life, text, subs, closed, fswOpen, stop, shut, pc, todo, work, docs,
                     down>>
      /\ run \in RunType /\ run.outbox \in Seq(Event)
      /\ raw \in Seq(Event)
      /\ chan \in Seq(Event)
      /\ (Calm' => Calm)
  BY RunLeaves
<1>2. InHand' /\ Preloading'
  BY <1>1 DEF SyncInv, InHand, Preloading
<1>3. ASSUME NEW d \in Dirs
      PROVE  (ToAdd(d)' <=> ToAdd(d)) /\ (ToList(d)' <=> ToList(d))
  BY DEF ToList, ToAdd
<1>4. DirsWatched'
  BY <1>1, <1>3 DEF SyncInv, DirsWatched, Exists
<1>5. ASSUME Calm', NEW f \in Files
      PROVE  Tracked(f)'
  <2>1. /\ LastEventFits(f) =>
           /\ LastFits(raw', f, text[f])
           /\ ~On(raw', f) => LastFits(Out', f, text[f])
           /\ ~On(raw', f) /\ ~On(Out', f) => LastFits(chan', f, text[f])
        /\ On(raw', f) \/ On(Out', f) \/ On(chan', f) => Pending(f)
        /\ Pending(f) /\ pc \in {"preload", "loop"} =>
             On(raw', f) \/ On(Out', f) \/ On(chan', f)
    <3>1. CASE Out' = Out /\ chan' = chan
      BY <3>1 DEF LastEventFits, Pending
    <3>2. Out \in Seq(Event)
      BY <1>1 DEF Out, IInv, RunShape
    <3>3. CASE Out' = Tail(Out) /\ Out # <<>> /\ chan' = chan /\ pc = "spawned"
      <4>1. /\ On(Out', f) => On(Out, f)
            /\ LastFits(Out, f, text[f]) => LastFits(Out', f, text[f])
        BY <3>2, <3>3, Handled
      <4>2. ~On(chan, f) /\ LastFits(chan, f, text[f])
        BY <3>3, EmptyQueue, NoneOn DEF SyncInv, Preloading
      <4> QED
        BY <3>3, <4>1, <4>2 DEF LastEventFits, Pending
    <3>4. CASE Out' = Tail(Out) /\ Out # <<>> /\ chan' = Append(chan, Head(Out))
      <4> DEFINE e == Head(Out)
      <4>1. e \in Event
        BY <3>2, <3>4
      <4>2. /\ On(Out, f) <=> e.path = f \/ On(Out', f)
            /\ LastFits(Out, f, text[f]) => LastFits(Out', f, text[f])
            /\ LastFits(Out, f, text[f]) /\ e.path = f /\ ~On(Out', f) => Fits(e, text[f])
        BY <3>2, <3>4, Handled
      <4> HIDE DEF e
      <4>3. chan' = Append(chan, e)
        BY <3>4 DEF e
      <4>4. /\ On(chan', f) <=> On(chan, f) \/ e.path = f
            /\ e.path = f /\ Fits(e, text[f]) => LastFits(chan', f, text[f])
            /\ e.path # f /\ LastFits(chan, f, text[f]) => LastFits(chan', f, text[f])
        BY <1>1, <4>1, <4>3, Appended
      <4> QED
        BY <4>2, <4>4 DEF LastEventFits, Pending
    <3> QED
      BY <1>5, <3>1, <3>3, <3>4
  <2>2. DirOf[f] # Root /\ ToList(DirOf[f]) => Made(raw', DirOf[f])
    BY DEF ToList, ToAdd
  <2> QED
    BY <1>1, <1>5, <2>1, <2>2, Carried
<1> QED
  BY <1>2, <1>4, <1>5 DEF SyncInv, Converges

LEMMA PublishSync ==
  ASSUME IInv, SyncInv, Publish, UNCHANGED sessionVars
  PROVE  SyncInv'
<1>0. RunStep
  BY DEF RunStep
<1>1. UNCHANGED <<raw, inotify, watched, chan, dropped, stop, pc>> /\ run.pc = "publish"
  BY DEF Publish, diskVars, channelVars, stopVars, sessionVars
<1>2. run \in RunType /\ Out = run.outbox /\ (pc = "spawned" => chan = <<>>)
  BY <1>0, <1>1, RunLeaves DEF Out, SyncInv, Preloading
<1>3. closed <=> stop.pc # "no"
  BY DEF IInv, ChannelsOpen
<1>4. CASE run.outbox = <<>>
  <2>1. run'.pc = "select" /\ run'.outbox = <<>>
    BY <1>2, <1>4 DEF Publish, RunType
  <2> QED
    BY <1>0, <1>1, <1>2, <1>4, <2>1, Passed DEF Out
<1>5. CASE run.outbox # <<>> /\ closed
  <2>1. run'.pc = "publish"
    BY <1>1, <1>2, <1>5 DEF Publish, RunType
  <2> QED
    BY <1>0, <1>1, <1>2, <1>3, <1>5, <2>1, Passed DEF Calm
<1>6. CASE run.outbox # <<>> /\ ~closed
  <2>1. run'.pc = "send" /\ run'.outbox = run.outbox /\ run'.to = subs
    BY <1>6 DEF Publish
  <2>2. Drained \notin subs => pc = "spawned"
    BY <1>3, <1>6 DEF SyncInv, Preloading
  <2>3. Out' = Out \/ (Out' = Tail(Out) /\ Out # <<>> /\ pc = "spawned")
    BY <1>2, <1>6, <2>1, <2>2 DEF Out
  <2> QED
    BY <1>0, <1>1, <1>2, <2>1, <2>3, Passed
<1> QED
  BY <1>4, <1>5, <1>6

LEMMA SendSync ==
  ASSUME IInv, SyncInv, NEW s \in Subscribers, Send(s), UNCHANGED sessionVars
  PROVE  SyncInv'
<1>0. RunStep
  BY DEF RunStep
<1>1. UNCHANGED <<raw, inotify, watched, stop, pc>> /\ run.pc = "send" /\ s \in run.to
  BY DEF Send, diskVars, stopVars, sessionVars
<1>2. run \in RunType /\ (pc = "spawned" => chan = <<>>)
  BY <1>0, RunLeaves DEF SyncInv, Preloading
<1>3. run'.pc = "send" /\ run'.outbox = run.outbox /\ run'.to = run.to \ {s}
  BY <1>1, <1>2 DEF Send, RunType
<1>4. CASE s = Drained
  <2>1. pc # "spawned"
    BY <1>1, <1>4 DEF IInv, ChannelsOpen
  <2>2. Out = run.outbox /\ Out' = Tail(run.outbox) /\ run.outbox # <<>>
    BY <1>1, <1>3, <1>4 DEF Out, IInv, RunShape
  <2>3. Calm' => chan' = Append(chan, Head(run.outbox))
    BY <1>4 DEF Send, Calm
  <2> QED
    BY <1>0, <1>1, <1>3, <2>1, <2>2, <2>3, Passed
<1>5. CASE s # Drained
  <2>1. Out' = Out
    BY <1>1, <1>3, <1>5 DEF Out
  <2>2. chan' = chan
    BY <1>5 DEF Send
  <2> QED
    BY <1>0, <1>1, <1>2, <1>3, <2>1, <2>2, Passed
<1> QED
  BY <1>4, <1>5

LEMMA RunSync == ASSUME IInv, SyncInv, RunStep, UNCHANGED sessionVars PROVE SyncInv'
<1>1. CASE SendsDone
  <2>1. /\ UNCHANGED <<raw, inotify, watched, chan, stop, pc>> /\ run.pc = "send" /\ run.to = {}
        /\ run'.pc = "publish" /\ run'.outbox = Tail(run.outbox) /\ run'.to = {}
    BY <1>1 DEF SendsDone, diskVars, channelVars, stopVars, sessionVars
  <2>2. Out' = Out /\ (pc = "spawned" => chan = <<>>)
    BY <2>1 DEF Out, SyncInv, Preloading
  <2> QED
    BY <2>1, <2>2, Passed
<1>2. CASE RunExits
  <2>1. /\ UNCHANGED <<raw, inotify, watched, chan, stop, pc>> /\ run.pc = "select" /\ ~fswOpen
        /\ run'.pc = "exited"
    BY <1>2, RunLeaves DEF RunExits, RunType, diskVars, channelVars, stopVars, sessionVars
  <2>2. stop.pc # "no" /\ (pc = "spawned" => chan = <<>>)
    BY <2>1 DEF SyncInv, InHand, Preloading
  <2> QED
    BY <2>1, <2>2, Passed DEF Calm
<1> QED
  BY <1>1, <1>2, HandleSync, AddDirSync, ListDirSync, PublishSync, SendSync DEF RunStep

LEMMA StopSync ==
  ASSUME IInv, SyncInv, StopMarks \/ StopStep, UNCHANGED sessionVars
  PROVE  SyncInv'
<1>1. UNCHANGED <<life, text, inotify, pc, todo, work, docs, down, run, chan>>
  BY DEF StopMarks, StopStep, StopClosesFsw, StopClosesChannels, diskVars, channelVars,
     sessionVars
<1>2. stop'.pc # "no"
  <2>1. stop = [pc |-> stop.pc, taken |-> stop.taken]
    BY DEF IInv, TypeOK, WatcherTypeOK
  <2> QED
    BY <2>1 DEF StopMarks, StopStep, StopClosesFsw, StopClosesChannels
<1>3. InHand' /\ DirsWatched' /\ Preloading'
  BY <1>1, <1>2 DEF SyncInv, InHand, DirsWatched, Exists, Preloading
<1> QED
  BY <1>2, <1>3 DEF SyncInv, Converges, Calm

LEMMA ShutdownSync == ASSUME IInv, SyncInv, ShutdownStep PROVE SyncInv'
<1>1. /\ UNCHANGED <<life, text, inotify, pc, work, run, chan, stop>> /\ down' # "no"
      /\ stop.pc # "no" /\ pc \in {"loop", "ended"}
  BY DEF ShutdownStep, ShutdownTakes, ShutdownCloses, ShutdownEnds, watcherVars, diskVars,
     channelVars, stopVars, SyncInv, InHand, Preloading
<1>2. InHand' /\ DirsWatched' /\ Preloading'
  BY <1>1 DEF SyncInv, InHand, DirsWatched, Exists, Preloading
<1> QED
  BY <1>1, <1>2 DEF SyncInv, Converges, Calm

\* A step of the session: it takes events from chan, and what it has once nothing more
\* comes is what is on disk.
LEMMA SessionTracks ==
  ASSUME NEW f, Tracked(f), UNCHANGED <<life, text, inotify, raw, run>>,
         On(chan', f) => On(chan, f),
         LastFits(chan, f, text[f]) => LastFits(chan', f, text[f]),
         Followed(f) /\ Settled(f)' => Final(f)' = text[f]
  PROVE  Tracked(f)'
<1>1. Out' = Out
  BY DEF Out
<1>2. (Followed(f)' <=> Followed(f)) /\ (Unheard(f)' <=> Unheard(f))
  BY DEF Followed, Unheard
<1>3. Pending(f)' => Pending(f)
  BY <1>1 DEF Pending
<1>4. LastEventFits(f) => LastEventFits(f)'
  BY <1>1 DEF LastEventFits
<1> QED
  BY <1>2, <1>3, <1>4 DEF Tracked

LEMMA SessionSync == ASSUME IInv, SyncInv, SessionStep PROVE SyncInv'
<1> USE DEF watcherVars, diskVars, channelVars, stopVars
<1>1. /\ UNCHANGED <<life, text, inotify, raw, watched, run, stop, closed, fswOpen,
                     dropped, down>>
      /\ stop.pc = "no" => ~closed
  BY DEF SessionStep, SubscribeDrained, Subscribe, WalkFiles, PreloadRead, PreloadDone,
     TakeEvent, Notification, LoopEnds, IInv, ChannelsOpen
<1>2. DirsWatched'
  BY <1>1 DEF SyncInv, DirsWatched, Exists, ToList, ToAdd
<1>3. (Calm' <=> Calm) /\ (Calm => down = "no" /\ \A f \in Files : Tracked(f))
  BY <1>1 DEF Calm, SyncInv, InHand, Converges
<1>4. ASSUME SubscribeDrained
      PROVE  SyncInv'
  <2>1. /\ UNCHANGED <<chan, todo, work, docs>> /\ pc = "spawned" /\ pc' = "opening"
        /\ ~closed => Drained \in subs' /\ shut' = shut
    BY <1>4 DEF SubscribeDrained, Subscribe
  <2>2. InHand' /\ Preloading'
    BY <1>1, <2>1 DEF SyncInv, InHand, Preloading
  <2>3. ASSUME Calm', NEW f \in Files
        PROVE  Tracked(f)'
    BY <1>1, <1>3, <2>1, <2>3, SessionTracks DEF Settled
  <2> QED
    BY <1>2, <2>2, <2>3 DEF SyncInv, Converges
<1>5. ASSUME WalkFiles
      PROVE  SyncInv'
  <2>1. /\ UNCHANGED <<chan, subs, shut, work, docs>> /\ pc = "opening" /\ pc' = "preload"
        /\ todo' = {f \in Files : text[f] # NoText}
    BY <1>5 DEF WalkFiles
  <2>2. work = NoWork /\ \A f \in Files : docs[f] = NoText
    BY <2>1 DEF SyncInv, Preloading
  <2>3. InHand' /\ Preloading'
    BY <1>1, <2>1, <2>2 DEF SyncInv, InHand, Preloading
  <2>4. ASSUME Calm', NEW f \in Files
        PROVE  Tracked(f)'
    <3>1. Settled(f)' => Final(f)' = text[f]
      BY <2>1, <2>2 DEF Settled, Final
    <3> QED
      BY <1>1, <1>3, <2>1, <2>4, <3>1, SessionTracks
  <2> QED
    BY <1>2, <2>3, <2>4 DEF SyncInv, Converges
<1>6. ASSUME NEW g \in Files, PreloadRead(g)
      PROVE  SyncInv'
  <2>1. /\ UNCHANGED <<chan, subs, shut, docs, pc>> /\ pc = "preload" /\ work = NoWork
        /\ g \in todo /\ todo' = todo \ {g}
        /\ text[g] = NoText => work' = NoWork
        /\ text[g] # NoText => work' = [do |-> "open", file |-> g, text |-> text[g]]
    BY <1>6 DEF PreloadRead
  <2>2. /\ work' # NoWork => work'.file = g
        /\ text[g] # NoText => work' # NoWork /\ work'.text = text[g]
    BY <2>1 DEF NoWork
  <2>3. docs[g] = NoText
    BY <2>1 DEF SyncInv, Preloading
  <2>4. InHand' /\ Preloading'
    BY <1>1, <2>1, <2>2 DEF SyncInv, InHand, Preloading
  <2>5. ASSUME Calm', NEW f \in Files
        PROVE  Tracked(f)'
    <3>1. Followed(f) /\ Settled(f)' => Final(f)' = text[f]
      <4>1. CASE f = g
        BY <2>1, <2>2, <2>3, <4>1 DEF Final
      <4>2. CASE f # g
        <5>1. Final(f)' = Final(f)
          BY <2>1, <2>2, <4>2 DEF Final
        <5>2. Settled(f)' => Settled(f)
          BY <1>1, <2>1, <4>2 DEF Settled, Pending, Out, ToList, ToAdd
        <5>3. Followed(f) /\ Settled(f)' => Final(f) = text[f]
          BY <1>3, <2>5, <5>2 DEF Tracked
        <5> QED
          BY <5>1, <5>3
      <4> QED
        BY <4>1, <4>2
    <3> QED
      BY <1>1, <1>3, <2>1, <2>5, <3>1, SessionTracks
  <2> QED
    BY <1>2, <2>4, <2>5 DEF SyncInv, Converges
<1>7. ASSUME PreloadDone
      PROVE  SyncInv'
  <2>1. /\ UNCHANGED <<chan, subs, shut, work, docs, todo>> /\ pc = "preload" /\ pc' = "loop"
        /\ todo = {}
    BY <1>7 DEF PreloadDone
  <2>2. InHand' /\ Preloading'
    BY <1>1, <2>1 DEF SyncInv, InHand, Preloading
  <2>3. ASSUME Calm', NEW f \in Files
        PROVE  Tracked(f)'
    <3>1. Final(f)' = Final(f)
      BY <2>1 DEF Final
    <3>2. Settled(f)' => Settled(f)
      BY <1>1, <2>1 DEF Settled, Pending, Out, ToList, ToAdd
    <3>3. Followed(f) /\ Settled(f)' => Final(f)' = text[f]
      BY <1>3, <2>3, <3>1, <3>2 DEF Tracked
    <3> QED
      BY <1>1, <1>3, <2>1, <2>3, <3>3, SessionTracks
  <2> QED
    BY <1>2, <2>2, <2>3 DEF SyncInv, Converges
<1>8. ASSUME TakeEvent
      PROVE  SyncInv'
  <2> DEFINE e == Head(chan)
  <2>1. /\ UNCHANGED <<subs, shut, docs, todo, pc, opened>> /\ pc = "loop" /\ work = NoWork
        /\ chan # <<>> /\ chan' = Tail(chan)
    BY <1>8 DEF TakeEvent
  <2>2. work' =
          IF e.path \notin Files THEN NoWork
          ELSE IF e.op = "delete"
            THEN IF e.path \in opened
                   THEN [do |-> "close", file |-> e.path, text |-> NoText] ELSE NoWork
          ELSE IF text[e.path] = NoText THEN NoWork
          ELSE [do |-> IF e.path \in opened THEN "change" ELSE "open",
                file |-> e.path, text |-> text[e.path]]
    BY <1>8 DEF TakeEvent
  <2>3. chan \in Seq(Event)
    BY DEF IInv, TypeOK, WatcherTypeOK
  <2>4. ASSUME NEW f
        PROVE  /\ On(chan, f) <=> e.path = f \/ On(chan', f)
               /\ LastFits(chan, f, text[f]) => LastFits(chan', f, text[f])
               /\ LastFits(chan, f, text[f]) /\ e.path = f /\ ~On(chan', f) =>
                    Fits(e, text[f])
    BY <2>1, <2>3, Handled
  <2> HIDE DEF e
  <2>5. /\ work' # NoWork => work'.file = e.path
        /\ e.path \in Files /\ e.op = "delete" /\ e.path \in opened =>
             work' # NoWork /\ work'.text = NoText
        /\ e.path \in Files /\ e.op = "delete" /\ e.path \notin opened => work' = NoWork
        /\ e.path \in Files /\ e.op # "delete" /\ text[e.path] # NoText =>
             work' # NoWork /\ work'.text = text[e.path]
    BY <2>2 DEF NoWork
  <2>6. InHand' /\ Preloading'
    BY <1>1, <2>1 DEF SyncInv, InHand, Preloading
  <2>7. ASSUME Calm', NEW f \in Files
        PROVE  Tracked(f)'
    <3>1. Followed(f) /\ Settled(f)' => Final(f)' = text[f]
      <4>1. CASE e.path = f
        <5> SUFFICES ASSUME Followed(f), Settled(f)'
                     PROVE  Final(f)' = text[f]
          OBVIOUS
        <5>1. ~On(raw, f) /\ ~On(Out, f) /\ ~On(chan', f)
          BY <1>1 DEF Settled, Pending, Out
        <5>2. Fits(e, text[f])
          BY <1>3, <2>4, <2>7, <4>1, <5>1 DEF Tracked, LastEventFits
        <5>3. e.op = "delete" /\ f \notin opened => docs[f] = NoText
          BY <1>3, <2>7 DEF IInv, OpenSetKept
        <5> QED
          BY <2>1, <2>5, <4>1, <5>2, <5>3 DEF Final, Fits
      <4>2. CASE e.path # f
        <5>1. Final(f)' = Final(f)
          BY <2>1, <2>5, <4>2 DEF Final
        <5>2. On(chan', f) <=> On(chan, f)
          BY <2>4, <4>2
        <5>3. Settled(f)' => Settled(f)
          BY <1>1, <2>1, <5>2 DEF Settled, Pending, Out, ToList, ToAdd
        <5>4. Followed(f) /\ Settled(f)' => Final(f) = text[f]
          BY <1>3, <2>7, <5>3 DEF Tracked
        <5> QED
          BY <5>1, <5>4
      <4> QED
        BY <4>1, <4>2
    <3> QED
      BY <1>1, <1>3, <2>4, <2>7, <3>1, SessionTracks
  <2> QED
    BY <1>2, <2>6, <2>7 DEF SyncInv, Converges
<1>9. ASSUME Notification
      PROVE  SyncInv'
  <2>1. /\ UNCHANGED <<chan, subs, shut, todo, pc>> /\ work # NoWork /\ work' = NoWork
        /\ docs' = IF down = "done" \/ (work.do = "change" /\ docs[work.file] = NoText)
                     THEN docs ELSE [docs EXCEPT ![work.file] = work.text]
    BY <1>9 DEF Notification
  <2>2. docs \in [Files -> Texts \cup {NoText}] /\ work.file \in Files
    BY <2>1 DEF IInv, TypeOK
  <2>3. \A f \in Files : f # work.file => docs'[f] = docs[f]
    BY <2>1, <2>2
  <2>4. InHand' /\ Preloading'
    BY <1>1, <2>1, <2>3 DEF SyncInv, InHand, Preloading
  <2>5. ASSUME Calm', NEW f \in Files
        PROVE  Tracked(f)'
    <3>1. docs'[work.file] = work.text
      BY <1>3, <2>1, <2>2, <2>5 DEF IInv, WorkFits, OpenSetKept
    <3>2. Final(f)' = Final(f)
      BY <2>1, <2>3, <3>1 DEF Final
    <3>3. Settled(f)' => Settled(f)
      BY <1>1, <2>1 DEF Settled, Pending, Out, ToList, ToAdd
    <3>4. Followed(f) /\ Settled(f)' => Final(f)' = text[f]
      BY <1>3, <2>5, <3>2, <3>3 DEF Tracked
    <3> QED
      BY <1>1, <1>3, <2>1, <2>5, <3>4, SessionTracks
  <2> QED
    BY <1>2, <2>4, <2>5 DEF SyncInv, Converges
<1>10. ASSUME LoopEnds
       PROVE  SyncInv'
  <2>1. /\ UNCHANGED <<chan, subs, shut, todo, work, docs>> /\ pc = "loop" /\ pc' = "ended"
        /\ Drained \in shut
    BY <1>10 DEF LoopEnds
  <2>2. stop.pc # "no"
    BY <2>1 DEF SyncInv, InHand
  <2>3. InHand' /\ Preloading'
    BY <1>1, <2>1, <2>2 DEF SyncInv, InHand, Preloading
  <2> QED
    BY <1>1, <1>2, <2>2, <2>3 DEF SyncInv, Converges, Calm
<1> QED
  BY <1>4, <1>5, <1>6, <1>7, <1>8, <1>9, <1>10 DEF SessionStep

LEMMA SyncInvStep == IInv /\ SyncInv /\ [Next]_vars => SyncInv'
<1> SUFFICES ASSUME IInv, SyncInv, [Next]_vars
             PROVE  SyncInv'
  OBVIOUS
<1>1. CASE DiskStep /\ UNCHANGED sessionVars
  BY <1>1, DiskSync
<1>2. CASE RunStep /\ UNCHANGED sessionVars
  BY <1>2, RunSync
<1>3. CASE (StopMarks \/ StopStep) /\ UNCHANGED sessionVars
  BY <1>3, StopSync
<1>4. CASE SessionStep
  BY <1>4, SessionSync
<1>5. CASE ShutdownStep
  BY <1>5, ShutdownSync
<1>6. CASE UNCHANGED vars
  BY <1>6 DEF vars, watcherVars, diskVars, stopVars, channelVars, sessionVars, SyncInv,
     InHand, DirsWatched, Exists, ToList, ToAdd, Preloading, Converges, Calm, Tracked,
     Followed, Unheard, LastEventFits, Settled, Final, Pending, Out
<1> QED
  BY <1>1, <1>2, <1>3, <1>4, <1>5, <1>6 DEF Next, Finished

-----------------------------------------------------------------------------
\* The watcher and the session are type correct; a subscriber's channel never holds
\* more than its buffer.
THEOREM TypeCorrect == Spec => []TypeOK
<1>1. IInv => TypeOK
  BY DEF IInv
<1> QED
  BY <1>1, Invariance, PTL

\* publish never sends on a channel that Stop or a late Subscribe has closed, for any
\* number of subscribers.
THEOREM NoSendOnClosedChannelHolds == Spec => []NoSendOnClosedChannel
<1>1. IInv => NoSendOnClosedChannel
  BY DEF IInv, ChannelsOpen, NoSendOnClosedChannel
<1> QED
  BY <1>1, Invariance, PTL

\* Until Shutdown begins, the session's open set is the server's whenever no notification
\* is on its way, for any sequence of events.
THEOREM OpenSetAgreesHolds == Spec => []OpenSetAgrees
<1>1. IInv => OpenSetAgrees
  BY DEF IInv, OpenSetKept, OpenSetAgrees
<1> QED
  BY <1>1, Invariance, PTL

\* However the disk changes, when every event has been handled and none was dropped,
\* the server has the latest text of a file on disk, for any files, any directories and
\* any bound on the buffers.
THEOREM FollowsDiskHolds == Spec => []FollowsDisk
<1>1. IInv /\ SyncInv => FollowsDisk
  <2> SUFFICES ASSUME IInv, SyncInv, Quiescent, ~dropped, NEW f \in Files
               PROVE  \/ InSync(f)
                      \/ DirOf[f] # Root /\ life[DirOf[f]] \in {"again", "lost"}
                      \/ /\ DirOf[f] # Root /\ life[DirOf[f]] \in {"new", "gone"}
                         /\ text[f] = NoText
    BY DEF FollowsDisk
  <2>1. /\ pc = "loop" /\ work = NoWork /\ raw = <<>> /\ run.pc = "select" /\ chan = <<>>
        /\ stop.pc = "no"
    BY DEF Quiescent
  <2>2. Out = <<>> /\ todo = {} /\ Tracked(f)
    BY <2>1 DEF Out, SyncInv, InHand, Preloading, Converges, Calm
  <2>3. ~Pending(f)
    BY <2>1, <2>2, EmptyQueue DEF Pending
  <2>4. ~ToList(DirOf[f])
    BY <2>1, EmptyQueue DEF ToList, ToAdd
  <2>5. DirOf[f] # Root => life[DirOf[f]] \in Lives
    BY DEF IInv, TypeOK, WatcherTypeOK
  <2>6. CASE Followed(f)
    BY <2>1, <2>2, <2>3, <2>4, <2>6 DEF Tracked, Settled, Final, InSync
  <2>7. CASE ~Followed(f)
    <3>1. life[DirOf[f]] = "gone" => text[f] = NoText
      BY <2>7 DEF SyncInv, DirsWatched, Exists, Followed
    <3> QED
      BY <2>5, <2>7, <3>1 DEF Followed, Lives
  <2> QED
    BY <2>6, <2>7
<1> QED
  BY <1>1, Invariance, IInvInit, SyncInvInit, SyncInvStep, PTL DEF Spec

-----------------------------------------------------------------------------
\* After Stop.

\* Stop closes fsw before it waits for run, and Drained is a subscriber once it has
\* subscribed, or was one when Stop took them all, or has a closed channel.
StopOrder ==
  /\ stop.pc \in {"closing", "stopped"} => ~fswOpen
  /\ stop.pc = "no" => stop.taken = {}
  /\ stop.pc = "stopped" => stop.taken \subseteq shut
  /\ pc # "spawned" => Drained \in subs \cup stop.taken \cup shut

\* The guards of run, of Stop once it has marked the watcher, of the session's goroutine
\* and of Shutdown.
CanRun ==
  \/ run.pc = "select" /\ (raw # <<>> \/ ~fswOpen)
  \/ run.pc \in {"add", "publish"}
  \/ run.pc = "send" /\ (run.to = {} \/ run.to \cap Subscribers # {})
  \/ /\ run.pc = "list"
     /\ \E order \in [1..Cardinality(FilesIn(Head(run.outbox).path)) ->
                        FilesIn(Head(run.outbox).path)] :
          \A i, j \in DOMAIN order : order[i] = order[j] => i = j

CanStop == stop.pc = "marked" \/ (stop.pc = "closing" /\ run.pc = "exited")

CanFollow ==
  \/ pc \in {"spawned", "opening"}
  \/ work # NoWork
  \/ pc = "preload" /\ (todo = {} \/ todo \cap Files # {})
  \/ pc = "loop" /\ (chan # <<>> \/ Drained \in shut)

CanShutDown ==
  \/ down = "no" /\ stop.pc = "stopped" /\ pc \in {"loop", "ended"}
  \/ down = "closing" /\ (todo = {} \/ todo \cap Files # {})

SomethingCanRun == CanRun \/ CanStop \/ CanFollow \/ CanShutDown

LEMMA StopOrderInit == Init => StopOrder
  BY DEF Init, WatcherInit, StopOrder

LEMMA StopOrderStep == ASSUME IInv, StopOrder, [Next]_vars PROVE StopOrder'
<1>0. /\ stop.pc \in {"no", "marked", "closing", "stopped"}
      /\ stop = [pc |-> stop.pc, taken |-> stop.taken]
      /\ closed => subs = {}
  BY DEF IInv, TypeOK, WatcherTypeOK, ChannelsOpen
<1>1. CASE DiskStep /\ UNCHANGED sessionVars
  BY <1>1 DEF DiskStep, Save, Delete, MakeDir, RemoveDir, stopVars, sessionVars, StopOrder
<1>2. CASE RunStep /\ UNCHANGED sessionVars
  BY <1>2 DEF RunStep, Handle, AddDir, ListDir, Publish, Send, SendsDone, RunExits, stopVars,
     sessionVars, StopOrder
<1>3. CASE (StopMarks \/ StopStep) /\ UNCHANGED sessionVars
  <2>1. CASE StopMarks
    <3>1. stop'.pc = "marked" /\ stop'.taken = subs /\ subs' = {} /\ shut' = shut
      BY <2>1 DEF StopMarks
    <3> QED
      BY <1>3, <2>1, <3>1 DEF StopMarks, sessionVars, StopOrder
  <2>2. CASE StopClosesFsw
    <3>1. stop' = [pc |-> "closing", taken |-> stop.taken]
      BY <1>0, <2>2 DEF StopClosesFsw
    <3> QED
      BY <1>3, <2>2, <3>1 DEF StopClosesFsw, sessionVars, StopOrder
  <2>3. CASE StopClosesChannels
    <3>1. stop' = [pc |-> "stopped", taken |-> stop.taken]
      BY <1>0, <2>3 DEF StopClosesChannels
    <3> QED
      BY <1>3, <2>3, <3>1 DEF StopClosesChannels, sessionVars, StopOrder
  <2> QED
    BY <1>3, <2>1, <2>2, <2>3 DEF StopStep
<1>4. CASE SubscribeDrained
  BY <1>4 DEF SubscribeDrained, Subscribe, StopOrder
<1>5. CASE SessionStep /\ ~SubscribeDrained
  <2>1. UNCHANGED <<stop, shut, fswOpen, subs>> /\ (pc' = pc \/ pc # "spawned")
    BY <1>5 DEF SessionStep, WalkFiles, PreloadRead, PreloadDone, TakeEvent, Notification,
       LoopEnds, watcherVars, stopVars
  <2> QED
    BY <2>1 DEF StopOrder
<1>6. CASE ShutdownStep \/ Finished \/ UNCHANGED vars
  BY <1>6 DEF ShutdownStep, ShutdownTakes, ShutdownCloses, ShutdownEnds, Finished, vars,
     sessionVars, watcherVars, StopOrder
<1> QED
  BY <1>1, <1>2, <1>3, <1>4, <1>5, <1>6 DEF Next

\* There is an order to list a directory in.
LEMMA SomeOrder ==
  ASSUME NEW d
  PROVE  \E order \in [1..Cardinality(FilesIn(d)) -> FilesIn(d)] :
           \A i, j \in DOMAIN order : order[i] = order[j] => i = j
<1>1. IsFiniteSet(FilesIn(d))
  <2>1. FilesIn(d) \subseteq Files
    BY DEF FilesIn
  <2> QED
    BY <2>1, FS_Subset
<1>2. ExistsBijection(1..Cardinality(FilesIn(d)), FilesIn(d))
  BY <1>1, FS_CardinalityType
<1>3. PICK order \in Bijection(1..Cardinality(FilesIn(d)), FilesIn(d)) : TRUE
  BY <1>2 DEF ExistsBijection
<1> QED
  BY <1>3 DEF Bijection, Injection, IsInjective

\* StopEndsEverything with the guards of the actions for their ENABLED, which the provers
\* cannot take: once Stop has been called, whatever the subscribers do, one of the
\* goroutines can run until all of them have returned.
THEOREM StopNeverHangs ==
  Spec => [](closed /\ ~SomethingCanRun => stop.pc = "stopped" /\ pc = "ended" /\ down = "done")
<1>1. ASSUME IInv, StopOrder, closed, ~SomethingCanRun
      PROVE  stop.pc = "stopped" /\ pc = "ended" /\ down = "done"
  <2> USE <1>1 DEF SomethingCanRun
  <2>1. /\ stop.pc \in {"no", "marked", "closing", "stopped"}
        /\ run.pc \in {"select", "add", "list", "publish", "send", "exited"}
        /\ run.to \subseteq Subscribers /\ todo \subseteq Files
        /\ pc \in {"spawned", "opening", "preload", "loop", "ended"}
        /\ down \in {"no", "closing", "done"}
    BY DEF IInv, TypeOK, WatcherTypeOK
  <2>2. stop.pc \in {"closing", "stopped"} /\ subs = {}
    BY <2>1 DEF IInv, ChannelsOpen, CanStop
  <2>3. ~fswOpen
    BY <2>2 DEF StopOrder
  <2>4. run.pc = "exited"
    BY <2>1, <2>3, SomeOrder DEF CanRun
  <2>5. stop.pc = "stopped"
    BY <2>2, <2>4 DEF CanStop
  <2>6. pc # "spawned" => Drained \in shut
    BY <2>2, <2>5 DEF StopOrder
  <2>7. pc = "ended"
    BY <2>1, <2>6 DEF CanFollow
  <2>8. down = "done"
    BY <2>1, <2>5, <2>7 DEF CanShutDown
  <2> QED
    BY <2>5, <2>7, <2>8
<1>2. IInv /\ StopOrder /\ [Next]_vars => StopOrder'
  BY StopOrderStep
<1>3. IInv /\ StopOrder =>
        (closed /\ ~SomethingCanRun => stop.pc = "stopped" /\ pc = "ended" /\ down = "done")
  BY <1>1
<1> QED
  BY <1>2, <1>3, Invariance, StopOrderInit, PTL DEF Spec

\* What is left to do after Stop, most important first: for Stop itself, for run, for
\* the session's goroutine and for Shutdown.
StopLeft(at) == CASE at = "marked" -> 2 [] at = "closing" -> 1 [] OTHER -> 0

RunLeft(at) ==
  CASE at = "add" -> 4 [] at = "list" -> 3 [] at \in {"publish", "send"} -> 2
    [] at = "select" -> 1 [] OTHER -> 0

FollowLeft(at) ==
  CASE at = "spawned" -> 4 [] at = "opening" -> 3 [] at = "preload" -> 2 [] at = "loop" -> 1
    [] OTHER -> 0

DownLeft(at) == CASE at = "no" -> 2 [] at = "closing" -> 1 [] OTHER -> 0

RunCloser ==
  \/ Len(raw') < Len(raw)
  \/ /\ raw' = raw
     /\ \/ RunLeft(run'.pc) < RunLeft(run.pc)
        \/ /\ RunLeft(run'.pc) = RunLeft(run.pc)
           /\ Len(run'.outbox) < Len(run.outbox)
        \/ /\ RunLeft(run'.pc) = RunLeft(run.pc)
           /\ run'.outbox = run.outbox
           /\ \E s \in run.to : run'.to = run.to \ {s}

FollowCloser ==
  \/ FollowLeft(pc') < FollowLeft(pc)
  \/ pc' = pc /\ \E f \in todo : todo' = todo \ {f}
  \/ UNCHANGED <<pc, todo>> /\ Len(chan') < Len(chan)
  \/ UNCHANGED <<pc, todo, chan>> /\ work # NoWork /\ work' = NoWork

DownCloser == DownLeft(down') < DownLeft(down)
              \/ (down' = down /\ \E f \in todo : todo' = todo \ {f})

\* Once fsw is closed the disk changes nothing here, and each step of a goroutine lowers
\* its own part and raises none that comes before it in this list: Stop, run (its
\* events, its place, its outbox, the sends to make), then the session and Shutdown
\* (their places, the files to do, the events in the channel, the notification).
EverythingComesCloser ==
  ~fswOpen =>
    /\ DiskStep => UNCHANGED <<raw, run, stop, chan, shut>>
    /\ StopStep => StopLeft(stop'.pc) < StopLeft(stop.pc)
    /\ RunStep => UNCHANGED stop /\ RunCloser
    /\ SessionStep => UNCHANGED <<stop, raw, run, down>> /\ FollowCloser
    /\ ShutdownStep => UNCHANGED <<stop, raw, run, pc, chan, work>> /\ DownCloser

\* Only Stop closes fsw, after it has marked the watcher.
ClosedFirst == ~fswOpen => closed

LEMMA ClosedFirstStep == IInv /\ ClosedFirst /\ [Next]_vars => ClosedFirst'
<1> SUFFICES ASSUME IInv, ClosedFirst, [Next]_vars
             PROVE  ClosedFirst'
  OBVIOUS
<1>1. CASE StopStep
  BY <1>1 DEF StopStep, StopClosesFsw, StopClosesChannels, IInv, ChannelsOpen, ClosedFirst
<1>2. CASE StopMarks
  BY <1>2 DEF StopMarks, ClosedFirst
<1>3. CASE UNCHANGED <<fswOpen, closed>>
  BY <1>3 DEF ClosedFirst
<1>4. DiskStep \/ RunStep => UNCHANGED <<fswOpen, closed>>
  BY DEF DiskStep, Save, Delete, MakeDir, RemoveDir, RunStep, Handle, AddDir, ListDir, Publish,
     Send, SendsDone, RunExits, stopVars
<1>5. SessionStep \/ ShutdownStep \/ UNCHANGED vars => UNCHANGED <<fswOpen, closed>>
  BY DEF SessionStep, SubscribeDrained, Subscribe, WalkFiles, PreloadRead, PreloadDone,
     TakeEvent, Notification, LoopEnds, ShutdownStep, ShutdownTakes, ShutdownCloses, ShutdownEnds,
     vars, watcherVars, stopVars
<1> QED
  BY <1>1, <1>2, <1>3, <1>4, <1>5 DEF Next, Finished

LEMMA RunComesCloser ==
  ASSUME IInv, closed, RunStep
  PROVE  UNCHANGED stop /\ RunCloser
<1> USE DEF RunLeft, RunCloser, stopVars
<1>0. /\ raw \in Seq(Event) /\ run \in RunType
      /\ run.pc = "send" => run.outbox # <<>>
      /\ run.pc # "send" => run.to = {}
  BY DEF IInv, TypeOK, WatcherTypeOK, RunShape, RunType
<1>1. CASE Handle
  BY <1>0, <1>1 DEF Handle
<1>2. CASE AddDir
  BY <1>0, <1>2 DEF AddDir, RunType
<1>3. CASE ListDir
  <2>1. run.pc = "list" /\ run'.pc = "publish" /\ raw' = raw /\ UNCHANGED stop
    BY <1>3 DEF ListDir
  <2> QED
    BY <2>1
<1>4. CASE Publish
  <2>1. CASE run.outbox = <<>>
    BY <1>0, <1>4, <2>1 DEF Publish, RunType
  <2>2. CASE run.outbox # <<>>
    <3>1. run' = [run EXCEPT !.outbox = Tail(run.outbox)] /\ run.pc = "publish"
      BY <1>4, <2>2 DEF Publish
    <3>2. run'.pc = run.pc /\ run'.outbox = Tail(run.outbox) /\ run.outbox \in Seq(Event)
      BY <1>0, <3>1 DEF RunType
    <3>3. Len(run'.outbox) < Len(run.outbox)
      BY <2>2, <3>2
    <3> QED
      BY <1>4, <3>2, <3>3 DEF Publish
  <2> QED
    BY <2>1, <2>2
<1>5. ASSUME NEW s \in Subscribers, Send(s)
      PROVE  UNCHANGED stop /\ RunCloser
  <2>1. run' = [run EXCEPT !.to = @ \ {s}] /\ s \in run.to /\ raw' = raw /\ UNCHANGED stop
    BY <1>5 DEF Send
  <2>2. run'.pc = run.pc /\ run'.outbox = run.outbox /\ run'.to = run.to \ {s}
    BY <1>0, <2>1 DEF RunType
  <2> QED
    BY <2>1, <2>2
<1>6. CASE SendsDone
  <2>1. /\ run.pc = "send" /\ run'.pc = "publish" /\ run'.outbox = Tail(run.outbox)
        /\ raw' = raw /\ UNCHANGED stop
    BY <1>6 DEF SendsDone
  <2>2. Len(run'.outbox) < Len(run.outbox)
    BY <1>0, <2>1 DEF RunType
  <2> QED
    BY <2>1, <2>2
<1>7. CASE RunExits
  BY <1>0, <1>7 DEF RunExits, RunType
<1> QED
  BY <1>1, <1>2, <1>3, <1>4, <1>5, <1>6, <1>7 DEF RunStep

LEMMA SessionComesCloser ==
  ASSUME IInv
  PROVE  /\ SessionStep => UNCHANGED <<stop, raw, run, down>> /\ FollowCloser
         /\ ShutdownStep => UNCHANGED <<stop, raw, run, pc, chan, work>> /\ DownCloser
<1> USE DEF FollowLeft, DownLeft, FollowCloser, DownCloser, watcherVars
<1>1. ASSUME SubscribeDrained
      PROVE  UNCHANGED <<stop, raw, run, down>> /\ FollowCloser
  BY <1>1 DEF SubscribeDrained, Subscribe, diskVars, channelVars
<1>2. ASSUME WalkFiles \/ PreloadDone \/ LoopEnds
      PROVE  UNCHANGED <<stop, raw, run, down>> /\ FollowCloser
  BY <1>2 DEF WalkFiles, PreloadDone, LoopEnds
<1>3. ASSUME NEW f \in Files, PreloadRead(f)
      PROVE  UNCHANGED <<stop, raw, run, down>> /\ FollowCloser
  BY <1>3 DEF PreloadRead
<1>4. ASSUME TakeEvent
      PROVE  UNCHANGED <<stop, raw, run, down>> /\ FollowCloser
  <2>1. Len(chan') < Len(chan)
    BY <1>4 DEF TakeEvent, IInv, TypeOK, WatcherTypeOK
  <2> QED
    BY <1>4, <2>1 DEF TakeEvent, stopVars
<1>5. ASSUME Notification
      PROVE  UNCHANGED <<stop, raw, run, down>> /\ FollowCloser
  BY <1>5 DEF Notification
<1>6. ASSUME ShutdownTakes \/ ShutdownEnds
      PROVE  UNCHANGED <<stop, raw, run, pc, chan, work>> /\ DownCloser
  BY <1>6 DEF ShutdownTakes, ShutdownEnds
<1>7. ASSUME NEW f \in Files, ShutdownCloses(f)
      PROVE  UNCHANGED <<stop, raw, run, pc, chan, work>> /\ DownCloser
  BY <1>7 DEF ShutdownCloses
<1>8. SessionStep => UNCHANGED <<stop, raw, run, down>> /\ FollowCloser
  BY <1>1, <1>2, <1>3, <1>4, <1>5 DEF SessionStep
<1>9. ShutdownStep => UNCHANGED <<stop, raw, run, pc, chan, work>> /\ DownCloser
  BY <1>6, <1>7 DEF ShutdownStep
<1> QED
  BY <1>8, <1>9

\* The other half of StopEndsEverything: after Stop has closed fsw the goroutines cannot
\* run for ever, because each of their steps lowers a measure that no other raises.
THEOREM StopComesToAnEnd == Spec => [][EverythingComesCloser]_vars
<1>1. IInv /\ ClosedFirst /\ [Next]_vars => [EverythingComesCloser]_vars
  <2> SUFFICES ASSUME IInv, closed, ~fswOpen
               PROVE  /\ DiskStep => UNCHANGED <<raw, run, stop, chan, shut>>
                      /\ StopStep => StopLeft(stop'.pc) < StopLeft(stop.pc)
                      /\ RunStep => UNCHANGED stop /\ RunCloser
                      /\ SessionStep => UNCHANGED <<stop, raw, run, down>> /\ FollowCloser
                      /\ ShutdownStep =>
                           UNCHANGED <<stop, raw, run, pc, chan, work>> /\ DownCloser
    BY DEF EverythingComesCloser, ClosedFirst
  <2>1. DiskStep => UNCHANGED <<raw, run, stop, chan, shut>>
    BY DEF DiskStep, Save, Delete, MakeDir, RemoveDir, Notify, stopVars, channelVars
  <2>2. StopStep => StopLeft(stop'.pc) < StopLeft(stop.pc)
    <3>1. stop \in [pc : {"no", "marked", "closing", "stopped"}, taken : SUBSET Subscribers]
      BY DEF IInv, TypeOK, WatcherTypeOK
    <3>2. CASE StopClosesFsw
      BY <3>1, <3>2 DEF StopClosesFsw, StopLeft
    <3>3. CASE StopClosesChannels
      BY <3>1, <3>3 DEF StopClosesChannels, StopLeft
    <3> QED
      BY <3>2, <3>3 DEF StopStep
  <2> QED
    BY <2>1, <2>2, RunComesCloser, SessionComesCloser
<1>2. Init => ClosedFirst
  BY DEF Init, WatcherInit, ClosedFirst
<1> QED
  BY <1>1, <1>2, ClosedFirstStep, Invariance, PTL DEF Spec
=============================================================================
