------------------------------ MODULE LspConn ------------------------------
(***************************************************************************)
(* The JSON-RPC connection to a language server (adapters/lsp/rpc.go):     *)
(* goroutines that call, the mutex held across each write to the server's  *)
(* stdin, the readLoop that matches responses to pending calls, progress   *)
(* counting, and waitForIdle, which holds back a session until the         *)
(* server's initial indexing has settled.                                  *)
(*                                                                         *)
(* The server is external. It answers in any order, possibly twice, sends  *)
(* requests of its own whose ids may coincide with ours, reports progress, *)
(* may leave its stdin unread while the pipe is full, may break the        *)
(* framing of its output, and may exit at any time.                        *)
(***************************************************************************)
EXTENDS Naturals, Sequences, FiniteSets

CONSTANTS
  Callers,    \* goroutines that use the connection
  MaxCalls,   \* bound: calls made over the connection's life
  MaxWire,    \* bound: messages in the server's stdout pipe
  MaxPhases   \* bound: progress phases the server goes through

ASSUME BoundsAssumption ==
  /\ MaxCalls \in Nat
  /\ MaxWire \in Nat
  /\ MaxPhases \in Nat

\* The mutex is held by a caller, by readLoop or by nobody.
ASSUME HoldersAssumption == {"reader", "free"} \cap Callers = {}

VARIABLES
  nextID,     \* conn.nextID
  pending,    \* the keys of conn.pending
  chan,       \* chan[i]: what is in the one-place buffer of call i's channel
  call,       \* each goroutine's current or last call
  mu,         \* conn.mu: who holds it, or "free"
  reader,     \* control of readLoop, with the call it is about to answer
  done,       \* conn.done is closed
  flight,     \* conn.progFlight
  began,      \* conn.progBeganCh is closed
  quiet,      \* quietPeriod has passed since conn.progLastChange
  waiter,     \* control of waitForIdle
  waitCtx,    \* the context of waitForIdle is cancelled
  server,     \* the language server
  wire        \* what it has written to stdout and readLoop has not read

vars == <<nextID, pending, chan, call, mu, reader, done, flight, began, quiet,
          waiter, waitCtx, server, wire>>

callVars   == <<nextID, call, mu>>
progVars   == <<flight, began, quiet>>
waitVars   == <<waiter, waitCtx>>
serverVars == <<server, wire>>

Ids == 1..MaxCalls

Message ==
  [kind : {"response", "request"}, id : Ids]
  \cup [kind : {"begin", "report", "end", "broken"}]

CallType == [pc : {"idle", "sending", "waiting", "cleanup"},
             id : 0..MaxCalls,
             cancelled : BOOLEAN,
             result : {"none", "response", "ctx", "closed", "send"}]

\* room: its stdin pipe takes another message; broke: it has broken the framing;
\* reqs: requests written to it; answered: those it has answered; open: progress
\* tokens it has begun and not ended; phases: begins it has sent; create: where it
\* is in the window/workDoneProgress/create exchange that goes before a begin.
ServerType == [up : BOOLEAN, room : BOOLEAN, broke : BOOLEAN,
               reqs : SUBSET Ids, answered : SUBSET Ids,
               open : 0..MaxPhases, phases : 0..MaxPhases,
               create : {"no", "sent", "acked"}]

TypeOK ==
  /\ nextID \in 0..MaxCalls
  /\ pending \in SUBSET Ids
  /\ chan \in [Ids -> {"empty", "full"}]
  /\ call \in [Callers -> CallType]
  /\ mu \in Callers \cup {"reader", "free"}
  /\ reader \in [pc : {"reading", "delivering", "acking", "exited"}, id : 0..MaxCalls]
  /\ done \in BOOLEAN
  /\ flight \in Nat
  /\ began \in BOOLEAN
  /\ quiet \in BOOLEAN
  /\ waiter \in {"phase1", "phase2", "returned"}
  /\ waitCtx \in BOOLEAN
  /\ server \in ServerType
  /\ wire \in Seq(Message)

Init ==
  /\ nextID = 0
  /\ pending = {}
  /\ chan = [i \in Ids |-> "empty"]
  /\ call = [c \in Callers |->
               [pc |-> "idle", id |-> 0, cancelled |-> FALSE, result |-> "none"]]
  /\ mu = "free"
  /\ reader = [pc |-> "reading", id |-> 0]
  /\ done = FALSE
  /\ flight = 0
  /\ began = FALSE
  /\ quiet = TRUE
  /\ waiter = "phase1"
  /\ waitCtx = FALSE
  /\ server = [up |-> TRUE, room |-> TRUE, broke |-> FALSE, reqs |-> {}, answered |-> {},
               open |-> 0, phases |-> 0, create |-> "no"]
  /\ wire = <<>>

-----------------------------------------------------------------------------
\* conn.call.

\* Mutants: two calls share an id; a call is not taken out of pending.
SameID    == 1
Keep(id)  == pending

NextID     == nextID + 1
Forget(id) == pending \ {id}

\* Take an id and register the channel: the id is private until then.
StartCall(c) ==
  /\ call[c].pc = "idle"
  /\ nextID < MaxCalls
  /\ nextID' = NextID
  /\ pending' = pending \cup {NextID}
  /\ call' = [call EXCEPT ![c] = [pc |-> "sending", id |-> NextID,
                                  cancelled |-> FALSE, result |-> "none"]]
  /\ UNCHANGED <<chan, mu, reader, done, progVars, waitVars, serverVars>>

\* c.send holds c.mu across its write. Callers and readLoop, for its acknowledgements,
\* compete for it, and none of them watches a context or done while it waits.
Sending(a) == IF a = "reader" THEN reader.pc = "acking" ELSE call[a].pc = "sending"

Lock(a) ==
  /\ Sending(a)
  /\ mu = "free"
  /\ mu' = a
  /\ UNCHANGED <<nextID, call, pending, chan, reader, done, progVars, waitVars, serverVars>>

\* The write blocks while the pipe of a live server is full, whatever becomes of the
\* call's context. Writing to a server that has exited fails.
SendRequest(c) ==
  /\ mu = c
  /\ mu' = "free"
  /\ \/ /\ server.up /\ server.room
        /\ server' = [server EXCEPT !.reqs = @ \cup {call[c].id}]
        /\ call' = [call EXCEPT ![c].pc = "waiting"]
     \/ /\ ~server.up
        /\ call' = [call EXCEPT ![c].pc = "cleanup", ![c].result = "send"]
        /\ UNCHANGED server
  /\ UNCHANGED <<nextID, pending, chan, reader, done, progVars, waitVars, wire>>

CancelCall(c) ==
  /\ call[c].pc \in {"sending", "waiting"}
  /\ ~call[c].cancelled
  /\ call' = [call EXCEPT ![c].cancelled = TRUE]
  /\ UNCHANGED <<nextID, pending, chan, mu, reader, done, progVars, waitVars, serverVars>>

\* The select of call: when several of its cases are ready, any one is taken.
ReceiveResponse(c) ==
  /\ call[c].pc = "waiting"
  /\ chan[call[c].id] = "full"
  /\ chan' = [chan EXCEPT ![call[c].id] = "empty"]
  /\ call' = [call EXCEPT ![c].pc = "idle", ![c].result = "response"]
  /\ UNCHANGED <<nextID, pending, mu, reader, done, progVars, waitVars, serverVars>>

SelectCtx(c) ==
  /\ call[c].pc = "waiting"
  /\ call[c].cancelled
  /\ call' = [call EXCEPT ![c].pc = "cleanup", ![c].result = "ctx"]
  /\ UNCHANGED <<nextID, pending, chan, mu, reader, done, progVars, waitVars, serverVars>>

SelectDone(c) ==
  /\ call[c].pc = "waiting"
  /\ done
  /\ call' = [call EXCEPT ![c].pc = "cleanup", ![c].result = "closed"]
  /\ UNCHANGED <<nextID, pending, chan, mu, reader, done, progVars, waitVars, serverVars>>

Cleanup(c) ==
  /\ call[c].pc = "cleanup"
  /\ pending' = Forget(call[c].id)
  /\ call' = [call EXCEPT ![c].pc = "idle"]
  /\ UNCHANGED <<nextID, chan, mu, reader, done, progVars, waitVars, serverVars>>

CallStep(c) ==
  \/ Lock(c)
  \/ SendRequest(c)
  \/ ReceiveResponse(c)
  \/ SelectCtx(c)
  \/ SelectDone(c)
  \/ Cleanup(c)

-----------------------------------------------------------------------------
\* readLoop.

Reading(kinds) ==
  /\ reader.pc = "reading"
  /\ wire # <<>>
  /\ Head(wire).kind \in kinds
  /\ wire' = Tail(wire)

\* Mutant: any message with an id is taken for a response.
AnythingWithID == {"response", "request"}

Responses == {"response"}

\* A message with an id and no method: look the channel up and delete it, under
\* pendMu. A response to a call that has given up, or a second one, is dropped.
ReadResponse ==
  /\ Reading(Responses)
  /\ LET i == Head(wire).id
     IN /\ pending' = Forget(i)
        /\ reader' = IF i \in pending THEN [pc |-> "delivering", id |-> i] ELSE reader
  /\ UNCHANGED <<callVars, chan, done, progVars, waitVars, server>>

\* ch <- msg, outside pendMu, into a buffer of one.
Deliver ==
  /\ reader.pc = "delivering"
  /\ chan[reader.id] = "empty"
  /\ chan' = [chan EXCEPT ![reader.id] = "full"]
  /\ reader' = [pc |-> "reading", id |-> 0]
  /\ UNCHANGED <<callVars, pending, done, progVars, waitVars, serverVars>>

\* A message with an id and a method is the server's own request, which readLoop
\* acknowledges before it reads on: window/workDoneProgress/create.
ReadRequest ==
  /\ Reading({"request"})
  /\ reader' = [pc |-> "acking", id |-> 0]
  /\ UNCHANGED <<callVars, pending, chan, done, progVars, waitVars, server>>

\* The acknowledgement is written as a call is, and may block as one; its error is
\* ignored.
Acknowledge ==
  /\ mu = "reader"
  /\ mu' = "free"
  /\ reader' = [pc |-> "reading", id |-> 0]
  /\ \/ server.up /\ server.room /\ server' = [server EXCEPT !.create = "acked"]
     \/ ~server.up /\ UNCHANGED server
  /\ UNCHANGED <<nextID, call, pending, chan, done, progVars, waitVars, wire>>

\* Mutants: a report counts as an end; a begin while one is open is not counted.
ReportIsEnd(kind) == IF kind = "begin" THEN flight + 1 ELSE flight - 1
OneAtATime(kind)  == IF kind = "begin" THEN 1 ELSE IF kind = "end" THEN 0 ELSE flight

Counted(kind) == CASE kind = "begin" -> flight + 1
                   [] kind = "end" /\ flight > 0 -> flight - 1
                   [] OTHER -> flight

ReadProgress ==
  /\ Reading({"begin", "report", "end"})
  /\ flight' = Counted(Head(wire).kind)
  /\ began' = (began \/ Head(wire).kind = "begin")
  /\ quiet' = FALSE
  /\ UNCHANGED <<callVars, pending, chan, reader, done, waitVars, server>>

\* Mutant: readLoop returns without closing done.
EOFUnnoticed ==
  /\ reader.pc = "reading"
  /\ wire = <<>>
  /\ ~server.up
  /\ reader' = [pc |-> "exited", id |-> 0]
  /\ UNCHANGED <<callVars, pending, chan, done, progVars, waitVars, serverVars>>

\* defer close(c.done), whatever readMessage returned. What is on the wire stays there.
LoopExits ==
  /\ reader.pc = "reading"
  /\ reader' = [pc |-> "exited", id |-> 0]
  /\ done' = TRUE
  /\ UNCHANGED <<callVars, pending, chan, progVars, waitVars, serverVars>>

\* EOF, after everything the server wrote has been read.
ReadEOF ==
  /\ wire = <<>>
  /\ ~server.up
  /\ LoopExits

\* No Content-Length or an invalid one: nothing is read any more, though the server
\* may be up and go on writing.
ReadBroken ==
  /\ wire # <<>>
  /\ Head(wire).kind = "broken"
  /\ LoopExits

\* cmd.Wait has closed our end of the pipe. Until waitForIdle has returned a session
\* calls it only to give up a start.
ReadClosed ==
  /\ ~server.up
  /\ waiter = "returned"
  /\ LoopExits

ReadStep ==
  \/ ReadResponse
  \/ Deliver
  \/ ReadRequest
  \/ Lock("reader")
  \/ Acknowledge
  \/ ReadProgress
  \/ ReadEOF
  \/ ReadBroken
  \/ ReadClosed

-----------------------------------------------------------------------------
\* waitForIdle, and the clock it reads.

\* quietPeriod passes without progress.
QuietPeriodPasses ==
  /\ ~quiet
  /\ quiet' = TRUE
  /\ UNCHANGED <<callVars, pending, chan, reader, done, flight, began, waitVars,
                 serverVars>>

\* Phase 1: the first begin, or maxStartupWait, or the context.
WaitForBegin ==
  /\ waiter = "phase1"
  /\ \/ began /\ waiter' = "phase2"
     \/ (~began \/ waitCtx) /\ waiter' = "returned"
  /\ UNCHANGED <<callVars, pending, chan, reader, done, progVars, waitCtx, serverVars>>

\* Mutant: the poll does not look at the context.
PollOn ==
  /\ waiter = "phase2"
  /\ flight = 0 /\ quiet
  /\ waiter' = "returned"
  /\ UNCHANGED <<callVars, pending, chan, reader, done, progVars, waitCtx, serverVars>>

\* Phase 2: one poll. done is not among the things it looks at.
Poll ==
  /\ waiter = "phase2"
  /\ (flight = 0 /\ quiet) \/ waitCtx
  /\ waiter' = "returned"
  /\ UNCHANGED <<callVars, pending, chan, reader, done, progVars, waitCtx, serverVars>>

CancelWait ==
  /\ ~waitCtx
  /\ waiter # "returned"
  /\ waitCtx' = TRUE
  /\ UNCHANGED <<callVars, pending, chan, reader, done, progVars, waiter, serverVars>>

WaitStep == WaitForBegin \/ Poll

-----------------------------------------------------------------------------
\* The language server (external).

Write(m) ==
  /\ server.up
  /\ Len(wire) < MaxWire
  /\ wire' = Append(wire, m)
  /\ UNCHANGED <<callVars, pending, chan, reader, done, progVars, waitVars>>

Respond(i) ==
  /\ i \in server.reqs
  /\ Write([kind |-> "response", id |-> i])
  /\ server' = [server EXCEPT !.answered = @ \cup {i}]

\* Its numbering is its own, so any id may be in use on our side too. A token is
\* created for each begin.
RequestCreate(i) ==
  /\ server.create = "no"
  /\ server.phases < MaxPhases
  /\ Write([kind |-> "request", id |-> i])
  /\ server' = [server EXCEPT !.create = "sent"]

Begin ==
  /\ server.create = "acked"
  /\ server.phases < MaxPhases
  /\ Write([kind |-> "begin"])
  /\ server' = [server EXCEPT !.create = "no", !.open = @ + 1, !.phases = @ + 1]

Report ==
  /\ server.open > 0
  /\ Write([kind |-> "report"])
  /\ UNCHANGED server

End ==
  /\ server.open > 0
  /\ Write([kind |-> "end"])
  /\ server' = [server EXCEPT !.open = @ - 1]

\* Something on its stdout that is no message.
Break ==
  /\ ~server.broke
  /\ Write([kind |-> "broken"])
  /\ server' = [server EXCEPT !.broke = TRUE]

\* Its stdin pipe fills with messages it has not read, the session's notifications
\* among them, which are written under mu too: a write that blocks on the rest of its
\* message is one whose pipe filled just before it. Reading makes room.
PipeFills ==
  /\ server.up /\ server.room
  /\ mu = "free"
  /\ server' = [server EXCEPT !.room = FALSE]
  /\ UNCHANGED <<callVars, pending, chan, reader, done, progVars, waitVars, wire>>

PipeDrains ==
  /\ server.up /\ ~server.room
  /\ server' = [server EXCEPT !.room = TRUE]
  /\ UNCHANGED <<callVars, pending, chan, reader, done, progVars, waitVars, wire>>

\* The process dies or closes its stdout.
Exit ==
  /\ server.up
  /\ server' = [server EXCEPT !.up = FALSE]
  /\ UNCHANGED <<callVars, pending, chan, reader, done, progVars, waitVars, wire>>

ServerStep ==
  \/ \E i \in Ids : Respond(i) \/ RequestCreate(i)
  \/ Begin
  \/ Report
  \/ End
  \/ Break
  \/ PipeFills
  \/ PipeDrains
  \/ Exit

-----------------------------------------------------------------------------
\* The server is gone, every call has returned and so has waitForIdle.
Quiesced ==
  /\ reader.pc = "exited"
  /\ \A c \in Callers : call[c].pc = "idle"
  /\ waiter = "returned"
  /\ UNCHANGED vars

Next ==
  \/ \E c \in Callers : StartCall(c) \/ CancelCall(c) \/ CallStep(c)
  \/ ReadStep
  \/ QuietPeriodPasses
  \/ WaitStep
  \/ CancelWait
  \/ ServerStep
  \/ Quiesced

Spec == Init /\ [][Next]_vars

\* Goroutines that can run do run (one that waits for mu gets it: a caller competes
\* with at most the other callers and readLoop, each for a bounded number of writes),
\* and time passes. Nothing is assumed of the server, which need neither read nor
\* answer, nor that anybody cancels a context.
Fairness ==
  /\ \A c \in Callers : WF_vars(CallStep(c))
  /\ WF_vars(ReadStep)
  /\ WF_vars(WaitStep)
  /\ WF_vars(QuietPeriodPasses)

FairSpec == Spec /\ Fairness

-----------------------------------------------------------------------------
\* readLoop never blocks on a channel send, also when the server answers a call
\* twice or answers one that has given up: the buffer of one is always free.
ReaderNeverBlocks == reader.pc = "delivering" => chan[reader.id] = "empty"

\* pending holds calls in flight only: timeouts, cancellations, failed sends and
\* the death of the server leave no entry behind.
NoLeakedCalls ==
  \A i \in pending : \E c \in Callers : call[c].id = i /\ call[c].pc # "idle"

\* A waiting call can always still be woken: it is registered, or its response
\* has been taken by readLoop and is, or is about to be, in its channel.
NoLostResponse ==
  \A c \in Callers : call[c].pc = "waiting" =>
    \/ call[c].id \in pending
    \/ reader.id = call[c].id
    \/ chan[call[c].id] = "full"

InWire(kind) == Cardinality({k \in DOMAIN wire : wire[k].kind = kind})

\* progFlight is what the server has open, up to the messages not read yet: the
\* test for zero in end never hides a token that is in flight.
FlightTracksServer == flight + InWire("begin") = server.open + InWire("end")

InProgress == {c \in Callers : call[c].pc # "idle"}
CallID     == [c \in Callers |-> call[c].id]
GivenUp    == [c \in Callers |-> call[c].cancelled]
Returned   == [c \in Callers |-> IF call[c].pc = "idle" THEN call[c].result ELSE "none"]

Calls == INSTANCE RpcCalls
  WITH active <- InProgress, id <- CallID, used <- 1..nextID, cancelled <- GivenUp,
       outcome <- Returned, answered <- server.answered, up <- server.up,
       framed <- ~server.broke

\* The connection implements RpcCalls: through late, doubled and clashing answers,
\* cancellations, a broken frame and the server's death in the middle of any of them,
\* each call returns once, with the answer to its own id or an error that has its cause.
ImplementsCalls == Calls!Spec

ServerReads == server.room \/ ~server.up

\* No call hangs once the server has exited, wherever the call, readLoop and the mutex
\* are by then; nor does one whose context is cancelled or whose readLoop is gone with
\* the server up, as long as the server keeps reading: a write to one that does not is
\* out of reach of both.
CallsReturn ==
  /\ \A c \in Callers : call[c].pc # "idle" /\ ~server.up ~> call[c].pc = "idle"
  /\ []<>ServerReads =>
       \A c \in Callers :
         call[c].pc # "idle" /\ (call[c].cancelled \/ done) ~> call[c].pc = "idle"

\* readLoop is gone and left messages behind.
Abandoned == reader.pc = "exited" /\ wire # <<>>

\* waitForIdle returns once the server has no progress open any more, through however
\* many phases it went, provided that readLoop gets to see their ends: that it did not
\* exit on a broken frame before them and is not held up for ever in an acknowledgement.
\* When its context is cancelled it returns in any case.
WaitEndsWithIndexing ==
  (\/ []<>ServerReads /\ <>[](server.open = 0) /\ []~Abandoned
   \/ <>waitCtx) => <>(waiter = "returned")

-----------------------------------------------------------------------------
\* A session leaves Indexing in the background (AddProject's comment), since its
\* waitForIdle returns; it should when the server is gone. Refuted:
\* when the server dies between a begin and its end, progFlight never reaches
\* zero again and waitForIdle, which does not watch done, polls for ever.
WaitEndsWithServer == done ~> waiter = "returned"
=============================================================================
