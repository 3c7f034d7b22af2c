--------------------------- MODULE LspConnProofs ---------------------------
(***************************************************************************)
(* Proofs about LspConn, for any goroutines, any number of calls, and a    *)
(* server that answers, repeats itself, reads, breaks the framing and dies *)
(* as it likes.                                                            *)
(***************************************************************************)
EXTENDS LspConn, FiniteSetTheorems, TLAPS

Active(c) == call[c].pc # "idle"

\* A call has an id of its own among those given out so far.
IdsAreDistinct ==
  /\ \A c \in Callers : call[c].id <= nextID /\ (Active(c) => call[c].id \in Ids)
  /\ \A c, d \in Callers : Active(c) /\ Active(d) /\ call[c].id = call[d].id => c = d

\* The server answers calls that were made, and ends the progress it began.
ServerAnswersCalls ==
  /\ server.reqs \subseteq 1..nextID
  /\ server.answered \subseteq server.reqs
  /\ server.open <= server.phases
  /\ \A k \in DOMAIN wire : wire[k].kind = "response" => wire[k].id \in server.answered

\* A call gets a result only if the server answered that very call: never the
\* answer of another call, and never a request of the server's own that happens
\* to carry the same id.
OnlyRealAnswers ==
  /\ \A i \in Ids : chan[i] = "full" \/ reader.id = i => i \in server.answered
  /\ \A c \in Callers : call[c].result = "response" => call[c].id \in server.answered

\* An answer is in one place only: a call that is pending has neither been taken by
\* readLoop nor put into its channel.
OnePlace ==
  /\ pending \subseteq 1..nextID
  /\ reader.id = 0 <=> reader.pc # "delivering"
  /\ \A i \in pending : chan[i] = "empty" /\ reader.id # i

\* NoLostResponse, also of a call whose request is not written yet.
NoLostCall ==
  \A c \in Callers : call[c].pc \in {"sending", "waiting"} =>
    \/ call[c].id \in pending
    \/ reader.id = call[c].id
    \/ chan[call[c].id] = "full"

\* Only a goroutine with a message to write holds conn.mu.
MutexHeld ==
  /\ mu \in Callers => call[mu].pc = "sending"
  /\ mu = "reader" => reader.pc = "acking"

IInv ==
  /\ TypeOK
  /\ MutexHeld
  /\ IdsAreDistinct
  /\ ServerAnswersCalls
  /\ OnlyRealAnswers
  /\ OnePlace
  /\ ReaderNeverBlocks
  /\ NoLeakedCalls
  /\ NoLostCall

LEMMA IInvInit == Init => IInv
<1> SUFFICES ASSUME Init
             PROVE  IInv
  OBVIOUS
<1> USE BoundsAssumption DEF Init
<1>1. TypeOK
  <2>1. call \in [Callers -> CallType]
    BY DEF CallType
  <2>2. server \in ServerType
    BY DEF ServerType
  <2>3. wire \in Seq(Message) /\ chan \in [Ids -> {"empty", "full"}]
    OBVIOUS
  <2>4. reader \in [pc : {"reading", "delivering", "acking", "exited"}, id : 0..MaxCalls]
    OBVIOUS
  <2>5. nextID \in 0..MaxCalls /\ pending \in SUBSET Ids /\ flight \in Nat /\ mu = "free"
    OBVIOUS
  <2> QED
    BY <2>1, <2>2, <2>3, <2>4, <2>5 DEF TypeOK
<1>2. IdsAreDistinct /\ NoLeakedCalls /\ NoLostCall
  BY DEF IdsAreDistinct, Active, NoLeakedCalls, NoLostCall
<1>3. ServerAnswersCalls /\ OnlyRealAnswers
  BY DEF ServerAnswersCalls, OnlyRealAnswers, Ids
<1>4. OnePlace /\ ReaderNeverBlocks /\ MutexHeld
  BY HoldersAssumption DEF OnePlace, ReaderNeverBlocks, MutexHeld
<1> QED
  BY <1>1, <1>2, <1>3, <1>4 DEF IInv

\* What the server does leaves the goroutines alone, and it does not come back.
LEMMA ServerKeeps ==
  ASSUME server \in ServerType, ServerStep
  PROVE  /\ UNCHANGED <<nextID, call, mu, pending, chan, reader, done>>
         /\ server'.up => server.up
         /\ server.broke => server'.broke
         /\ server'.answered = server.answered
              \/ \E i \in server.reqs : server'.answered = server.answered \cup {i}
<1> USE DEF callVars, progVars, waitVars, Write, ServerType
<1>1. ASSUME NEW i \in Ids, Respond(i)
      PROVE  UNCHANGED <<nextID, call, mu, pending, chan, reader, done>>
             /\ server'.up = server.up /\ server'.broke = server.broke
             /\ server'.answered = server.answered \cup {i} /\ i \in server.reqs
  BY <1>1 DEF Respond
<1>2. ASSUME (\E i \in Ids : RequestCreate(i)) \/ Begin \/ Report \/ End \/ PipeFills \/ PipeDrains
      PROVE  UNCHANGED <<nextID, call, mu, pending, chan, reader, done>>
             /\ server'.up = server.up /\ server'.broke = server.broke
             /\ server'.answered = server.answered
  BY <1>2 DEF RequestCreate, Begin, Report, End, PipeFills, PipeDrains
<1>3. ASSUME Break
      PROVE  UNCHANGED <<nextID, call, mu, pending, chan, reader, done>>
             /\ server'.up = server.up /\ server'.broke
             /\ server'.answered = server.answered
  BY <1>3 DEF Break
<1>4. ASSUME Exit
      PROVE  UNCHANGED <<nextID, call, mu, pending, chan, reader, done>>
             /\ ~server'.up /\ server'.broke = server.broke
             /\ server'.answered = server.answered
  BY <1>4 DEF Exit
<1> QED
  BY <1>1, <1>2, <1>3, <1>4 DEF ServerStep

LEMMA MutexHeldStep ==
  ASSUME TypeOK, MutexHeld, [Next]_vars
  PROVE  MutexHeld'
<1> USE HoldersAssumption DEF callVars, progVars, waitVars, serverVars
<1>0. call \in [Callers -> CallType] /\ server \in ServerType
  BY DEF TypeOK
<1>1. ASSUME NEW c \in Callers, StartCall(c) \/ CancelCall(c)
      PROVE  MutexHeld'
  BY <1>0, <1>1 DEF StartCall, CancelCall, MutexHeld, CallType
<1>2. ASSUME NEW a \in Callers \cup {"reader"}, Lock(a)
      PROVE  MutexHeld'
  BY <1>2 DEF Lock, Sending, MutexHeld
<1>3. ASSUME NEW c \in Callers, SendRequest(c)
      PROVE  MutexHeld'
  BY <1>3 DEF SendRequest, MutexHeld
<1>4. ASSUME NEW c \in Callers,
             ReceiveResponse(c) \/ SelectCtx(c) \/ SelectDone(c) \/ Cleanup(c)
      PROVE  MutexHeld'
  <2>1. mu' = mu /\ reader' = reader /\ call[c].pc # "sending"
    BY <1>4 DEF ReceiveResponse, SelectCtx, SelectDone, Cleanup
  <2>2. \A d \in Callers \ {c} : call'[d] = call[d]
    BY <1>0, <1>4 DEF ReceiveResponse, SelectCtx, SelectDone, Cleanup
  <2> QED
    BY <2>1, <2>2 DEF MutexHeld
<1>5. CASE ReadResponse \/ Deliver \/ ReadRequest \/ ReadProgress \/ LoopExits
  <2>1. mu' = mu /\ call' = call /\ reader.pc # "acking"
    BY <1>5 DEF ReadResponse, Deliver, ReadRequest, ReadProgress, LoopExits, Reading
  <2> QED
    BY <2>1 DEF MutexHeld
<1>6. CASE Acknowledge
  BY <1>6 DEF Acknowledge, MutexHeld
<1>7. CASE ServerStep
  BY <1>0, <1>7, ServerKeeps DEF MutexHeld
<1>8. CASE QuietPeriodPasses \/ WaitStep \/ CancelWait \/ UNCHANGED vars
  BY <1>8 DEF QuietPeriodPasses, WaitStep, WaitForBegin, Poll, CancelWait, vars, MutexHeld
<1> QED
  BY <1>1, <1>2, <1>3, <1>4, <1>5, <1>6, <1>7, <1>8 DEF Next, CallStep, ReadStep, ReadEOF,
    ReadBroken, ReadClosed, Quiesced

\* call keeps its type when it gives up or returns.
LEMMA CallUpdate ==
  ASSUME call \in [Callers -> CallType], NEW c \in Callers,
         NEW p \in {"idle", "cleanup"}, NEW r \in {"response", "ctx", "closed", "send"},
         call' = [call EXCEPT ![c].pc = p, ![c].result = r]
  PROVE  call' \in [Callers -> CallType]
<1> DEFINE mid == [call EXCEPT ![c].pc = p]
<1>1. mid \in [Callers -> CallType]
  BY DEF CallType
<1>2. call' = [mid EXCEPT ![c].result = r]
  OBVIOUS
<1> HIDE DEF mid
<1>3. [mid[c] EXCEPT !.result = r] \in CallType
  BY <1>1 DEF CallType
<1> QED
  BY <1>1, <1>2, <1>3

\* Reading takes the first message off the wire.
LEMMA WireShrinks ==
  ASSUME wire \in Seq(Message), NEW kinds, Reading(kinds)
  PROVE  /\ wire' \in Seq(Message)
         /\ 1 \in DOMAIN wire /\ Head(wire) = wire[1] /\ Head(wire) \in Message
         /\ Head(wire).kind \in kinds
         /\ \A k \in DOMAIN wire' : k + 1 \in DOMAIN wire /\ wire'[k] = wire[k + 1]
BY DEF Reading

\* One step per action, and under it one per conjunct that the action can disturb.
LEMMA IInvStep == IInv /\ [Next]_vars => IInv'
<1> SUFFICES ASSUME IInv, [Next]_vars
             PROVE  IInv'
  OBVIOUS
<1>0. MutexHeld'
  BY MutexHeldStep DEF IInv
<1> USE <1>0, BoundsAssumption DEF IInv, callVars, progVars, waitVars, serverVars
<1>1. ASSUME NEW c \in Callers, StartCall(c)
      PROVE  IInv'
  <2>1. TypeOK'
    BY <1>1 DEF StartCall, TypeOK, CallType, Ids, NextID
  <2>2. IdsAreDistinct'
    BY <1>1, <2>1 DEF StartCall, TypeOK, CallType, Ids, IdsAreDistinct, Active, NextID
  <2>3. ServerAnswersCalls'
    BY <1>1, <2>1 DEF StartCall, TypeOK, Ids, ServerAnswersCalls, NextID
  <2>4. OnlyRealAnswers'
    BY <1>1 DEF StartCall, Ids, OnlyRealAnswers, NextID
  <2>5. OnePlace'
    <3>1. nextID' = nextID + 1 /\ nextID' \in Ids /\ nextID \in Nat
      BY <1>1 DEF StartCall, NextID, TypeOK, Ids
    <3>2. pending' = pending \cup {nextID'} /\ UNCHANGED <<chan, reader>>
      BY <1>1 DEF StartCall, NextID
    <3>3. nextID' \notin server.answered
      BY <3>1 DEF ServerAnswersCalls
    <3>4. chan[nextID'] = "empty"
      BY <3>1, <3>3 DEF OnlyRealAnswers, TypeOK
    <3>5. reader.id # nextID'
      BY <3>1, <3>3 DEF OnlyRealAnswers, OnePlace
    <3>6. pending' \subseteq 1..nextID'
      BY <3>1, <3>2 DEF OnePlace
    <3> QED
      BY <3>2, <3>4, <3>5, <3>6 DEF OnePlace
  <2>6. NoLeakedCalls'
    BY <1>1, <2>1 DEF StartCall, TypeOK, NoLeakedCalls, NextID
  <2>7. NoLostCall'
    BY <1>1 DEF StartCall, NoLostCall, NextID
  <2>8. ReaderNeverBlocks'
    BY <1>1 DEF StartCall, ReaderNeverBlocks, NextID
  <2> QED
    BY <2>1, <2>2, <2>3, <2>4, <2>5, <2>6, <2>7, <2>8
<1>2. ASSUME NEW c \in Callers, SendRequest(c)
      PROVE  IInv'
  <2>0. call[c].pc = "sending"
    BY <1>2 DEF SendRequest, MutexHeld
  <2>1. TypeOK'
    <3>1. call[c] \in CallType /\ call[c].id \in Ids
      BY <2>0 DEF TypeOK, IdsAreDistinct, Active
    <3>2. CASE server.up
      <4>1. call' \in [Callers -> CallType]
        <5>1. call' = [call EXCEPT ![c].pc = "waiting"]
          BY <1>2, <3>2 DEF SendRequest
        <5> QED
          BY <1>2, <5>1, ZenonT(30) DEF TypeOK, CallType
      <4>2. server' \in ServerType
        BY <1>2, <3>1, <3>2 DEF SendRequest, TypeOK, ServerType
      <4> QED
        BY <1>2, <4>1, <4>2 DEF SendRequest, TypeOK
    <3>3. CASE ~server.up
      <4>1. call' \in [Callers -> CallType]
        BY <1>2, <3>3, CallUpdate DEF SendRequest, TypeOK
      <4> QED
        BY <1>2, <3>3, <4>1 DEF SendRequest, TypeOK
    <3> QED
      BY <3>2, <3>3
  <2>2. /\ call[c].pc = "sending"
        /\ call'[c].id = call[c].id /\ call[c].id \in Ids
        /\ call'[c].pc # "idle" /\ call'[c].pc # "sending"
        /\ call'[c].result = "response" => call[c].result = "response"
        /\ \A d \in Callers : d # c => call'[d] = call[d]
        /\ server'.reqs \subseteq server.reqs \cup {call[c].id}
        /\ server.reqs \subseteq server'.reqs
        /\ server'.answered = server.answered
        /\ server'.open = server.open /\ server'.phases = server.phases
        /\ UNCHANGED <<nextID, pending, chan, reader, wire>>
    <3>1. call[c] \in CallType /\ call[c].pc = "sending" /\ call[c].id \in Ids
      BY <2>0 DEF TypeOK, IdsAreDistinct, Active
    <3>2. CASE server.up
      <4>1. /\ server' = [server EXCEPT !.reqs = @ \cup {call[c].id}]
            /\ call' = [call EXCEPT ![c].pc = "waiting"]
            /\ UNCHANGED <<nextID, pending, chan, reader, wire>>
        BY <1>2, <3>2 DEF SendRequest
      <4>2. call' = [call EXCEPT ![c] = [call[c] EXCEPT !.pc = "waiting"]]
        BY <4>1
      <4>3. call'[c] = [call[c] EXCEPT !.pc = "waiting"]
        BY <1>2, <4>2 DEF TypeOK
      <4>4. call'[c].result = call[c].result
        BY <3>1, <4>3 DEF CallType
      <4> QED
        BY <1>2, <3>1, <4>1, <4>2, <4>3, <4>4 DEF TypeOK, CallType, ServerType
    <3>3. CASE ~server.up
      BY <1>2, <3>1, <3>3 DEF SendRequest, TypeOK, CallType
    <3> QED
      BY <3>2, <3>3
  <2>3. IdsAreDistinct'
    BY <2>2 DEF IdsAreDistinct, Active
  <2>4. ServerAnswersCalls'
    <3>1. call[c].id \in 1..nextID
      BY <1>2, <2>2 DEF IdsAreDistinct, Ids, TypeOK
    <3> QED
      BY <2>2, <3>1 DEF ServerAnswersCalls
  <2>5. OnlyRealAnswers'
    BY <2>2 DEF OnlyRealAnswers
  <2>6. NoLeakedCalls'
    BY <2>2 DEF NoLeakedCalls
  <2>7. NoLostCall'
    BY <2>2 DEF NoLostCall
  <2>8. OnePlace' /\ ReaderNeverBlocks'
    BY <1>2 DEF SendRequest, OnePlace, ReaderNeverBlocks
  <2> QED
    BY <2>1, <2>2, <2>3, <2>4, <2>5, <2>6, <2>7, <2>8
<1>3. ASSUME NEW c \in Callers, CancelCall(c)
      PROVE  IInv'
  <2>1. TypeOK'
    BY <1>3, ZenonT(30) DEF CancelCall, TypeOK, CallType
  <2>2. IdsAreDistinct'
    BY <1>3 DEF CancelCall, Ids, IdsAreDistinct, Active
  <2>3. OnlyRealAnswers'
    BY <1>3 DEF CancelCall, Ids, OnlyRealAnswers
  <2>4. NoLeakedCalls'
    BY <1>3 DEF CancelCall, NoLeakedCalls
  <2>5. NoLostCall'
    BY <1>3 DEF CancelCall, NoLostCall
  <2>6. ServerAnswersCalls' /\ OnePlace' /\ ReaderNeverBlocks'
    BY <1>3 DEF CancelCall, ServerAnswersCalls, OnePlace, ReaderNeverBlocks
  <2> QED
    BY <2>1, <2>2, <2>3, <2>4, <2>5, <2>6
<1>4. ASSUME NEW c \in Callers, ReceiveResponse(c)
      PROVE  IInv'
  <2>1. TypeOK'
    <3>1. call' \in [Callers -> CallType]
      BY <1>4, CallUpdate DEF ReceiveResponse, TypeOK
    <3> QED
      BY <1>4, <3>1 DEF ReceiveResponse, TypeOK
  <2>2. IdsAreDistinct'
    BY <1>4, <2>1 DEF ReceiveResponse, TypeOK, Ids, IdsAreDistinct, Active
  <2>3. OnlyRealAnswers'
    BY <1>4, <2>1 DEF ReceiveResponse, TypeOK, Ids, OnlyRealAnswers
  <2>4. OnePlace'
    BY <1>4 DEF ReceiveResponse, Ids, OnePlace
  <2>5. ReaderNeverBlocks'
    BY <1>4 DEF ReceiveResponse, Ids, ReaderNeverBlocks
  <2>6. NoLeakedCalls'
    BY <1>4, <2>1, SMTT(30) DEF ReceiveResponse, TypeOK, Ids, NoLeakedCalls, OnePlace
  <2>7. NoLostCall'
    BY <1>4, <2>1 DEF ReceiveResponse, TypeOK, Ids, IdsAreDistinct, NoLostCall, Active
  <2>8. ServerAnswersCalls'
    BY <1>4 DEF ReceiveResponse, ServerAnswersCalls
  <2> QED
    BY <2>1, <2>2, <2>3, <2>4, <2>5, <2>6, <2>7, <2>8
<1>5. ASSUME NEW c \in Callers, SelectCtx(c)
      PROVE  IInv'
  <2>1. TypeOK'
    <3>1. call' \in [Callers -> CallType]
      BY <1>5, CallUpdate DEF SelectCtx, TypeOK
    <3> QED
      BY <1>5, <3>1 DEF SelectCtx, TypeOK
  <2>2. IdsAreDistinct'
    BY <1>5, <2>1 DEF SelectCtx, TypeOK, Ids, IdsAreDistinct, Active
  <2>3. OnlyRealAnswers'
    BY <1>5, <2>1 DEF SelectCtx, TypeOK, Ids, OnlyRealAnswers
  <2>4. NoLeakedCalls'
    BY <1>5, <2>1 DEF SelectCtx, TypeOK, NoLeakedCalls
  <2>5. NoLostCall'
    BY <1>5, <2>1 DEF SelectCtx, TypeOK, NoLostCall
  <2>6. ServerAnswersCalls' /\ OnePlace' /\ ReaderNeverBlocks'
    BY <1>5 DEF SelectCtx, ServerAnswersCalls, OnePlace, ReaderNeverBlocks
  <2> QED
    BY <2>1, <2>2, <2>3, <2>4, <2>5, <2>6
<1>6. ASSUME NEW c \in Callers, SelectDone(c)
      PROVE  IInv'
  <2>1. TypeOK'
    <3>1. call' \in [Callers -> CallType]
      BY <1>6, CallUpdate DEF SelectDone, TypeOK
    <3> QED
      BY <1>6, <3>1 DEF SelectDone, TypeOK
  <2>2. IdsAreDistinct'
    BY <1>6, <2>1 DEF SelectDone, TypeOK, Ids, IdsAreDistinct, Active
  <2>3. OnlyRealAnswers'
    BY <1>6, <2>1 DEF SelectDone, TypeOK, Ids, OnlyRealAnswers
  <2>4. NoLeakedCalls'
    BY <1>6, <2>1 DEF SelectDone, TypeOK, NoLeakedCalls
  <2>5. NoLostCall'
    BY <1>6, <2>1 DEF SelectDone, TypeOK, NoLostCall
  <2>6. ServerAnswersCalls' /\ OnePlace' /\ ReaderNeverBlocks'
    BY <1>6 DEF SelectDone, ServerAnswersCalls, OnePlace, ReaderNeverBlocks
  <2> QED
    BY <2>1, <2>2, <2>3, <2>4, <2>5, <2>6
<1>7. ASSUME NEW c \in Callers, Cleanup(c)
      PROVE  IInv'
  <2>1. TypeOK'
    BY <1>7, ZenonT(30) DEF Cleanup, TypeOK, CallType, Forget
  <2>2. IdsAreDistinct'
    BY <1>7 DEF Cleanup, Ids, IdsAreDistinct, Active, Forget
  <2>3. OnlyRealAnswers'
    BY <1>7 DEF Cleanup, Ids, OnlyRealAnswers, Forget
  <2>4. OnePlace'
    BY <1>7 DEF Cleanup, Ids, OnePlace, Forget
  <2>5. NoLeakedCalls'
    BY <1>7 DEF Cleanup, Ids, NoLeakedCalls, Forget
  <2>6. NoLostCall'
    BY <1>7 DEF Cleanup, Ids, IdsAreDistinct, NoLostCall, Active, Forget
  <2>7. ServerAnswersCalls' /\ ReaderNeverBlocks'
    BY <1>7 DEF Cleanup, ServerAnswersCalls, ReaderNeverBlocks, Forget
  <2> QED
    BY <2>1, <2>2, <2>3, <2>4, <2>5, <2>6, <2>7
<1>8. ASSUME ReadResponse
      PROVE  IInv'
  <2>1. TypeOK'
    <3>1. wire' \in Seq(Message)
      BY <1>8 DEF ReadResponse, Reading, TypeOK
    <3>2. Head(wire).id \in Ids
      BY <1>8 DEF ReadResponse, Reading, Responses, TypeOK, Message
    <3>3. reader' \in [pc : {"reading", "delivering", "acking", "exited"}, id : 0..MaxCalls]
      BY <1>8, <3>2 DEF ReadResponse, TypeOK, Ids
    <3> QED
      BY <1>8, <3>1, <3>2, <3>3 DEF ReadResponse, Reading, Forget, TypeOK
  <2>2. ServerAnswersCalls'
    BY <1>8, WireShrinks DEF ReadResponse, TypeOK, ServerAnswersCalls, callVars
  <2>3. OnlyRealAnswers'
    BY <1>8 DEF ReadResponse, Ids, OnlyRealAnswers, ServerAnswersCalls, Reading,
      Responses, Forget
  <2>4. OnePlace'
    BY <1>8 DEF ReadResponse, Ids, OnePlace, Reading, Responses, Forget
  <2>5. ReaderNeverBlocks'
    BY <1>8 DEF ReadResponse, Ids, OnePlace, ReaderNeverBlocks, Reading, Responses,
      Forget
  <2>6. NoLeakedCalls'
    BY <1>8 DEF ReadResponse, Ids, NoLeakedCalls, Reading, Responses, Forget
  <2>7. NoLostCall'
    BY <1>8 DEF ReadResponse, Ids, IdsAreDistinct, NoLostCall, OnePlace, Active,
      Reading, Responses, Forget
  <2>8. IdsAreDistinct'
    BY <1>8 DEF ReadResponse, IdsAreDistinct, Active, Reading, Responses, Forget
  <2> QED
    BY <2>1, <2>2, <2>3, <2>4, <2>5, <2>6, <2>7, <2>8
<1>9. ASSUME Deliver
      PROVE  IInv'
  <2>1. TypeOK'
    <3>1. chan' \in [Ids -> {"empty", "full"}]
      BY <1>9 DEF Deliver, TypeOK
    <3>2. reader' \in [pc : {"reading", "delivering", "acking", "exited"}, id : 0..MaxCalls]
      BY <1>9 DEF Deliver
    <3> QED
      BY <1>9, <3>1, <3>2 DEF Deliver, TypeOK
  <2>2. OnlyRealAnswers'
    BY <1>9 DEF Deliver, Ids, OnlyRealAnswers
  <2>3. OnePlace'
    BY <1>9 DEF Deliver, Ids, OnePlace
  <2>4. ReaderNeverBlocks'
    BY <1>9 DEF Deliver, Ids, ReaderNeverBlocks
  <2>5. NoLostCall'
    BY <1>9, <2>1 DEF Deliver, TypeOK, NoLostCall
  <2>6. IdsAreDistinct' /\ ServerAnswersCalls' /\ NoLeakedCalls'
    BY <1>9 DEF Deliver, IdsAreDistinct, ServerAnswersCalls, NoLeakedCalls, Active
  <2> QED
    BY <2>1, <2>2, <2>3, <2>4, <2>5, <2>6
<1>10. ASSUME ReadRequest
      PROVE  IInv'
  <2>1. TypeOK'
    <3>1. wire' \in Seq(Message)
      BY <1>10 DEF ReadRequest, Reading, TypeOK
    <3>2. reader' \in [pc : {"reading", "delivering", "acking", "exited"}, id : 0..MaxCalls]
      BY <1>10 DEF ReadRequest
    <3> QED
      BY <1>10, <3>1, <3>2 DEF ReadRequest, Reading, TypeOK
  <2>2. ServerAnswersCalls'
    BY <1>10, WireShrinks DEF ReadRequest, TypeOK, ServerAnswersCalls, callVars
  <2>3. OnlyRealAnswers'
    BY <1>10 DEF ReadRequest, Ids, OnlyRealAnswers, Reading
  <2>4. OnePlace'
    BY <1>10 DEF ReadRequest, Ids, OnePlace
  <2>5. NoLostCall'
    BY <1>10 DEF ReadRequest, Ids, NoLostCall, OnePlace, Reading
  <2>6. IdsAreDistinct' /\ ReaderNeverBlocks' /\ NoLeakedCalls'
    BY <1>10 DEF ReadRequest, IdsAreDistinct, ReaderNeverBlocks, NoLeakedCalls, Active
  <2> QED
    BY <2>1, <2>2, <2>3, <2>4, <2>5, <2>6
<1>11. ASSUME ReadProgress
      PROVE  IInv'
  <2>1. TypeOK'
    <3>1. wire' \in Seq(Message)
      BY <1>11 DEF ReadProgress, Reading, TypeOK
    <3>2. flight' \in Nat
      BY <1>11 DEF ReadProgress, Counted, TypeOK
    <3> QED
      BY <1>11, <3>1, <3>2 DEF ReadProgress, Reading, TypeOK
  <2>2. ServerAnswersCalls'
    BY <1>11, WireShrinks DEF ReadProgress, TypeOK, ServerAnswersCalls, callVars
  <2>3. /\ IdsAreDistinct'
        /\ OnlyRealAnswers'
        /\ OnePlace'
        /\ ReaderNeverBlocks'
        /\ NoLeakedCalls'
        /\ NoLostCall'
    BY <1>11 DEF ReadProgress, IdsAreDistinct, OnlyRealAnswers, OnePlace,
      ReaderNeverBlocks, NoLeakedCalls, NoLostCall, Active, Reading, Counted
  <2> QED
    BY <2>1, <2>2, <2>3
<1>12. ASSUME LoopExits
      PROVE  IInv'
  <2>1. TypeOK'
    BY <1>12 DEF LoopExits, TypeOK
  <2>2. OnlyRealAnswers'
    BY <1>12 DEF LoopExits, Ids, OnlyRealAnswers
  <2>3. OnePlace'
    BY <1>12 DEF LoopExits, Ids, OnePlace
  <2>4. ReaderNeverBlocks'
    BY <1>12 DEF LoopExits, Ids, ReaderNeverBlocks
  <2>5. NoLostCall'
    BY <1>12 DEF LoopExits, Ids, NoLostCall, OnePlace
  <2>6. IdsAreDistinct' /\ ServerAnswersCalls' /\ NoLeakedCalls'
    BY <1>12 DEF LoopExits, IdsAreDistinct, ServerAnswersCalls, NoLeakedCalls, Active
  <2> QED
    BY <2>1, <2>2, <2>3, <2>4, <2>5, <2>6
<1>13. ASSUME NEW i \in Ids, Respond(i)
      PROVE  IInv'
  <2>1. TypeOK'
    BY <1>13 DEF Respond, TypeOK, Message, ServerType, Write
  <2>2. ServerAnswersCalls'
    BY <1>13 DEF Respond, Ids, ServerAnswersCalls, Write
  <2>3. OnlyRealAnswers'
    BY <1>13 DEF Respond, Ids, OnlyRealAnswers, Write
  <2>4. /\ IdsAreDistinct'
        /\ OnePlace'
        /\ ReaderNeverBlocks'
        /\ NoLeakedCalls'
        /\ NoLostCall'
    BY <1>13 DEF Respond, IdsAreDistinct, OnePlace, ReaderNeverBlocks, NoLeakedCalls,
      NoLostCall, Active, Write
  <2> QED
    BY <2>1, <2>2, <2>3, <2>4
<1>14. ASSUME NEW i \in Ids, RequestCreate(i)
      PROVE  IInv'
  <2>1. TypeOK'
    <3>1. [kind |-> "request", id |-> i] \in Message
      BY <1>14 DEF Message
    <3>2. wire' \in Seq(Message)
      BY <1>14, <3>1 DEF RequestCreate, Write, TypeOK
    <3>3. server' \in ServerType
      BY <1>14 DEF RequestCreate, TypeOK, ServerType
    <3> QED
      BY <1>14, <3>2, <3>3 DEF RequestCreate, Write, TypeOK
  <2>2. ServerAnswersCalls'
    BY <1>14 DEF RequestCreate, Ids, ServerAnswersCalls, Write
  <2>3. OnlyRealAnswers'
    BY <1>14 DEF RequestCreate, Ids, OnlyRealAnswers, Write
  <2>4. /\ IdsAreDistinct'
        /\ OnePlace'
        /\ ReaderNeverBlocks'
        /\ NoLeakedCalls'
        /\ NoLostCall'
    BY <1>14 DEF RequestCreate, IdsAreDistinct, OnePlace, ReaderNeverBlocks,
      NoLeakedCalls, NoLostCall, Active, Write
  <2> QED
    BY <2>1, <2>2, <2>3, <2>4
<1>15. ASSUME Begin
      PROVE  IInv'
  <2>1. TypeOK'
    <3>1. [kind |-> "begin"] \in Message
      BY <1>15 DEF Message
    <3>2. wire' \in Seq(Message)
      BY <1>15, <3>1 DEF Begin, Write, TypeOK
    <3>3. server.open + 1 \in 0..MaxPhases /\ server.phases + 1 \in 0..MaxPhases
      BY <1>15 DEF Begin, TypeOK, ServerType, ServerAnswersCalls
    <3> DEFINE mid == [server EXCEPT !.create = "no", !.open = server.open + 1]
    <3>4. mid \in ServerType /\ mid.phases = server.phases
      BY <3>3 DEF TypeOK, ServerType
    <3>5. server' = [mid EXCEPT !.phases = server.phases + 1]
      BY <1>15, <3>4 DEF Begin, TypeOK, ServerType
    <3> HIDE DEF mid
    <3>6. server' \in ServerType
      BY <3>3, <3>4, <3>5 DEF ServerType
    <3> QED
      BY <1>15, <3>2, <3>6 DEF Begin, Write, TypeOK
  <2>2. ServerAnswersCalls'
    BY <1>15, <2>1, SMTT(30) DEF Begin, TypeOK, Ids, ServerAnswersCalls, Write, Message,
      ServerType
  <2>3. OnlyRealAnswers'
    BY <1>15 DEF Begin, Ids, OnlyRealAnswers, Write
  <2>4. /\ IdsAreDistinct'
        /\ OnePlace'
        /\ ReaderNeverBlocks'
        /\ NoLeakedCalls'
        /\ NoLostCall'
    BY <1>15 DEF Begin, IdsAreDistinct, OnePlace, ReaderNeverBlocks, NoLeakedCalls,
      NoLostCall, Active, Write
  <2> QED
    BY <2>1, <2>2, <2>3, <2>4
<1>16. ASSUME Report
      PROVE  IInv'
  <2>1. TypeOK'
    BY <1>16 DEF Report, TypeOK, Message, Write
  <2>2. ServerAnswersCalls'
    BY <1>16 DEF Report, Ids, ServerAnswersCalls, Write
  <2>3. /\ IdsAreDistinct'
        /\ OnlyRealAnswers'
        /\ OnePlace'
        /\ ReaderNeverBlocks'
        /\ NoLeakedCalls'
        /\ NoLostCall'
    BY <1>16 DEF Report, IdsAreDistinct, OnlyRealAnswers, OnePlace, ReaderNeverBlocks,
      NoLeakedCalls, NoLostCall, Active, Write
  <2> QED
    BY <2>1, <2>2, <2>3
<1>17. ASSUME End
      PROVE  IInv'
  <2>1. TypeOK'
    <3>1. [kind |-> "end"] \in Message
      BY <1>17 DEF Message
    <3>2. wire' \in Seq(Message)
      BY <1>17, <3>1 DEF End, Write, TypeOK
    <3>3. server.open - 1 \in 0..MaxPhases
      BY <1>17 DEF End, TypeOK, ServerType
    <3>4. server' \in ServerType
      BY <1>17, <3>3 DEF End, TypeOK, ServerType
    <3> QED
      BY <1>17, <3>2, <3>4 DEF End, Write, TypeOK
  <2>2. ServerAnswersCalls'
    BY <1>17, <2>1, SMTT(30) DEF End, TypeOK, Ids, ServerAnswersCalls, Write, Message,
      ServerType
  <2>3. OnlyRealAnswers'
    BY <1>17 DEF End, Ids, OnlyRealAnswers, Write
  <2>4. /\ IdsAreDistinct'
        /\ OnePlace'
        /\ ReaderNeverBlocks'
        /\ NoLeakedCalls'
        /\ NoLostCall'
    BY <1>17 DEF End, IdsAreDistinct, OnePlace, ReaderNeverBlocks, NoLeakedCalls,
      NoLostCall, Active, Write
  <2> QED
    BY <2>1, <2>2, <2>3, <2>4
<1>18. ASSUME Exit
      PROVE  IInv'
  <2>1. TypeOK'
    BY <1>18 DEF Exit, TypeOK, ServerType
  <2>2. ServerAnswersCalls'
    BY <1>18 DEF Exit, Ids, ServerAnswersCalls
  <2>3. OnlyRealAnswers'
    BY <1>18 DEF Exit, Ids, OnlyRealAnswers
  <2>4. /\ IdsAreDistinct'
        /\ OnePlace'
        /\ ReaderNeverBlocks'
        /\ NoLeakedCalls'
        /\ NoLostCall'
    BY <1>18 DEF Exit, IdsAreDistinct, OnePlace, ReaderNeverBlocks, NoLeakedCalls,
      NoLostCall, Active
  <2> QED
    BY <2>1, <2>2, <2>3, <2>4
<1>19. CASE QuietPeriodPasses \/ WaitStep \/ CancelWait \/ UNCHANGED vars
  <2>1. UNCHANGED <<nextID, pending, chan, call, mu, reader, flight, server, wire>>
    BY <1>19 DEF QuietPeriodPasses, WaitStep, WaitForBegin, Poll, CancelWait, vars
  <2>2. TypeOK'
    BY <1>19, <2>1 DEF QuietPeriodPasses, WaitStep, WaitForBegin, Poll, CancelWait,
      vars, TypeOK
  <2>3. /\ IdsAreDistinct'
        /\ ServerAnswersCalls'
        /\ OnlyRealAnswers'
        /\ OnePlace'
        /\ ReaderNeverBlocks'
        /\ NoLeakedCalls'
        /\ NoLostCall'
    BY <2>1 DEF IdsAreDistinct, Active, ServerAnswersCalls, OnlyRealAnswers, OnePlace,
      ReaderNeverBlocks, NoLeakedCalls, NoLostCall
  <2> QED
    BY <2>2, <2>3
<1>20. ASSUME NEW a \in Callers \cup {"reader"}, Lock(a)
      PROVE  IInv'
  <2>1. TypeOK'
    BY <1>20 DEF Lock, TypeOK
  <2>2. /\ IdsAreDistinct'
        /\ ServerAnswersCalls'
        /\ OnlyRealAnswers'
        /\ OnePlace'
        /\ ReaderNeverBlocks'
        /\ NoLeakedCalls'
        /\ NoLostCall'
    BY <1>20 DEF Lock, IdsAreDistinct, Active, ServerAnswersCalls, OnlyRealAnswers, OnePlace,
      ReaderNeverBlocks, NoLeakedCalls, NoLostCall
  <2> QED
    BY <2>1, <2>2
<1>21. ASSUME Acknowledge
      PROVE  IInv'
  <2>0. reader.pc = "acking"
    BY <1>21 DEF Acknowledge, MutexHeld
  <2>1. TypeOK'
    <3>1. server' \in ServerType
      BY <1>21 DEF Acknowledge, TypeOK, ServerType
    <3>2. reader' \in [pc : {"reading", "delivering", "acking", "exited"}, id : 0..MaxCalls]
      BY <1>21 DEF Acknowledge
    <3> QED
      BY <1>21, <3>1, <3>2 DEF Acknowledge, TypeOK
  <2>2. /\ server'.reqs = server.reqs /\ server'.answered = server.answered
        /\ server'.open = server.open /\ server'.phases = server.phases
    BY <1>21 DEF Acknowledge, TypeOK, ServerType
  <2>3. ServerAnswersCalls'
    BY <1>21, <2>2 DEF Acknowledge, ServerAnswersCalls
  <2>4. OnlyRealAnswers'
    BY <1>21, <2>2 DEF Acknowledge, Ids, OnlyRealAnswers
  <2>5. OnePlace'
    BY <1>21 DEF Acknowledge, Ids, OnePlace
  <2>6. NoLostCall'
    BY <1>21, <2>0 DEF Acknowledge, NoLostCall, OnePlace
  <2>7. IdsAreDistinct' /\ ReaderNeverBlocks' /\ NoLeakedCalls'
    BY <1>21 DEF Acknowledge, IdsAreDistinct, ReaderNeverBlocks, NoLeakedCalls, Active
  <2> QED
    BY <2>1, <2>3, <2>4, <2>5, <2>6, <2>7
<1>22. ASSUME Break
      PROVE  IInv'
  <2>1. TypeOK'
    <3>1. [kind |-> "broken"] \in Message
      BY DEF Message
    <3>2. wire' \in Seq(Message)
      BY <1>22, <3>1 DEF Break, Write, TypeOK
    <3>3. server' \in ServerType
      BY <1>22 DEF Break, TypeOK, ServerType
    <3> QED
      BY <1>22, <3>2, <3>3 DEF Break, Write, TypeOK
  <2>2. /\ server'.reqs = server.reqs /\ server'.answered = server.answered
        /\ server'.open = server.open /\ server'.phases = server.phases
    BY <1>22 DEF Break, TypeOK, ServerType
  <2>3. ServerAnswersCalls'
    BY <1>22, <2>2 DEF Break, Write, ServerAnswersCalls, TypeOK, Message
  <2>4. /\ IdsAreDistinct'
        /\ OnlyRealAnswers'
        /\ OnePlace'
        /\ ReaderNeverBlocks'
        /\ NoLeakedCalls'
        /\ NoLostCall'
    BY <1>22, <2>2 DEF Break, Write, IdsAreDistinct, OnlyRealAnswers, OnePlace,
      ReaderNeverBlocks, NoLeakedCalls, NoLostCall, Active
  <2> QED
    BY <2>1, <2>3, <2>4
<1>23. ASSUME PipeFills \/ PipeDrains
      PROVE  IInv'
  <2>1. server' \in ServerType
    BY <1>23 DEF PipeFills, PipeDrains, TypeOK, ServerType
  <2>2. /\ server'.reqs = server.reqs /\ server'.answered = server.answered
        /\ server'.open = server.open /\ server'.phases = server.phases
    BY <1>23 DEF PipeFills, PipeDrains, TypeOK, ServerType
  <2>3. TypeOK'
    BY <1>23, <2>1 DEF PipeFills, PipeDrains, TypeOK
  <2>4. /\ IdsAreDistinct'
        /\ ServerAnswersCalls'
        /\ OnlyRealAnswers'
        /\ OnePlace'
        /\ ReaderNeverBlocks'
        /\ NoLeakedCalls'
        /\ NoLostCall'
    BY <1>23, <2>2 DEF PipeFills, PipeDrains, IdsAreDistinct, ServerAnswersCalls, OnlyRealAnswers,
      OnePlace, ReaderNeverBlocks, NoLeakedCalls, NoLostCall, Active
  <2> QED
    BY <2>3, <2>4
<1> QED
  BY <1>1, <1>2, <1>3, <1>4, <1>5, <1>6, <1>7, <1>8, <1>9, <1>10, <1>11, <1>12, <1>13,
    <1>14, <1>15, <1>16, <1>17, <1>18, <1>19, <1>20, <1>21, <1>22, <1>23 DEF Next, CallStep,
    ReadStep, ReadEOF, ReadBroken, ReadClosed, ServerStep, Quiesced

LEMMA Invariance == Spec => []IInv
BY IInvInit, IInvStep, PTL DEF Spec

\* The connection is type correct: the progress counter never falls below zero and
\* readLoop only ever holds the id of a call that was made.
THEOREM TypeCorrect == Spec => []TypeOK
<1>1. IInv => TypeOK
  BY DEF IInv
<1> QED
  BY <1>1, Invariance, PTL

\* No call ever gets the answer of another one or a request of the server, in
\* conn.call and readLoop with any number of goroutines.
THEOREM OnlyRealAnswersHold == Spec => []OnlyRealAnswers
<1>1. IInv => OnlyRealAnswers
  BY DEF IInv
<1> QED
  BY <1>1, Invariance, PTL

\* The send of readLoop into a call's channel never blocks, so a server that answers
\* twice or too late cannot stop the connection.
THEOREM ReaderNeverBlocksHolds == Spec => []ReaderNeverBlocks
<1>1. IInv => ReaderNeverBlocks
  BY DEF IInv
<1> QED
  BY <1>1, Invariance, PTL

\* conn.pending has no entry without a call in flight, whatever times out or fails.
THEOREM NoLeakedCallsHolds == Spec => []NoLeakedCalls
<1>1. IInv => NoLeakedCalls
  BY DEF IInv
<1> QED
  BY <1>1, Invariance, PTL

\* A call that waits can always still be woken by its response.
THEOREM NoLostResponseHolds == Spec => []NoLostResponse
<1>1. IInv => NoLostResponse
  BY DEF IInv, NoLostCall, NoLostResponse
<1> QED
  BY <1>1, Invariance, PTL

-----------------------------------------------------------------------------
\* progFlight.

\* The messages of a kind among the first n of a wire.
Among(w, kind, n) == Cardinality({k \in 1..n : w[k].kind = kind})

One(m, kind) == IF m.kind = kind THEN 1 ELSE 0

LEMMA AmongType ==
  ASSUME NEW w, NEW kind, NEW n \in Nat
  PROVE  Among(w, kind, n) \in Nat /\ IsFiniteSet({k \in 1..n : w[k].kind = kind})
<1> DEFINE A == {k \in 1..n : w[k].kind = kind}
<1>1. IsFiniteSet(1..n) /\ A \in SUBSET (1..n)
  BY FS_Interval, n \in Int, 1 \in Int
<1> HIDE DEF A
<1>2. IsFiniteSet(A)
  BY <1>1, FS_Subset
<1>3. Cardinality(A) \in Nat
  BY <1>2, FS_CardinalityType
<1> QED
  BY <1>2, <1>3 DEF A, Among

\* A message written behind the others adds itself to the count and leaves the counts
\* before it alone.
LEMMA CountWritten ==
  ASSUME NEW w \in Seq(Message), NEW m \in Message, NEW kind
  PROVE  /\ \A n \in 0..Len(w) : Among(Append(w, m), kind, n) = Among(w, kind, n)
         /\ Among(Append(w, m), kind, Len(w) + 1) = Among(w, kind, Len(w)) + One(m, kind)
<1> DEFINE v == Append(w, m)
           A(n) == {k \in 1..n : w[k].kind = kind}
           B(n) == {k \in 1..n : v[k].kind = kind}
<1>1. Len(w) \in Nat /\ v[Len(w) + 1] = m /\ \A k \in 1..Len(w) : v[k] = w[k]
  OBVIOUS
<1>2. \A n \in 0..Len(w) : B(n) = A(n)
  BY <1>1
<1>3. B(Len(w) + 1) = IF m.kind = kind THEN A(Len(w)) \cup {Len(w) + 1} ELSE A(Len(w))
  BY <1>1
<1>4. Len(w) + 1 \notin A(Len(w))
  BY <1>1
<1>5. IsFiniteSet(A(Len(w))) /\ Cardinality(A(Len(w))) \in Nat
  BY <1>1, AmongType DEF Among
<1> HIDE DEF v, A, B
<1>6. Cardinality(B(Len(w) + 1)) = Cardinality(A(Len(w))) + One(m, kind)
  <2>1. CASE m.kind = kind
    BY <1>3, <1>4, <1>5, <2>1, FS_AddElement, Zenon DEF One
  <2>2. CASE m.kind # kind
    BY <1>3, <1>5, <2>2 DEF One
  <2> QED
    BY <2>1, <2>2
<1>7. \A n \in 0..Len(w) : Cardinality(B(n)) = Cardinality(A(n))
  BY <1>2
<1> QED
  BY <1>6, <1>7 DEF Among, v, A, B

\* Taking the first message off moves the others one place forward.
LEMMA CountRead ==
  ASSUME NEW w \in Seq(Message), w # <<>>, NEW kind, NEW n \in 0..(Len(w) - 1)
  PROVE  Among(w, kind, n + 1) = Among(Tail(w), kind, n) + One(Head(w), kind)
<1> DEFINE v == Tail(w)
           A == {k \in 1..(n + 1) : w[k].kind = kind}
           B == {k \in 1..n : v[k].kind = kind}
           f == [k \in B |-> k + 1]
<1>1. /\ n \in Nat /\ n + 1 \in Nat /\ n + 1 \in 1..Len(w) /\ Head(w) = w[1]
      /\ \A k \in 1..n : v[k] = w[k + 1]
  OBVIOUS
<1>2. /\ IsFiniteSet(A) /\ Cardinality(A) \in Nat
      /\ IsFiniteSet(B) /\ Cardinality(B) \in Nat
  BY <1>1, AmongType, ZenonT(30) DEF Among
<1>3. f \in Bijection(B, A \ {1})
  <2>1. \A k \in B : k + 1 \in A \ {1}
    BY <1>1
  <2>2. \A k \in A \ {1} : k - 1 \in B /\ k = f[k - 1]
    BY <1>1
  <2>3. \A j, k \in B : f[j] = f[k] => j = k
    BY <1>1
  <2> HIDE DEF A
  <2> QED
    BY <2>1, <2>2, <2>3 DEF Bijection, Injection, Surjection, IsInjective
<1>4. 1 \in A <=> Head(w).kind = kind
  BY <1>1
<1> HIDE DEF v, A, B, f
<1>5. Cardinality(B) = Cardinality(A \ {1})
  BY <1>2, <1>3, FS_Bijection DEF ExistsBijection
<1>6. Cardinality(A) = Cardinality(A \ {1}) + One(Head(w), kind)
  <2>1. CASE Head(w).kind = kind
    <3>1. Cardinality(A \ {1}) = Cardinality(A) - 1
      BY <1>2, <1>4, <2>1, FS_RemoveElement, Zenon
    <3>2. One(Head(w), kind) = 1
      BY <2>1 DEF One
    <3> QED
      BY <1>2, <3>1, <3>2
  <2>2. CASE Head(w).kind # kind
    <3>1. A \ {1} = A
      BY <1>4, <2>2
    <3>2. Cardinality(A \ {1}) = Cardinality(A)
      BY <3>1
    <3>3. One(Head(w), kind) = 0
      BY <2>2 DEF One
    <3> QED
      BY <1>2, <3>2, <3>3
  <2> QED
    BY <2>1, <2>2
<1> QED
  BY <1>5, <1>6 DEF Among, v, A, B

\* At every point of the wire the server has not ended more than it had begun, counting
\* what readLoop has counted already: an end is never read while progFlight is zero.
EndsFollowBegins ==
  \A n \in 0..Len(wire) : Among(wire, "end", n) <= flight + Among(wire, "begin", n)

ProgressInv == FlightTracksServer /\ EndsFollowBegins

LEMMA InWireIsAmong ==
  ASSUME wire \in Seq(Message)
  PROVE  FlightTracksServer <=>
           flight + Among(wire, "begin", Len(wire)) = server.open + Among(wire, "end", Len(wire))
<1>1. DOMAIN wire = 1..Len(wire)
  OBVIOUS
<1> QED
  BY <1>1 DEF FlightTracksServer, InWire, Among

LEMMA ProgressInvInit == Init => ProgressInv
<1> SUFFICES ASSUME Init
             PROVE  ProgressInv
  OBVIOUS
<1>1. wire = <<>> /\ flight = 0 /\ server.open = 0 /\ Len(wire) = 0
  BY DEF Init
<1>2. \A kind : {k \in DOMAIN wire : wire[k].kind = kind} = {}
  BY <1>1
<1>3. \A kind : {k \in 1..0 : wire[k].kind = kind} = {}
  OBVIOUS
<1>4. \A kind : InWire(kind) = 0 /\ Among(wire, kind, 0) = 0
  BY <1>2, <1>3, FS_EmptySet DEF InWire, Among
<1> QED
  BY <1>1, <1>4 DEF ProgressInv, FlightTracksServer, EndsFollowBegins

\* A message the server writes moves both sides of the count together.
LEMMA ProgressWritten ==
  ASSUME TypeOK, TypeOK', ProgressInv, NEW m \in Message, Write(m),
         server'.open + One(m, "end") = server.open + One(m, "begin")
  PROVE  ProgressInv'
<1> DEFINE b(n) == Among(wire, "begin", n)
           e(n) == Among(wire, "end", n)
           nb(n) == Among(wire', "begin", n)
           ne(n) == Among(wire', "end", n)
<1>1. /\ wire \in Seq(Message) /\ wire' \in Seq(Message) /\ wire' = Append(wire, m)
      /\ Len(wire) \in Nat /\ Len(wire') = Len(wire) + 1
      /\ flight \in Nat /\ flight' = flight /\ server.open \in Nat /\ server'.open \in Nat
  BY DEF TypeOK, ServerType, Write, progVars
<1>2. /\ \A n \in 0..Len(wire) : nb(n) = b(n) /\ ne(n) = e(n)
      /\ nb(Len(wire) + 1) = b(Len(wire)) + One(m, "begin")
      /\ ne(Len(wire) + 1) = e(Len(wire)) + One(m, "end")
  BY <1>1, CountWritten
<1>3. \A n \in Nat : b(n) \in Nat /\ e(n) \in Nat /\ nb(n) \in Nat /\ ne(n) \in Nat
  BY AmongType
<1>4. One(m, "begin") \in Nat /\ One(m, "end") \in Nat
  BY DEF One
<1>5. flight + b(Len(wire)) = server.open + e(Len(wire))
  BY <1>1, InWireIsAmong DEF ProgressInv
<1>6. \A n \in 0..Len(wire) : e(n) <= flight + b(n)
  BY DEF ProgressInv, EndsFollowBegins
<1>7. (wire \in Seq(Message))' => (FlightTracksServer' <=>
           flight' + nb(Len(wire')) = server'.open + ne(Len(wire')))
  <2>1. DOMAIN wire' = 1..Len(wire')
    BY <1>1
  <2> QED
    BY <2>1 DEF FlightTracksServer, InWire, Among
<1>8. EndsFollowBegins' <=> \A n \in 0..Len(wire') : ne(n) <= flight' + nb(n)
  BY DEF EndsFollowBegins
<1> HIDE DEF b, e, nb, ne
<1>9. flight' + nb(Len(wire')) = server'.open + ne(Len(wire'))
  <2>2. b(Len(wire)) \in Nat /\ e(Len(wire)) \in Nat
    BY <1>1, <1>3
  <2>3. nb(Len(wire')) = b(Len(wire)) + One(m, "begin") /\ ne(Len(wire')) = e(Len(wire)) + One(m, "end")
    BY <1>1, <1>2
  <2>4. server'.open + One(m, "end") = server.open + One(m, "begin")
    OBVIOUS
  <2> DEFINE p == b(Len(wire))
             q == e(Len(wire))
             x == One(m, "begin")
             y == One(m, "end")
             s == server.open
             t == server'.open
  <2>5. /\ flight \in Nat /\ p \in Nat /\ q \in Nat /\ x \in Nat /\ y \in Nat /\ s \in Nat /\ t \in Nat
        /\ flight + p = s + q /\ t + y = s + x
    BY <1>1, <1>4, <1>5, <2>2, <2>4
  <2>6. nb(Len(wire')) = p + x /\ ne(Len(wire')) = q + y
    BY <2>3
  <2> HIDE DEF p, q, x, y, s, t
  <2>7. flight + (p + x) = t + (q + y)
    BY <2>5
  <2>8. flight' + nb(Len(wire')) = t + ne(Len(wire'))
    BY <1>1, <2>6, <2>7
  <2> QED
    BY <2>8 DEF t
<1>10. ASSUME NEW n \in 0..Len(wire')
       PROVE  ne(n) <= flight' + nb(n)
  <2>1. CASE n \in 0..Len(wire)
    BY <1>1, <1>2, <1>6, <2>1
  <2>2. CASE n = Len(wire')
    <3>1. \A f, p, q, s \in Nat : f + p = s + q => q <= f + p
      OBVIOUS
    <3>2. nb(n) \in Nat /\ ne(n) \in Nat
      BY <1>1, <1>3
    <3>3. flight' + nb(n) = server'.open + ne(n)
      BY <1>9, <2>2
    <3> QED
      BY <1>1, <3>1, <3>2, <3>3
  <2> QED
    BY <1>1, <2>1, <2>2
<1> QED
  BY <1>1, <1>7, <1>8, <1>9, <1>10 DEF ProgressInv

\* A message readLoop takes off the wire is counted by progFlight instead.
LEMMA ProgressRead ==
  ASSUME TypeOK, TypeOK', ProgressInv, wire # <<>>, wire' = Tail(wire),
         server'.open = server.open,
         flight' + One(Head(wire), "end") = flight + One(Head(wire), "begin")
  PROVE  ProgressInv'
<1> DEFINE b(n) == Among(wire, "begin", n)
           e(n) == Among(wire, "end", n)
           nb(n) == Among(wire', "begin", n)
           ne(n) == Among(wire', "end", n)
           h == Head(wire)
<1>1. /\ wire \in Seq(Message) /\ wire' \in Seq(Message)
      /\ Len(wire) \in Nat \ {0} /\ Len(wire') = Len(wire) - 1 /\ Len(wire') \in Nat
      /\ flight \in Nat /\ flight' \in Nat /\ server.open \in Nat
  BY DEF TypeOK, ServerType
<1>2. \A n \in 0..Len(wire') : b(n + 1) = nb(n) + One(h, "begin") /\ e(n + 1) = ne(n) + One(h, "end")
  BY <1>1, CountRead
<1>3. \A n \in Nat : b(n) \in Nat /\ e(n) \in Nat /\ nb(n) \in Nat /\ ne(n) \in Nat
  BY AmongType
<1>4. One(h, "begin") \in Nat /\ One(h, "end") \in Nat
  BY DEF One
<1>5. flight + b(Len(wire)) = server.open + e(Len(wire))
  BY <1>1, InWireIsAmong DEF ProgressInv
<1>6. \A n \in 0..Len(wire) : e(n) <= flight + b(n)
  BY DEF ProgressInv, EndsFollowBegins
<1>7. FlightTracksServer' <=> flight' + nb(Len(wire')) = server'.open + ne(Len(wire'))
  <2>1. DOMAIN wire' = 1..Len(wire')
    BY <1>1
  <2> QED
    BY <2>1 DEF FlightTracksServer, InWire, Among
<1>8. EndsFollowBegins' <=> \A n \in 0..Len(wire') : ne(n) <= flight' + nb(n)
  BY DEF EndsFollowBegins
<1>9. flight' + One(h, "end") = flight + One(h, "begin")
  OBVIOUS
<1> HIDE DEF b, e, nb, ne, h
<1>10. flight' + nb(Len(wire')) = server'.open + ne(Len(wire'))
  <2>1. /\ b(Len(wire)) = nb(Len(wire')) + One(h, "begin")
        /\ e(Len(wire)) = ne(Len(wire')) + One(h, "end")
    BY <1>1, <1>2
  <2>2. \A f, g, p, q, s, x, y \in Nat :
          f + (p + x) = s + (q + y) /\ g + y = f + x => g + p = s + q
    OBVIOUS
  <2>3. nb(Len(wire')) \in Nat /\ ne(Len(wire')) \in Nat
    BY <1>1, <1>3
  <2>4. flight + (nb(Len(wire')) + One(h, "begin")) = server.open + (ne(Len(wire')) + One(h, "end"))
    BY <1>5, <2>1
  <2>5. server'.open = server.open
    OBVIOUS
  <2> QED
    BY <1>1, <1>4, <1>9, <2>2, <2>3, <2>4, <2>5, SMTT(30)
<1>11. ASSUME NEW n \in 0..Len(wire')
       PROVE  ne(n) <= flight' + nb(n)
  <2>1. n + 1 \in 0..Len(wire) /\ n \in Nat
    BY <1>1
  <2>2. \A f, g, p, q, x, y \in Nat : q + y <= f + (p + x) /\ g + y = f + x => q <= g + p
    OBVIOUS
  <2>3. nb(n) \in Nat /\ ne(n) \in Nat
    BY <1>3, <2>1
  <2>4. ne(n) + One(h, "end") <= flight + (nb(n) + One(h, "begin"))
    <3>1. e(n + 1) <= flight + b(n + 1)
      BY <1>6, <2>1
    <3> QED
      BY <1>2, <3>1
  <2> QED
    BY <1>1, <1>4, <1>9, <2>2, <2>3, <2>4, SMTT(30)
<1> QED
  BY <1>7, <1>8, <1>10, <1>11 DEF ProgressInv

\* One step per group of actions that treat the count alike.
LEMMA ProgressStep == TypeOK /\ TypeOK' /\ ProgressInv /\ [Next]_vars => ProgressInv'
<1> SUFFICES ASSUME TypeOK, TypeOK', ProgressInv, [Next]_vars
             PROVE  ProgressInv'
  OBVIOUS
<1> USE DEF callVars, progVars, waitVars, serverVars
<1>1. CASE flight' = flight /\ wire' = wire /\ server'.open = server.open
  BY <1>1 DEF ProgressInv, FlightTracksServer, InWire, EndsFollowBegins
<1>2. CASE ReadResponse \/ ReadRequest
  <2>1. wire # <<>> /\ wire' = Tail(wire) /\ flight' = flight /\ flight \in Nat
    BY <1>2 DEF ReadResponse, ReadRequest, Reading, TypeOK
  <2>2. server'.open = server.open
    BY <1>2 DEF ReadResponse, ReadRequest, TypeOK, ServerType
  <2>3. One(Head(wire), "end") = 0 /\ One(Head(wire), "begin") = 0
    BY <1>2 DEF ReadResponse, ReadRequest, Reading, Responses, One
  <2> QED
    BY <2>1, <2>2, <2>3, ProgressRead
<1>3. CASE ReadProgress
  <2>1. wire # <<>> /\ wire' = Tail(wire) /\ server'.open = server.open /\ flight \in Nat
        /\ flight' = Counted(Head(wire).kind) /\ Head(wire).kind \in {"begin", "report", "end"}
    BY <1>3 DEF ReadProgress, Reading, TypeOK
  <2>2. Head(wire).kind = "end" => flight > 0
    <3> SUFFICES ASSUME Head(wire).kind = "end"
                 PROVE  flight > 0
      OBVIOUS
    <3>1. wire \in Seq(Message) /\ 0 \in 0..(Len(wire) - 1) /\ 1 \in 0..Len(wire)
      BY <2>1 DEF TypeOK
    <3>2. /\ Among(wire, "end", 0 + 1) = Among(Tail(wire), "end", 0) + One(Head(wire), "end")
          /\ Among(wire, "begin", 0 + 1) = Among(Tail(wire), "begin", 0) + One(Head(wire), "begin")
      BY <2>1, <3>1, CountRead
    <3>3. One(Head(wire), "end") = 1 /\ One(Head(wire), "begin") = 0
      BY DEF One
    <3>4. \A kind : {k \in 1..0 : Tail(wire)[k].kind = kind} = {}
      OBVIOUS
    <3>5. \A kind : Among(Tail(wire), kind, 0) = 0
      BY <3>4, FS_EmptySet DEF Among
    <3>6. Among(wire, "end", 1) <= flight + Among(wire, "begin", 1)
      BY <3>1 DEF ProgressInv, EndsFollowBegins
    <3>7. Among(wire, "end", 1) = 1 /\ Among(wire, "begin", 1) = 0
      BY <3>2, <3>3, <3>5
    <3> QED
      BY <2>1, <3>6, <3>7
  <2>3. flight' + One(Head(wire), "end") = flight + One(Head(wire), "begin")
    BY <2>1, <2>2 DEF Counted, One
  <2> QED
    BY <2>1, <2>3, ProgressRead
<1>4. ASSUME NEW i \in Ids, Respond(i) \/ RequestCreate(i)
      PROVE  ProgressInv'
  <2>1. PICK m \in Message : Write(m) /\ m.kind \in {"response", "request"}
    BY <1>4 DEF Respond, RequestCreate, Message
  <2>2. server'.open = server.open /\ server.open \in Nat
    BY <1>4 DEF Respond, RequestCreate, TypeOK, ServerType
  <2>3. One(m, "end") = 0 /\ One(m, "begin") = 0
    BY <2>1 DEF One
  <2> QED
    BY <2>1, <2>2, <2>3, ProgressWritten
<1>5. CASE Begin
  <2>1. [kind |-> "begin"] \in Message /\ Write([kind |-> "begin"])
    BY <1>5 DEF Begin, Message
  <2>2. server'.open = server.open + 1 /\ server.open \in Nat
    BY <1>5 DEF Begin, TypeOK, ServerType
  <2>3. One([kind |-> "begin"], "end") = 0 /\ One([kind |-> "begin"], "begin") = 1
    BY DEF One
  <2> QED
    BY <2>1, <2>2, <2>3, ProgressWritten
<1>6. CASE Report
  <2>1. [kind |-> "report"] \in Message /\ Write([kind |-> "report"])
    BY <1>6 DEF Report, Message
  <2>2. server'.open = server.open /\ server.open \in Nat
    BY <1>6 DEF Report, TypeOK, ServerType
  <2>3. One([kind |-> "report"], "end") = 0 /\ One([kind |-> "report"], "begin") = 0
    BY DEF One
  <2> QED
    BY <2>1, <2>2, <2>3, ProgressWritten
<1>7. CASE End
  <2>1. [kind |-> "end"] \in Message /\ Write([kind |-> "end"])
    BY <1>7 DEF End, Message
  <2>2. server'.open = server.open - 1 /\ server.open \in Nat
    BY <1>7 DEF End, TypeOK, ServerType
  <2>3. One([kind |-> "end"], "end") = 1 /\ One([kind |-> "end"], "begin") = 0
    BY DEF One
  <2> QED
    BY <2>1, <2>2, <2>3, ProgressWritten
<1>8. CASE Break
  <2>1. [kind |-> "broken"] \in Message /\ Write([kind |-> "broken"])
    BY <1>8 DEF Break, Message
  <2>2. server'.open = server.open /\ server.open \in Nat
    BY <1>8 DEF Break, TypeOK, ServerType
  <2>3. One([kind |-> "broken"], "end") = 0 /\ One([kind |-> "broken"], "begin") = 0
    BY DEF One
  <2> QED
    BY <2>1, <2>2, <2>3, ProgressWritten
<1>9. ASSUME NEW c \in Callers, StartCall(c) \/ CancelCall(c) \/ CallStep(c)
      PROVE  ProgressInv'
  <2>1. flight' = flight /\ wire' = wire
    BY <1>9 DEF StartCall, CancelCall, CallStep, Lock, SendRequest, ReceiveResponse, SelectCtx,
      SelectDone, Cleanup
  <2>2. server'.open = server.open
    BY <1>9 DEF StartCall, CancelCall, CallStep, Lock, SendRequest, ReceiveResponse, SelectCtx,
      SelectDone, Cleanup, TypeOK, ServerType
  <2> QED
    BY <1>1, <2>1, <2>2
<1>10. CASE Exit \/ PipeFills \/ PipeDrains \/ Acknowledge
  BY <1>1, <1>10 DEF Exit, PipeFills, PipeDrains, Acknowledge, TypeOK, ServerType
<1>11. CASE \/ Deliver \/ Lock("reader") \/ LoopExits \/ QuietPeriodPasses
            \/ WaitStep \/ CancelWait \/ UNCHANGED vars
  BY <1>1, <1>11 DEF Deliver, Lock, LoopExits, QuietPeriodPasses, WaitStep, WaitForBegin, Poll,
    CancelWait, vars
<1> QED
  BY <1>2, <1>3, <1>4, <1>5, <1>6, <1>7, <1>8, <1>9, <1>10, <1>11 DEF Next, ReadStep, ReadEOF,
    ReadBroken, ReadClosed, ServerStep, Quiesced

\* The progress count of readLoop is what the server has open up to what is not read
\* yet, for any number of messages and phases: progFlight, which never goes below zero
\* because the code refuses to decrement it there, never needs that refusal.
THEOREM FlightTracksServerHolds == Spec => []FlightTracksServer
<1>1. IInv => TypeOK
  BY DEF IInv
<1>2. ProgressInv => FlightTracksServer
  BY DEF ProgressInv
<1> QED
  BY <1>1, <1>2, Invariance, ProgressInvInit, ProgressStep, PTL DEF Spec

-----------------------------------------------------------------------------
\* The refinement of RpcCalls.

\* A call gives up for a reason, and done is closed by a reader that met EOF, a closed
\* pipe or a broken frame.
Reasons ==
  /\ done <=> reader.pc = "exited"
  /\ done => ~server.up \/ server.broke
  /\ \A k \in DOMAIN wire : wire[k].kind = "broken" => server.broke
  /\ \A c \in Callers : call[c].pc = "cleanup" =>
       \/ call[c].result = "ctx" /\ call[c].cancelled
       \/ call[c].result = "closed" /\ (~server.up \/ server.broke)
       \/ call[c].result = "send" /\ ~server.up

LEMMA ReasonsInit == Init => Reasons
  BY DEF Init, Reasons

LEMMA ReasonsStep == ASSUME TypeOK, MutexHeld, Reasons, [Next]_vars PROVE Reasons'
<1> USE DEF callVars, progVars, waitVars, serverVars
<1>0. /\ call \in [Callers -> CallType] /\ server \in ServerType /\ wire \in Seq(Message)
      /\ reader.pc \in {"reading", "delivering", "acking", "exited"}
  BY DEF TypeOK
<1>1. ASSUME NEW c \in Callers, StartCall(c) \/ CancelCall(c) \/ CallStep(c)
      PROVE  Reasons'
  <2>1. UNCHANGED <<reader, done, wire>> /\ server'.up = server.up /\ server'.broke = server.broke
    BY <1>0, <1>1 DEF StartCall, CancelCall, CallStep, Lock, SendRequest, ReceiveResponse,
       SelectCtx, SelectDone, Cleanup, ServerType
  <2>2. ASSUME NEW d \in Callers, d # c
        PROVE  call'[d] = call[d]
    BY <1>0, <1>1, <2>2 DEF StartCall, CancelCall, CallStep, Lock, SendRequest, ReceiveResponse,
       SelectCtx, SelectDone, Cleanup
  <2>3. call'[c].pc = "cleanup" =>
          \/ call'[c].result = "ctx" /\ call'[c].cancelled
          \/ call'[c].result = "closed" /\ (~server.up \/ server.broke)
          \/ call'[c].result = "send" /\ ~server.up
    <3>1. CASE StartCall(c)
      BY <1>0, <3>1 DEF StartCall
    <3>2. CASE CancelCall(c)
      BY <1>0, <3>2 DEF CancelCall, CallType
    <3>3. CASE SendRequest(c)
      BY <1>0, <3>3 DEF SendRequest, CallType
    <3>4. CASE ReceiveResponse(c) \/ Cleanup(c)
      BY <1>0, <3>4 DEF ReceiveResponse, Cleanup, CallType
    <3>5. CASE SelectCtx(c)
      BY <1>0, <3>5 DEF SelectCtx, CallType
    <3>6. CASE SelectDone(c)
      BY <1>0, <3>6 DEF SelectDone, CallType, Reasons
    <3>7. CASE Lock(c)
      BY <3>7 DEF Lock, Reasons
    <3> QED
      BY <1>1, <3>1, <3>2, <3>3, <3>4, <3>5, <3>6, <3>7 DEF CallStep
  <2> QED
    BY <2>1, <2>2, <2>3 DEF Reasons
<1>2. CASE ReadStep
  <2>1. /\ UNCHANGED call /\ server'.up = server.up /\ server'.broke = server.broke
    BY <1>0, <1>2 DEF ReadStep, ReadResponse, Deliver, ReadRequest, Lock, Acknowledge, ReadProgress,
       ReadEOF, ReadBroken, ReadClosed, LoopExits, ServerType
  <2>2. \A k \in DOMAIN wire' : wire'[k].kind = "broken" => server.broke
    <3>1. ASSUME NEW kinds, Reading(kinds)
          PROVE  \A k \in DOMAIN wire' : wire'[k].kind = "broken" => server.broke
      BY <1>0, <3>1, WireShrinks DEF Reasons
    <3>2. (\E kinds : Reading(kinds)) \/ wire' = wire
      BY <1>2 DEF ReadStep, ReadResponse, Deliver, ReadRequest, Lock, Acknowledge, ReadProgress,
         ReadEOF, ReadBroken, ReadClosed, LoopExits
    <3> QED
      BY <3>1, <3>2 DEF Reasons
  <2>3. done' <=> reader'.pc = "exited"
    BY <1>0, <1>2 DEF ReadStep, ReadResponse, Deliver, ReadRequest, Lock, Acknowledge, ReadProgress,
       ReadEOF, ReadBroken, ReadClosed, LoopExits, Reading, MutexHeld, Reasons
  <2>4. done' => ~server.up \/ server.broke
    <3>1. CASE ReadBroken
      <4>1. 1 \in DOMAIN wire /\ wire[1].kind = "broken"
        BY <1>0, <3>1 DEF ReadBroken
      <4> QED
        BY <4>1 DEF Reasons
    <3>2. CASE ReadEOF \/ ReadClosed
      BY <3>2 DEF ReadEOF, ReadClosed
    <3>3. CASE ReadResponse \/ Deliver \/ ReadRequest \/ Lock("reader") \/ Acknowledge \/ ReadProgress
      BY <3>3 DEF ReadResponse, Deliver, ReadRequest, Lock, Acknowledge, ReadProgress, Reasons
    <3> QED
      BY <1>2, <3>1, <3>2, <3>3 DEF ReadStep
  <2> QED
    BY <2>1, <2>2, <2>3, <2>4 DEF Reasons
<1>3. CASE ServerStep
  <2>1. UNCHANGED <<call, reader, done>> /\ (server'.up => server.up) /\ (server.broke => server'.broke)
    BY <1>0, <1>3, ServerKeeps
  <2>2. \A k \in DOMAIN wire' : wire'[k].kind = "broken" => server'.broke
    <3>1. ASSUME NEW m, Write(m), m.kind = "broken" => server'.broke
          PROVE  \A k \in DOMAIN wire' : wire'[k].kind = "broken" => server'.broke
      BY <1>0, <2>1, <3>1 DEF Write, Reasons
    <3>2. CASE Break
      BY <1>0, <3>1, <3>2 DEF Break, ServerType
    <3>3. ASSUME NEW i \in Ids, Respond(i) \/ RequestCreate(i)
          PROVE  \A k \in DOMAIN wire' : wire'[k].kind = "broken" => server'.broke
      BY <3>1, <3>3 DEF Respond, RequestCreate
    <3>4. CASE Begin \/ Report \/ End
      BY <3>1, <3>4 DEF Begin, Report, End
    <3>5. CASE PipeFills \/ PipeDrains \/ Exit
      BY <2>1, <3>5 DEF PipeFills, PipeDrains, Exit, Reasons
    <3> QED
      BY <1>3, <3>2, <3>3, <3>4, <3>5 DEF ServerStep
  <2> QED
    BY <2>1, <2>2 DEF Reasons
<1>4. CASE QuietPeriodPasses \/ WaitStep \/ CancelWait \/ Quiesced \/ UNCHANGED vars
  BY <1>4 DEF QuietPeriodPasses, WaitStep, WaitForBegin, Poll, CancelWait, Quiesced, vars,
     Reasons
<1> QED
  BY <1>1, <1>2, <1>3, <1>4 DEF Next

\* Of the variables of RpcCalls, a step of a call touches the entries of its caller.
LEMMA OneCallMoves ==
  ASSUME NEW c \in Callers, \A d \in Callers \ {c} : call'[d] = call[d],
         NEW p, NEW i, NEW x, NEW o,
         call'[c] = [pc |-> p, id |-> i, cancelled |-> x, result |-> o]
  PROVE  /\ InProgress' = IF p = "idle" THEN InProgress \ {c} ELSE InProgress \cup {c}
         /\ CallID' = [CallID EXCEPT ![c] = i]
         /\ GivenUp' = [GivenUp EXCEPT ![c] = x]
         /\ Returned' = [Returned EXCEPT ![c] = IF p = "idle" THEN o ELSE "none"]
<1>1. call'[c].pc = p /\ call'[c].id = i /\ call'[c].cancelled = x /\ call'[c].result = o
  OBVIOUS
<1>2. InProgress' = IF p = "idle" THEN InProgress \ {c} ELSE InProgress \cup {c}
  BY <1>1 DEF InProgress
<1>3. CallID' = [CallID EXCEPT ![c] = i]
  BY <1>1 DEF CallID
<1>4. GivenUp' = [GivenUp EXCEPT ![c] = x]
  BY <1>1 DEF GivenUp
<1>5. Returned' = [Returned EXCEPT ![c] = IF p = "idle" THEN o ELSE "none"]
  BY <1>1 DEF Returned
<1> QED
  BY <1>2, <1>3, <1>4, <1>5

\* What RpcCalls sees of a call.
LEMMA SeenOfACall ==
  ASSUME NEW c \in Callers
  PROVE  /\ c \in InProgress <=> call[c].pc # "idle"
         /\ CallID[c] = call[c].id /\ GivenUp[c] = call[c].cancelled
         /\ call[c].pc # "idle" => Returned[c] = "none"
         /\ CallID = [CallID EXCEPT ![c] = CallID[c]]
         /\ GivenUp = [GivenUp EXCEPT ![c] = GivenUp[c]]
         /\ Returned = [Returned EXCEPT ![c] = Returned[c]]
  BY DEF InProgress, CallID, GivenUp, Returned

\* The connection implements RpcCalls, for any number of callers and calls.
THEOREM ImplementsCallsHolds == Spec => ImplementsCalls
<1> USE BoundsAssumption
<1>1. Init => Calls!Init
  <2> SUFFICES ASSUME Init PROVE Calls!Init
    OBVIOUS
  <2>1. InProgress = {} /\ CallID = [c \in Callers |-> 0] /\ GivenUp = [c \in Callers |-> FALSE]
        /\ Returned = [c \in Callers |-> "none"]
    BY DEF Init, InProgress, CallID, GivenUp, Returned
  <2>2. 1..nextID = {} /\ server.answered = {} /\ server.up = TRUE /\ server.broke = FALSE
    BY DEF Init
  <2> QED
    BY <2>1, <2>2 DEF Calls!Init
<1>2. ASSUME IInv, Reasons, [Next]_vars
      PROVE  [Calls!Next]_(Calls!vars)
  <2> USE DEF callVars, progVars, waitVars, serverVars
  <2>0. /\ call \in [Callers -> CallType] /\ server \in ServerType /\ nextID \in 0..MaxCalls
        /\ reader.pc \in {"reading", "delivering", "acking", "exited"}
    BY <1>2 DEF IInv, TypeOK
  <2>1. ASSUME NEW c \in Callers, StartCall(c)
        PROVE  Calls!Start(c)
    <3>1. /\ call[c].pc = "idle" /\ nextID + 1 \in Ids \ (1..nextID)
          /\ 1..nextID' = 1..nextID \cup {nextID + 1}
      BY <2>0, <2>1 DEF StartCall, NextID, Ids
    <3>2. /\ \A d \in Callers \ {c} : call'[d] = call[d]
          /\ call'[c] = [pc |-> "sending", id |-> nextID + 1, cancelled |-> FALSE,
                         result |-> "none"]
          /\ server' = server
      BY <2>0, <2>1 DEF StartCall, NextID
    <3>3. /\ InProgress' = InProgress \cup {c} /\ CallID' = [CallID EXCEPT ![c] = nextID + 1]
          /\ GivenUp' = [GivenUp EXCEPT ![c] = FALSE]
          /\ Returned' = [Returned EXCEPT ![c] = "none"]
      BY <3>2, OneCallMoves
    <3> QED
      BY <3>1, <3>2, <3>3, SeenOfACall DEF Calls!Start
  <2>2. ASSUME NEW c \in Callers, CancelCall(c)
        PROVE  Calls!Cancel(c)
    <3>1. /\ \A d \in Callers \ {c} : call'[d] = call[d]
          /\ call'[c] = [pc |-> call[c].pc, id |-> call[c].id, cancelled |-> TRUE,
                         result |-> call[c].result]
          /\ call[c].pc # "idle" /\ UNCHANGED <<nextID, server>>
      BY <2>0, <2>2 DEF CancelCall, CallType
    <3>2. /\ InProgress' = InProgress \cup {c} /\ CallID' = [CallID EXCEPT ![c] = call[c].id]
          /\ GivenUp' = [GivenUp EXCEPT ![c] = TRUE]
          /\ Returned' = [Returned EXCEPT ![c] = "none"]
      BY <3>1, OneCallMoves
    <3>3. UNCHANGED <<InProgress, CallID, Returned>>
      BY <3>1, <3>2, SeenOfACall
    <3> QED
      BY <3>1, <3>2, <3>3, SeenOfACall DEF Calls!Cancel
  <2>3. ASSUME NEW c \in Callers, Lock(c) \/ SendRequest(c) \/ SelectCtx(c) \/ SelectDone(c)
        PROVE  UNCHANGED Calls!vars
    <3>1. PICK p \in {"sending", "waiting", "cleanup"},
               o \in {"none", "response", "ctx", "closed", "send"} :
            /\ \A d \in Callers \ {c} : call'[d] = call[d]
            /\ call'[c] = [pc |-> p, id |-> call[c].id, cancelled |-> call[c].cancelled,
                           result |-> o]
            /\ call[c].pc # "idle" /\ nextID' = nextID
            /\ server'.up = server.up /\ server'.broke = server.broke
            /\ server'.answered = server.answered
      <4>0. CASE Lock(c)
        <5>1. /\ call' = call /\ nextID' = nextID /\ server' = server
              /\ call[c].pc = "sending" /\ call[c] \in CallType
          BY <2>0, <4>0, HoldersAssumption DEF Lock, Sending
        <5> QED
          BY <5>1 DEF CallType
      <4>1. CASE SendRequest(c)
        <5>1. call[c].pc = "sending"
          BY <1>2, <4>1 DEF SendRequest, IInv, MutexHeld
        <5> QED
          BY <2>0, <4>1, <5>1 DEF SendRequest, CallType, ServerType
      <4>2. CASE SelectCtx(c)
        BY <2>0, <4>2 DEF SelectCtx, CallType
      <4>3. CASE SelectDone(c)
        BY <2>0, <4>3 DEF SelectDone, CallType
      <4> QED
        BY <2>3, <4>0, <4>1, <4>2, <4>3
    <3>2. /\ InProgress' = InProgress \cup {c} /\ CallID' = [CallID EXCEPT ![c] = call[c].id]
          /\ GivenUp' = [GivenUp EXCEPT ![c] = call[c].cancelled]
          /\ Returned' = [Returned EXCEPT ![c] = "none"]
      BY <3>1, OneCallMoves
    <3>3. UNCHANGED <<InProgress, CallID, GivenUp, Returned>>
      BY <3>1, <3>2, SeenOfACall
    <3> QED
      BY <3>1, <3>3 DEF Calls!vars
  <2>4. ASSUME NEW c \in Callers, ReceiveResponse(c) \/ Cleanup(c)
        PROVE  Calls!Return(c)
    <3>1. PICK o \in {"response", "ctx", "closed", "send"} :
            /\ \A d \in Callers \ {c} : call'[d] = call[d]
            /\ call'[c] = [pc |-> "idle", id |-> call[c].id, cancelled |-> call[c].cancelled,
                           result |-> o]
            /\ \/ o = "response" /\ call[c].id \in server.answered
               \/ o = "ctx" /\ call[c].cancelled
               \/ o = "closed" /\ (~server.up \/ server.broke)
               \/ o = "send" /\ ~server.up
            /\ call[c].pc # "idle" /\ UNCHANGED <<nextID, server>>
      <4>1. CASE ReceiveResponse(c)
        <5>1. call[c].id \in server.answered
          BY <1>2, <4>1 DEF ReceiveResponse, IInv, IdsAreDistinct, Active, OnlyRealAnswers
        <5> QED
          BY <2>0, <4>1, <5>1 DEF ReceiveResponse, CallType
      <4>2. CASE Cleanup(c)
        <5>1. \/ call[c].result = "ctx" /\ call[c].cancelled
              \/ call[c].result = "closed" /\ (~server.up \/ server.broke)
              \/ call[c].result = "send" /\ ~server.up
          BY <1>2, <4>2 DEF Cleanup, Reasons
        <5> QED
          BY <2>0, <4>2, <5>1 DEF Cleanup, CallType
      <4> QED
        BY <2>4, <4>1, <4>2
    <3>2. /\ InProgress' = InProgress \ {c} /\ CallID' = [CallID EXCEPT ![c] = call[c].id]
          /\ GivenUp' = [GivenUp EXCEPT ![c] = call[c].cancelled]
          /\ Returned' = [Returned EXCEPT ![c] = o]
      BY <3>1, OneCallMoves
    <3>3. CallID' = CallID /\ GivenUp' = GivenUp
      BY <3>2, SeenOfACall
    <3>4. Calls!Justified(c, o)
      BY <3>1, SeenOfACall DEF Calls!Justified
    <3> QED
      BY <3>1, <3>2, <3>3, <3>4, SeenOfACall DEF Calls!Return
  <2>5. ASSUME ServerStep
        PROVE  Calls!Next \/ UNCHANGED Calls!vars
    <3>1. UNCHANGED <<InProgress, CallID, GivenUp, Returned, nextID>>
      BY <2>0, <2>5, ServerKeeps DEF InProgress, CallID, GivenUp, Returned
    <3>2. ASSUME NEW i \in Ids, Respond(i)
          PROVE  Calls!Answer(i)
      <4>1. /\ server.up /\ server'.up = server.up /\ server'.broke = server.broke
            /\ server'.answered = server.answered \cup {i}
        BY <2>0, <3>2 DEF Respond, Write, ServerType
      <4>2. i \in 1..nextID
        BY <1>2, <3>2 DEF Respond, IInv, ServerAnswersCalls
      <4> QED
        BY <3>1, <4>1, <4>2 DEF Calls!Answer
    <3>3. CASE (\E i \in Ids : RequestCreate(i)) \/ Begin \/ Report \/ End \/ PipeFills \/ PipeDrains
      <4>1. /\ server'.up = server.up /\ server'.broke = server.broke
            /\ server'.answered = server.answered
        BY <2>0, <3>3 DEF RequestCreate, Begin, Report, End, PipeFills, PipeDrains, Write, ServerType
      <4> QED
        BY <3>1, <4>1 DEF Calls!vars
    <3>4. CASE Exit
      <4>1. /\ server'.up = FALSE /\ server'.broke = server.broke
            /\ server'.answered = server.answered
        BY <2>0, <3>4 DEF Exit, ServerType
      <4> QED
        BY <3>1, <4>1 DEF Calls!Exit, Calls!Next
    <3>5. CASE Break
      <4>1. /\ server'.up = server.up /\ server'.broke = TRUE
            /\ server'.answered = server.answered
        BY <2>0, <3>5 DEF Break, Write, ServerType
      <4> QED
        BY <3>1, <4>1 DEF Calls!Break, Calls!Next
    <3> QED
      BY <2>5, <3>2, <3>3, <3>4, <3>5 DEF ServerStep, Calls!Next
  <2>6. ASSUME \/ ReadStep \/ QuietPeriodPasses \/ WaitStep \/ CancelWait \/ Quiesced
               \/ UNCHANGED vars
        PROVE  UNCHANGED Calls!vars
    <3>1. /\ UNCHANGED <<call, nextID>>
          /\ server'.up = server.up /\ server'.broke = server.broke
          /\ server'.answered = server.answered
      BY <2>0, <2>6 DEF ReadStep, ReadResponse, Deliver, ReadRequest, Lock, Acknowledge, ReadProgress,
         ReadEOF, ReadBroken, ReadClosed, LoopExits, QuietPeriodPasses, WaitStep, WaitForBegin, Poll, CancelWait, Quiesced, vars, ServerType
    <3> QED
      BY <3>1 DEF Calls!vars, InProgress, CallID, GivenUp, Returned
  <2> QED
    BY <1>2, <2>1, <2>2, <2>3, <2>4, <2>5, <2>6 DEF Next, CallStep, Calls!Next
<1>3. Reasons /\ IInv /\ [Next]_vars => Reasons'
  BY ReasonsStep DEF IInv
<1> QED
  BY <1>1, <1>2, <1>3, Invariance, ReasonsInit, PTL DEF Spec, ImplementsCalls, Calls!Spec

-----------------------------------------------------------------------------
\* The part of CallsReturn and WaitEndsWithIndexing that needs no fairness: what they
\* wait for is never stuck, and each step takes it closer to its end.

CanWrite == server.room \/ ~server.up

CallCanMove(c) ==
  \/ call[c].pc = "sending" /\ (mu = "free" \/ (mu = c /\ CanWrite))
  \/ call[c].pc = "waiting" /\ (chan[call[c].id] = "full" \/ call[c].cancelled \/ done)
  \/ call[c].pc = "cleanup"

\* The holder of conn.mu can write and let go of it.
HolderCanMove == mu # "free" /\ CanWrite

ReaderCanMove ==
  \/ reader.pc = "reading" /\ (wire # <<>> \/ ~server.up)
  \/ reader.pc = "delivering" /\ chan[reader.id] = "empty"
  \/ reader.pc = "acking" /\ (mu = "free" \/ (mu = "reader" /\ CanWrite))

\* What holds up a call that is cancelled or whose readLoop is gone is a live server
\* that does not read; what holds up a call to a server that has exited is nothing.
CallsNotStuck ==
  \A c \in Callers : Active(c) =>
    /\ (call[c].cancelled \/ done) /\ CanWrite => CallCanMove(c) \/ HolderCanMove
    /\ ~server.up => CallCanMove(c) \/ HolderCanMove \/ ReaderCanMove

StepsLeft(pc, locked) ==
  CASE pc = "sending" -> (IF locked THEN 3 ELSE 4)
    [] pc = "waiting" -> 2
    [] pc = "cleanup" -> 1
    [] pc = "idle" -> 0

CallLeft(c) == StepsLeft(call[c].pc, mu = c)

\* Reading a message takes readLoop three steps at most: take, lock, write.
ReadsLeft(pc, locked, n) ==
  3 * n + (CASE pc = "acking" -> (IF locked THEN 2 ELSE 3)
             [] pc = "delivering" -> 2
             [] pc = "reading" -> 1
             [] pc = "exited" -> 0)

ReaderLeft == ReadsLeft(reader.pc, mu = "reader", Len(wire))

CallsComeCloser ==
  \A c \in Callers : Active(c) =>
    /\ CallLeft(c)' <= CallLeft(c)
    /\ CallStep(c) => CallLeft(c)' < CallLeft(c)
    /\ call[c].cancelled => call'[c].cancelled
    /\ ~server.up =>
         /\ ~server'.up
         /\ ReaderLeft' <= ReaderLeft
         /\ ReadStep => ReaderLeft' < ReaderLeft

LEMMA NotStuck == ASSUME IInv, Reasons PROVE CallsNotStuck
<1> SUFFICES ASSUME NEW c \in Callers, Active(c)
             PROVE  /\ (call[c].cancelled \/ done) /\ CanWrite => CallCanMove(c) \/ HolderCanMove
                    /\ ~server.up => CallCanMove(c) \/ HolderCanMove \/ ReaderCanMove
  BY DEF CallsNotStuck
<1>1. /\ call[c].pc \in {"sending", "waiting", "cleanup"}
      /\ reader.pc \in {"reading", "delivering", "acking", "exited"}
  BY DEF IInv, TypeOK, CallType, Active
<1>2. reader.pc = "exited" => done
  BY DEF Reasons
<1>3. reader.pc = "delivering" => ReaderCanMove
  BY DEF IInv, ReaderNeverBlocks, ReaderCanMove
<1> QED
  BY <1>1, <1>2, <1>3 DEF CallCanMove, HolderCanMove, ReaderCanMove, CanWrite

\* A step of another goroutine, of the server or of the clock leaves a call where it is.
LEMMA OthersLeaveCall ==
  ASSUME IInv, [Next]_vars, NEW c \in Callers, Active(c), ~CallStep(c)
  PROVE  /\ call'[c].pc = call[c].pc /\ (call[c].cancelled => call'[c].cancelled)
         /\ mu' = c <=> mu = c
<1> USE HoldersAssumption DEF callVars, progVars, waitVars, serverVars
<1>0. call \in [Callers -> CallType] /\ server \in ServerType
  BY DEF IInv, TypeOK
<1>1. ASSUME NEW d \in Callers, StartCall(d) \/ CancelCall(d)
      PROVE  /\ call'[c].pc = call[c].pc /\ (call[c].cancelled => call'[c].cancelled)
             /\ mu' = mu
  BY <1>0, <1>1 DEF StartCall, CancelCall, CallType, Active
<1>2. ASSUME NEW d \in Callers, CallStep(d)
      PROVE  call'[c] = call[c] /\ (mu' = c <=> mu = c)
  <2>1. d # c
    BY <1>2
  <2> QED
    BY <1>0, <1>2, <2>1 DEF CallStep, Lock, SendRequest, ReceiveResponse, SelectCtx, SelectDone,
       Cleanup
<1>3. ASSUME ReadStep
      PROVE  call'[c] = call[c] /\ (mu' = c <=> mu = c)
  BY <1>3 DEF ReadStep, ReadResponse, Deliver, ReadRequest, Lock, Acknowledge, ReadProgress,
     ReadEOF, ReadBroken, ReadClosed, LoopExits
<1>4. ASSUME ServerStep
      PROVE  call' = call /\ mu' = mu
  BY <1>0, <1>4, ServerKeeps
<1>5. ASSUME QuietPeriodPasses \/ WaitStep \/ CancelWait \/ Quiesced \/ UNCHANGED vars
      PROVE  call' = call /\ mu' = mu
  BY <1>5 DEF QuietPeriodPasses, WaitStep, WaitForBegin, Poll, CancelWait, Quiesced, vars
<1> QED
  BY <1>1, <1>2, <1>3, <1>4, <1>5 DEF Next

LEMMA CallStepTakesACallOn ==
  ASSUME IInv, NEW c \in Callers, CallStep(c)
  PROVE  CallLeft(c)' < CallLeft(c) /\ (call[c].cancelled => call'[c].cancelled)
<1> USE HoldersAssumption
<1>0. call \in [Callers -> CallType]
  BY DEF IInv, TypeOK
<1>1. CASE Lock(c)
  <2>1. call' = call /\ call[c].pc = "sending" /\ mu # c /\ mu' = c
    BY <1>1 DEF Lock, Sending
  <2> QED
    BY <2>1 DEF CallLeft, StepsLeft
<1>2. CASE SendRequest(c)
  <2>1. mu = c /\ call[c].pc = "sending"
    BY <1>2 DEF SendRequest, IInv, MutexHeld
  <2>2. call'[c].pc \in {"waiting", "cleanup"} /\ call'[c].cancelled = call[c].cancelled
    BY <1>0, <1>2 DEF SendRequest, CallType
  <2> QED
    BY <2>1, <2>2 DEF CallLeft, StepsLeft
<1>3. CASE ReceiveResponse(c) \/ SelectCtx(c) \/ SelectDone(c)
  <2>1. /\ call[c].pc = "waiting" /\ call'[c].pc \in {"idle", "cleanup"}
        /\ call'[c].cancelled = call[c].cancelled
    BY <1>0, <1>3 DEF ReceiveResponse, SelectCtx, SelectDone, CallType
  <2> QED
    BY <2>1 DEF CallLeft, StepsLeft
<1>4. CASE Cleanup(c)
  <2>1. /\ call[c].pc = "cleanup" /\ call'[c].pc = "idle"
        /\ call'[c].cancelled = call[c].cancelled
    BY <1>0, <1>4 DEF Cleanup, CallType
  <2> QED
    BY <2>1 DEF CallLeft, StepsLeft
<1> QED
  BY <1>1, <1>2, <1>3, <1>4 DEF CallStep

LEMMA ReadStepTakesReaderOn ==
  ASSUME IInv, ReadStep
  PROVE  ReaderLeft' < ReaderLeft
<1>0. /\ wire \in Seq(Message) /\ Len(wire) \in Nat
      /\ mu = "reader" => reader.pc = "acking"
  BY DEF IInv, TypeOK, MutexHeld
<1>1. ASSUME NEW kinds, Reading(kinds)
      PROVE  reader.pc = "reading" /\ Len(wire') \in Nat /\ Len(wire') = Len(wire) - 1
  BY <1>0, <1>1 DEF Reading
<1>2. CASE ReadResponse
  <2>1. reader'.pc \in {"reading", "delivering"}
    BY <1>2 DEF ReadResponse, Reading
  <2> QED
    BY <1>0, <1>1, <1>2, <2>1 DEF ReadResponse, ReaderLeft, ReadsLeft
<1>3. CASE ReadRequest \/ ReadProgress
  BY <1>0, <1>1, <1>3 DEF ReadRequest, ReadProgress, ReaderLeft, ReadsLeft
<1>4. CASE Deliver
  BY <1>0, <1>4 DEF Deliver, ReaderLeft, ReadsLeft, serverVars
<1>5. CASE Lock("reader")
  <2>1. /\ reader' = reader /\ wire' = wire /\ reader.pc = "acking"
        /\ mu # "reader" /\ mu' = "reader"
    BY <1>5 DEF Lock, Sending, serverVars
  <2> QED
    BY <1>0, <2>1 DEF ReaderLeft, ReadsLeft
<1>6. CASE Acknowledge
  BY <1>0, <1>6 DEF Acknowledge, ReaderLeft, ReadsLeft
<1>7. CASE LoopExits
  BY <1>0, <1>7 DEF LoopExits, ReaderLeft, ReadsLeft, serverVars
<1> QED
  BY <1>2, <1>3, <1>4, <1>5, <1>6, <1>7 DEF ReadStep, ReadEOF, ReadBroken, ReadClosed

LEMMA ComeCloser == ASSUME IInv, [Next]_vars PROVE CallsComeCloser
<1> USE HoldersAssumption DEF callVars, progVars, waitVars, serverVars
<1>0. /\ call \in [Callers -> CallType] /\ server \in ServerType /\ Len(wire) \in Nat
      /\ reader.pc \in {"reading", "delivering", "acking", "exited"}
  BY DEF IInv, TypeOK
<1> SUFFICES ASSUME NEW c \in Callers, Active(c)
             PROVE  /\ CallLeft(c)' <= CallLeft(c)
                    /\ CallStep(c) => CallLeft(c)' < CallLeft(c)
                    /\ call[c].cancelled => call'[c].cancelled
                    /\ ~server.up =>
                         /\ ~server'.up
                         /\ ReaderLeft' <= ReaderLeft
                         /\ ReadStep => ReaderLeft' < ReaderLeft
  BY DEF CallsComeCloser
<1>1. call[c].pc \in {"sending", "waiting", "cleanup"}
  BY <1>0 DEF CallType, Active
<1>2. CallLeft(c) \in Int /\ ReaderLeft \in Int
  BY <1>0, <1>1 DEF CallLeft, StepsLeft, ReaderLeft, ReadsLeft
<1>3. ASSUME ~CallStep(c)
      PROVE  CallLeft(c)' = CallLeft(c) /\ (call[c].cancelled => call'[c].cancelled)
  <2>1. /\ call'[c].pc = call[c].pc /\ (call[c].cancelled => call'[c].cancelled)
        /\ mu' = c <=> mu = c
    BY <1>3, OthersLeaveCall
  <2> QED
    BY <2>1 DEF CallLeft
<1>4. ASSUME ~server.up
      PROVE  ~server'.up /\ (ReadStep \/ ReaderLeft' = ReaderLeft)
  <2>1. ASSUME NEW d \in Callers, StartCall(d) \/ CancelCall(d) \/ CallStep(d)
        PROVE  ~server'.up /\ UNCHANGED <<reader, wire>> /\ (mu' = "reader" <=> mu = "reader")
    BY <1>0, <1>4, <2>1 DEF StartCall, CancelCall, CallStep, Lock, SendRequest, ReceiveResponse,
       SelectCtx, SelectDone, Cleanup
  <2>2. ~ServerStep
    BY <1>4 DEF ServerStep, Respond, RequestCreate, Begin, Report, End, Break, PipeFills,
       PipeDrains, Exit, Write
  <2>3. ASSUME ReadStep
        PROVE  ~server'.up
    BY <1>0, <1>4, <2>3 DEF ReadStep, ReadResponse, Deliver, ReadRequest, Lock, Acknowledge,
       ReadProgress, ReadEOF, ReadBroken, ReadClosed, LoopExits
  <2>4. ASSUME QuietPeriodPasses \/ WaitStep \/ CancelWait \/ Quiesced \/ UNCHANGED vars
        PROVE  ~server'.up /\ UNCHANGED <<reader, wire, mu>>
    BY <1>4, <2>4 DEF QuietPeriodPasses, WaitStep, WaitForBegin, Poll, CancelWait, Quiesced, vars
  <2>5. UNCHANGED <<reader, wire>> /\ (mu' = "reader" <=> mu = "reader") => ReaderLeft' = ReaderLeft
    BY DEF ReaderLeft
  <2> QED
    BY <2>1, <2>2, <2>3, <2>4, <2>5 DEF Next
<1>5. ASSUME ReadStep
      PROVE  ReaderLeft' < ReaderLeft /\ ReaderLeft' \in Int
  <2>1. ReaderLeft' < ReaderLeft
    BY <1>5, ReadStepTakesReaderOn
  <2>2. /\ reader'.pc \in {"reading", "delivering", "acking", "exited"} /\ Len(wire') \in Nat
    BY IInvStep DEF IInv, TypeOK
  <2>3. ReaderLeft' \in Int
    BY <2>2 DEF ReaderLeft, ReadsLeft
  <2> QED
    BY <2>1, <2>3
<1>6. ASSUME CallStep(c)
      PROVE  CallLeft(c)' < CallLeft(c) /\ CallLeft(c)' \in Int
  <2>1. CallLeft(c)' < CallLeft(c)
    BY <1>6, CallStepTakesACallOn
  <2>2. call'[c].pc \in {"idle", "sending", "waiting", "cleanup"}
    BY IInvStep DEF IInv, TypeOK, CallType
  <2>3. CallLeft(c)' \in Int
    BY <2>2 DEF CallLeft, StepsLeft
  <2> QED
    BY <2>1, <2>3
<1>7. CallStep(c) => (call[c].cancelled => call'[c].cancelled)
  BY CallStepTakesACallOn
<1> QED
  BY <1>2, <1>3, <1>4, <1>5, <1>6, <1>7

\* The part of CallsReturn that needs no fairness. A call that is cancelled, or whose
\* readLoop is gone, can go on itself or waits for the holder of conn.mu, who can write,
\* unless a live server leaves its stdin full; once the server has exited, the call, the
\* holder or readLoop can go on in any case. Nothing anybody does takes them back, and
\* they have finitely many steps to make.
THEOREM CallsProgress == Spec => []CallsNotStuck /\ [][CallsComeCloser]_vars
<1>1. IInv /\ Reasons => CallsNotStuck
  BY NotStuck
<1>2. IInv /\ [Next]_vars => [CallsComeCloser]_vars
  BY ComeCloser
<1>3. IInv /\ Reasons /\ [Next]_vars => Reasons'
  BY ReasonsStep DEF IInv
<1> QED
  BY <1>1, <1>2, <1>3, Invariance, ReasonsInit, PTL DEF Spec

WaiterCanMove == waiter = "phase1" \/ (waiter = "phase2" /\ ((flight = 0 /\ quiet) \/ waitCtx))

WaiterNotStuck ==
  waiter # "returned" /\ (waitCtx \/ (server.open = 0 /\ wire = <<>> /\ quiet)) => WaiterCanMove

\* The same for WaitEndsWithIndexing: when the server has no progress open and readLoop has
\* read everything, the counter that waitForIdle polls is zero.
THEOREM WaitForIdleNotStuck == Spec => []WaiterNotStuck
<1>1. ASSUME TypeOK, ProgressInv
      PROVE  WaiterNotStuck
  <2>1. wire = <<>> => InWire("begin") = 0 /\ InWire("end") = 0
    <3>1. wire = <<>> => \A kind : {k \in DOMAIN wire : wire[k].kind = kind} = {}
      OBVIOUS
    <3> QED
      BY <3>1, FS_EmptySet DEF InWire
  <2>2. wire = <<>> /\ server.open = 0 => flight = 0
    BY <1>1, <2>1 DEF TypeOK, ProgressInv, FlightTracksServer
  <2> QED
    BY <1>1, <2>2 DEF WaiterNotStuck, WaiterCanMove, TypeOK
<1>2. IInv => TypeOK
  BY DEF IInv
<1> QED
  BY <1>1, <1>2, Invariance, ProgressInvInit, ProgressStep, PTL DEF Spec
=============================================================================
