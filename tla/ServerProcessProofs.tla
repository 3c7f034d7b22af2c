------------------------- MODULE ServerProcessProofs -------------------------
(***************************************************************************)
(* Proofs about ServerProcess, for any callers, documents and capacities.  *)
(***************************************************************************)
EXTENDS ServerProcess, TLAPS

Messages == [from : Actors, kind : {"request", "message"}]

Frames == Actors \cup {"create", "broken"}

LEMMA AppendAt ==
  ASSUME NEW S, NEW s \in Seq(S), NEW x \in S
  PROVE  /\ Append(s, x) \in Seq(S) /\ Len(Append(s, x)) = Len(s) + 1
         /\ Append(s, x)[Len(s) + 1] = x
         /\ \A k \in 1..Len(s) : Append(s, x)[k] = s[k]
  OBVIOUS

LEMMA TailAt ==
  ASSUME NEW S, NEW s \in Seq(S), s # <<>>
  PROVE  /\ Tail(s) \in Seq(S) /\ Len(Tail(s)) = Len(s) - 1 /\ Len(s) >= 1 /\ Len(s) \in Nat
         /\ Head(s) = s[1] /\ Head(s) \in S
         /\ \A k \in 1..(Len(s) - 1) : Tail(s)[k] = s[k + 1]
  OBVIOUS

-----------------------------------------------------------------------------
\* What there is of a call of a: its request on the way to stdin, in it, or taken by the
\* server, and its response in stdout or in the channel of the call.
Request(q, a, i) == q[i].from = a /\ q[i].kind = "request"

Nowhere(a, sent, in, taken, answered, got) ==
  /\ sent[a] # "request" /\ a \notin taken /\ a \notin got
  /\ \A i \in 1..Len(in) : ~Request(in, a, i)
  /\ \A i \in 1..Len(answered) : answered[i] # a

OnePlace(a, sent, in, taken, answered, got) ==
  /\ \A i, j \in 1..Len(in) : Request(in, a, i) /\ Request(in, a, j) => i = j
  /\ \A i, j \in 1..Len(answered) : answered[i] = a /\ answered[j] = a => i = j
  /\ sent[a] = "request" =>
       /\ a \notin taken /\ a \notin got
       /\ \A i \in 1..Len(in) : ~Request(in, a, i)
       /\ \A i \in 1..Len(answered) : answered[i] # a
  /\ a \in taken =>
       /\ a \notin got
       /\ \A i \in 1..Len(in) : ~Request(in, a, i)
       /\ \A i \in 1..Len(answered) : answered[i] # a
  /\ a \in got =>
       /\ \A i \in 1..Len(in) : ~Request(in, a, i)
       /\ \A i \in 1..Len(answered) : answered[i] # a
  /\ \A i \in 1..Len(in), j \in 1..Len(answered) : ~(Request(in, a, i) /\ answered[j] = a)

LEMMA Abandoned ==
  ASSUME NEW a, NEW sent, NEW in, NEW taken, NEW answered, NEW got,
         NEW sent2, NEW in2, NEW taken2, NEW got2,
         sent2[a] = "request" => sent[a] = "request",
         in2 = in \/ in2 = <<>>, taken2 \subseteq taken, got2 \subseteq got
  PROVE  /\ OnePlace(a, sent, in, taken, answered, got) =>
              OnePlace(a, sent2, in2, taken2, answered, got2)
         /\ Nowhere(a, sent, in, taken, answered, got) =>
              Nowhere(a, sent2, in2, taken2, answered, got2)
<1>1. CASE in2 = in
  BY <1>1 DEF OnePlace, Nowhere
<1>2. CASE in2 = <<>>
  <2>1. \A i \in 1..Len(in2) : FALSE
    BY <1>2
  <2> QED
    BY <2>1 DEF OnePlace, Nowhere
<1> QED
  BY <1>1, <1>2

LEMMA Asked ==
  ASSUME NEW a, NEW sent, NEW in, NEW taken, NEW answered, NEW got, NEW sent2,
         Nowhere(a, sent, in, taken, answered, got)
  PROVE  OnePlace(a, sent2, in, taken, answered, got)
  BY DEF OnePlace, Nowhere

Message(b, kind) == [from |-> b, kind |-> kind]

WrittenBy(b, sent, in, sent2, in2) ==
  /\ b \in Actors /\ sent[b] \in {"request", "message"} /\ sent2[b] = "none"
  /\ \A c \in Actors : c # b => sent2[c] = sent[c]
  /\ in2 = Append(in, Message(b, sent[b]))

LEMMA Written ==
  ASSUME NEW a \in Actors, NEW b, NEW sent, NEW in \in Seq(Messages), NEW taken,
         NEW answered, NEW got, NEW sent2, NEW in2, WrittenBy(b, sent, in, sent2, in2)
  PROVE  /\ in2 \in Seq(Messages)
         /\ OnePlace(a, sent, in, taken, answered, got) =>
              OnePlace(a, sent2, in2, taken, answered, got)
         /\ Nowhere(a, sent, in, taken, answered, got) <=>
              Nowhere(a, sent2, in2, taken, answered, got)
<1>0. /\ b \in Actors /\ sent[b] \in {"request", "message"} /\ sent2[b] = "none"
      /\ \A c \in Actors : c # b => sent2[c] = sent[c]
      /\ in2 = Append(in, Message(b, sent[b]))
  BY DEF WrittenBy
<1>1. PICK x \in Messages : x = Message(b, sent[b]) /\ x.from = b /\ x.kind = sent[b]
  BY <1>0 DEF Message, Messages
<1>2. /\ in2 \in Seq(Messages) /\ Len(in2) = Len(in) + 1 /\ Len(in) \in Nat
      /\ in2[Len(in) + 1] = x
      /\ \A k \in 1..Len(in) : in2[k] = in[k]
  BY <1>0, <1>1, AppendAt
<1>3. \A i \in 1..Len(in2) : i = Len(in) + 1 \/ i \in 1..Len(in)
  BY <1>2
<1>4. \A i \in 1..Len(in) : i \in 1..Len(in2) /\ i # Len(in) + 1
  BY <1>2
<1>5. Len(in) + 1 \in 1..Len(in2)
  BY <1>2
<1>6. \A i \in 1..Len(in2) :
        Request(in2, a, i) <=> \/ i \in 1..Len(in) /\ Request(in, a, i)
                               \/ i = Len(in) + 1 /\ b = a /\ sent[b] = "request"
  BY <1>1, <1>2, <1>3, <1>4 DEF Request
<1>7. sent2[a] = "request" <=> a # b /\ sent[a] = "request"
  BY <1>0
<1>8. OnePlace(a, sent, in, taken, answered, got) => OnePlace(a, sent2, in2, taken, answered, got)
  BY <1>3, <1>4, <1>6, <1>7 DEF OnePlace
<1>9. Nowhere(a, sent, in, taken, answered, got) <=> Nowhere(a, sent2, in2, taken, answered, got)
  BY <1>3, <1>4, <1>5, <1>6, <1>7 DEF Nowhere
<1> QED
  BY <1>2, <1>8, <1>9

TakenBy(in, taken) ==
  IF Head(in).kind = "request" THEN taken \cup {Head(in).from} ELSE taken

LEMMA Taken ==
  ASSUME NEW a \in Actors, NEW sent, NEW in \in Seq(Messages), NEW taken, NEW answered, NEW got,
         NEW in2, NEW taken2, in # <<>>, in2 = Tail(in),
         taken2 = TakenBy(in, taken)
  PROVE  /\ in2 \in Seq(Messages)
         /\ OnePlace(a, sent, in, taken, answered, got) =>
              OnePlace(a, sent, in2, taken2, answered, got)
         /\ Nowhere(a, sent, in, taken, answered, got) <=>
              Nowhere(a, sent, in2, taken2, answered, got)
<1>1. /\ in2 \in Seq(Messages) /\ Len(in2) = Len(in) - 1 /\ Len(in) \in Nat /\ Len(in) >= 1
      /\ Head(in) = in[1]
      /\ \A k \in 1..(Len(in) - 1) : in2[k] = in[k + 1]
  BY TailAt
<1>2. \A i \in 1..Len(in2) : /\ i + 1 \in 1..Len(in) /\ i + 1 # 1
                             /\ Request(in2, a, i) <=> Request(in, a, i + 1)
  BY <1>1 DEF Request
<1>3. \A i, j \in 1..Len(in2) : i + 1 = j + 1 => i = j
  BY <1>1
<1>4. 1 \in 1..Len(in)
  BY <1>1
<1>5. \A i \in 1..Len(in) : i = 1 \/ (i - 1 \in 1..Len(in2) /\ (i - 1) + 1 = i)
  BY <1>1
<1>6. a \in taken2 <=> a \in taken \/ Request(in, a, 1)
  BY <1>1 DEF Request, TakenBy
<1>7. OnePlace(a, sent, in, taken, answered, got) => OnePlace(a, sent, in2, taken2, answered, got)
  <2> SUFFICES ASSUME OnePlace(a, sent, in, taken, answered, got)
               PROVE  OnePlace(a, sent, in2, taken2, answered, got)
    OBVIOUS
  <2>1. \A i, j \in 1..Len(in2) : Request(in2, a, i) /\ Request(in2, a, j) => i = j
    BY <1>2, <1>3 DEF OnePlace
  <2>2. sent[a] = "request" => a \notin taken2 /\ \A i \in 1..Len(in2) : ~Request(in2, a, i)
    BY <1>2, <1>4, <1>6 DEF OnePlace
  <2>3. a \in taken2 => \A i \in 1..Len(in2) : ~Request(in2, a, i)
    BY <1>2, <1>4, <1>6 DEF OnePlace
  <2>4. a \in taken2 => a \notin got /\ \A i \in 1..Len(answered) : answered[i] # a
    BY <1>4, <1>6 DEF OnePlace
  <2>5. a \in got => \A i \in 1..Len(in2) : ~Request(in2, a, i)
    BY <1>2 DEF OnePlace
  <2>6. \A i \in 1..Len(in2), j \in 1..Len(answered) : ~(Request(in2, a, i) /\ answered[j] = a)
    BY <1>2 DEF OnePlace
  <2> QED
    BY <2>1, <2>2, <2>3, <2>4, <2>5, <2>6 DEF OnePlace
<1>8. Nowhere(a, sent, in, taken, answered, got) => Nowhere(a, sent, in2, taken2, answered, got)
  BY <1>2, <1>4, <1>6 DEF Nowhere
<1>9. Nowhere(a, sent, in2, taken2, answered, got) => Nowhere(a, sent, in, taken, answered, got)
  BY <1>2, <1>5, <1>6 DEF Nowhere
<1> QED
  BY <1>1, <1>7, <1>8, <1>9

LEMMA Answered ==
  ASSUME NEW a \in Actors, NEW sent, NEW in, NEW taken, NEW answered \in Seq(Frames), NEW got,
         NEW m \in Frames, NEW taken2, NEW answered2, m \in Actors => m \in taken,
         taken2 = taken \ {m}, answered2 = Append(answered, m)
  PROVE  /\ answered2 \in Seq(Frames)
         /\ OnePlace(a, sent, in, taken, answered, got) =>
              OnePlace(a, sent, in, taken2, answered2, got)
         /\ Nowhere(a, sent, in, taken, answered, got) <=>
              Nowhere(a, sent, in, taken2, answered2, got)
<1>1. /\ answered2 \in Seq(Frames) /\ Len(answered2) = Len(answered) + 1
      /\ Len(answered) \in Nat /\ answered2[Len(answered) + 1] = m
      /\ \A k \in 1..Len(answered) : answered2[k] = answered[k]
  BY AppendAt
<1>2. \A i \in 1..Len(answered2) : i = Len(answered) + 1 \/ i \in 1..Len(answered)
  BY <1>1
<1>3. \A i \in 1..Len(answered) : i \in 1..Len(answered2) /\ i # Len(answered) + 1
  BY <1>1
<1>4. Len(answered) + 1 \in 1..Len(answered2)
  BY <1>1
<1>5. \A i \in 1..Len(answered2) :
        answered2[i] = a <=> \/ i \in 1..Len(answered) /\ answered[i] = a
                             \/ i = Len(answered) + 1 /\ m = a
  BY <1>1, <1>2, <1>3
<1>6. OnePlace(a, sent, in, taken, answered, got) => OnePlace(a, sent, in, taken2, answered2, got)
  BY <1>2, <1>3, <1>5 DEF OnePlace
<1>7. Nowhere(a, sent, in, taken, answered, got) <=> Nowhere(a, sent, in, taken2, answered2, got)
  BY <1>2, <1>3, <1>4, <1>5 DEF Nowhere
<1> QED
  BY <1>1, <1>6, <1>7

\* The response to m is delivered, or nobody waits for it.
LEMMA Delivered ==
  ASSUME NEW a \in Actors, NEW sent, NEW in, NEW taken, NEW answered \in Seq(Frames), NEW got,
         NEW answered2, NEW got2, answered # <<>>, answered2 = Tail(answered),
         got2 = got \cup {Head(answered)} \/ (got2 = got)
  PROVE  /\ answered2 \in Seq(Frames)
         /\ OnePlace(a, sent, in, taken, answered, got) =>
              OnePlace(a, sent, in, taken, answered2, got2)
         /\ Nowhere(a, sent, in, taken, answered, got) =>
              Nowhere(a, sent, in, taken, answered2, got2)
         /\ Nowhere(a, sent, in, taken, answered2, got2) /\ (Head(answered) = a => a \in got2) =>
              Nowhere(a, sent, in, taken, answered, got)
<1>1. /\ answered2 \in Seq(Frames) /\ Len(answered2) = Len(answered) - 1
      /\ Len(answered) \in Nat /\ Len(answered) >= 1
      /\ Head(answered) = answered[1]
      /\ \A k \in 1..(Len(answered) - 1) : answered2[k] = answered[k + 1]
  BY TailAt
<1>2. \A i \in 1..Len(answered2) : /\ i + 1 \in 1..Len(answered) /\ i + 1 # 1
                                   /\ answered2[i] = answered[i + 1]
  BY <1>1
<1>3. \A i, j \in 1..Len(answered2) : i + 1 = j + 1 => i = j
  BY <1>1
<1>4. 1 \in 1..Len(answered)
  BY <1>1
<1>5. \A i \in 1..Len(answered) : i = 1 \/ (i - 1 \in 1..Len(answered2) /\ (i - 1) + 1 = i)
  BY <1>1
<1>6. a \in got2 => a \in got \/ answered[1] = a
  BY <1>1
<1>7. OnePlace(a, sent, in, taken, answered, got) => OnePlace(a, sent, in, taken, answered2, got2)
  <2> SUFFICES ASSUME OnePlace(a, sent, in, taken, answered, got)
               PROVE  OnePlace(a, sent, in, taken, answered2, got2)
    OBVIOUS
  <2>1. \A i, j \in 1..Len(answered2) : answered2[i] = a /\ answered2[j] = a => i = j
    BY <1>2, <1>3 DEF OnePlace
  <2>2. sent[a] = "request" => a \notin got2 /\ \A i \in 1..Len(answered2) : answered2[i] # a
    BY <1>2, <1>4, <1>6 DEF OnePlace
  <2>3. a \in taken => a \notin got2 /\ \A i \in 1..Len(answered2) : answered2[i] # a
    BY <1>2, <1>4, <1>6 DEF OnePlace
  <2>4. a \in got2 => \A i \in 1..Len(answered2) : answered2[i] # a
    BY <1>2, <1>4, <1>6 DEF OnePlace
  <2>5. a \in got2 => \A i \in 1..Len(in) : ~Request(in, a, i)
    BY <1>4, <1>6 DEF OnePlace
  <2>6. \A i \in 1..Len(in), j \in 1..Len(answered2) : ~(Request(in, a, i) /\ answered2[j] = a)
    BY <1>2 DEF OnePlace
  <2> QED
    BY <2>1, <2>2, <2>3, <2>4, <2>5, <2>6 DEF OnePlace
<1>8. Nowhere(a, sent, in, taken, answered, got) => Nowhere(a, sent, in, taken, answered2, got2)
  BY <1>2, <1>4, <1>6 DEF Nowhere
<1>9. Nowhere(a, sent, in, taken, answered2, got2) /\ (Head(answered) = a => a \in got2) =>
        Nowhere(a, sent, in, taken, answered, got)
  <2> SUFFICES ASSUME Nowhere(a, sent, in, taken, answered2, got2),
                      Head(answered) = a => a \in got2
               PROVE  Nowhere(a, sent, in, taken, answered, got)
    OBVIOUS
  <2>1. answered[1] # a
    BY <1>1 DEF Nowhere
  <2>2. \A i \in 1..Len(answered) : answered[i] # a
    BY <1>2, <1>5, <2>1 DEF Nowhere
  <2> QED
    BY <2>2 DEF Nowhere
<1> QED
  BY <1>1, <1>7, <1>8, <1>9

-----------------------------------------------------------------------------
\* A process is waited for before its session is over, and gone before it is waited for
\* without a timeout. Nobody can read what is left in a dead one's stdin.
Ends ==
  /\ process # "up" => stdin = <<>> /\ asked = {}
  /\ owner \in {"aborting", "killed"} => process # "up"
  /\ owner \in {"failed", "drain", "ended"} => process = "reaped"

\* There are no queries before the session is open.
Unused ==
  owner \in {"initialize", "initialized", "preload", "settle"} =>
    \A c \in Callers : user[c] = "absent"

\* conn.mu is held by a goroutine in send.
LockHeld == mu # "free" => Sending(mu)

\* Of the calls of a goroutine, one at a time is anywhere.
OneRequestEach ==
  /\ \A a \in Actors : OnePlace(a, out, stdin, asked, stdout, replied)
  /\ \A c \in Callers :
       user[c] \in {"absent", "idle"} => Nowhere(c, out, stdin, asked, stdout, replied)
  /\ owner \in {"initialized", "preload", "settle", "open", "close"} =>
       Nowhere("owner", out, stdin, asked, stdout, replied)

\* A call that nobody has failed is somewhere.
NoLostCall ==
  process = "up" /\ ~done =>
    /\ \A c \in Callers :
         user[c] = "busy" /\ out[c] # "failed" =>
           ~Nowhere(c, out, stdin, asked, stdout, replied)
    /\ owner = "initialize" /\ out["owner"] # "failed" =>
         ~Nowhere("owner", out, stdin, asked, stdout, replied)

ProcessInv == ProcessTypeOK /\ Ends /\ Unused /\ LockHeld /\ OneRequestEach /\ NoLostCall

LEMMA Names ==
  /\ "owner" \in Actors /\ "reader" \in Actors /\ "loop" \in Users /\ Users \subseteq Actors
  /\ Callers \subseteq Users /\ "owner" \notin Users /\ "owner" \notin Callers
  /\ "reader" \notin Users /\ "loop" \notin Callers /\ "free" \notin Actors
  /\ "create" \notin Actors /\ "broken" \notin Actors
  /\ Actors \ {"owner", "reader", "loop"} = Callers
  BY ProcessAssumption DEF Actors, Users

\* The type invariant, and what the other invariants read of it.
LEMMA Types ==
  ASSUME ProcessTypeOK
  PROVE  /\ out \in [Actors -> {"none", "request", "message", "failed"}]
         /\ stdin \in Seq(Messages) /\ stdout \in Seq(Frames)
  BY DEF ProcessTypeOK, Messages, Frames

-----------------------------------------------------------------------------
LEMMA ProcessInit == Init => ProcessInv
<1> SUFFICES ASSUME Init
             PROVE  ProcessInv
  OBVIOUS
<1>1. ProcessTypeOK
  <2>1. /\ owner \in OwnerPc /\ left \in 0..Docs /\ noise \in 0..MaxNoise
        /\ Len(<<>>) <= StdinCap /\ Len(<<>>) <= StdoutCap
    BY ProcessAssumption DEF Init, OwnerPc
  <2>2. /\ user \in [Users -> {"absent", "idle", "busy", "returned"}]
        /\ out \in [Actors -> {"none", "request", "message", "failed"}]
    BY DEF Init
  <2>3. /\ stdin \in Seq([from : Actors, kind : {"request", "message"}])
        /\ stdout \in Seq(Actors \cup {"create", "broken"})
    BY DEF Init
  <2> QED
    BY <2>1, <2>2, <2>3 DEF Init, ProcessTypeOK
<1>2. Ends /\ Unused /\ LockHeld
  BY Names DEF Init, Ends, Unused, LockHeld
<1>3. \A i \in 1..Len(<<>>) : FALSE
  OBVIOUS
<1>4. OneRequestEach
  BY <1>3, Names DEF Init, OneRequestEach, OnePlace, Nowhere
<1>5. NoLostCall
  BY Names DEF Init, NoLostCall, Nowhere
<1> QED
  BY <1>1, <1>2, <1>4, <1>5 DEF ProcessInv


-----------------------------------------------------------------------------
\* The actions, one by one.
Steps ==
  \/ \E a \in Actors : Lock(a)
  \/ \E a \in Actors : Write(a)
  \/ \E a \in Actors : WriteFails(a)
  \/ Initialized
  \/ AbortInitialize
  \/ InitializedSent
  \/ Aborted
  \/ Preload
  \/ Preloaded
  \/ Settled
  \/ StartShutdown
  \/ CloseDocument
  \/ RequestShutdown
  \/ NotifyExit
  \/ StartWait
  \/ KillAfterTimeout
  \/ WaitReturns
  \/ Drained
  \/ Reap
  \/ \E u \in Users : StartUse(u)
  \/ \E u \in Users : UseReturns(u)
  \/ \E u \in Users : CallCancelled(u)
  \/ ReadResponse
  \/ ReadCreate
  \/ ReadEnds
  \/ ScanEnds
  \/ LongLine
  \/ Take
  \/ \E a \in Actors : Respond(a)
  \/ \E m \in {"create", "broken"} : Disturb(m)
  \/ Exit

LEMMA NextSteps == Next => Steps
  BY DEF Next, Steps, SendStep, OwnerStep, InitializeFails, ReadStep, ServerStep

LEMMA KillTypes ==
  ASSUME ProcessTypeOK, Kill
  PROVE  /\ process' \in {"up", "dead", "reaped"} /\ asked' \in SUBSET Actors
         /\ stdin' \in Seq([from : Actors, kind : {"request", "message"}])
         /\ Len(stdin') <= StdinCap /\ noise' \in 0..MaxNoise
<1>1. Len(<<>>) <= StdinCap
  BY ProcessAssumption
<1>2. CASE process = "up"
  <2>1. process' = "dead" /\ stdin' = <<>> /\ asked' = {} /\ noise' = noise
    BY <1>2 DEF Kill, Die
  <2>2. <<>> \in Seq([from : Actors, kind : {"request", "message"}])
    OBVIOUS
  <2> QED
    BY <1>1, <2>1, <2>2 DEF ProcessTypeOK
<1>3. CASE process # "up"
  BY <1>3 DEF ProcessTypeOK, Kill, serverVars
<1> QED
  BY <1>2, <1>3

LEMMA TypeStep == ASSUME ProcessTypeOK, LockHeld, [Next]_vars PROVE ProcessTypeOK'
<1> USE DEF ownerVars, sendVars, serverVars, readVars
<1>1. CASE \E a \in Actors : Lock(a)
  BY <1>1, ProcessAssumption, Names DEF ProcessTypeOK, Lock, Sending, OwnerPc
<1>2. CASE \E a \in Actors : Write(a)
  <2>1. PICK a \in Actors : Write(a)
    BY <1>2
  <2>2. /\ out[a] \in {"request", "message"} /\ Len(stdin) < StdinCap
        /\ stdin' = Append(stdin, [from |-> a, kind |-> out[a]])
    BY <2>1, Names DEF LockHeld, Write, Sending
  <2>3. PICK x \in Messages : x = [from |-> a, kind |-> out[a]]
    BY <2>2 DEF Messages
  <2>4. /\ stdin' \in Seq(Messages) /\ Len(stdin') = Len(stdin) + 1 /\ Len(stdin) \in Nat
    BY <2>2, <2>3, AppendAt DEF ProcessTypeOK, Messages
  <2>5. Len(stdin') <= StdinCap
    BY <2>2, <2>4, ProcessAssumption
  <2> QED
    BY <2>1, <2>4, <2>5 DEF ProcessTypeOK, Write, Unlock, Messages
<1>3. CASE \E a \in Actors : WriteFails(a)
  BY <1>3, ProcessAssumption, Names DEF ProcessTypeOK, WriteFails, Unlock, OwnerPc
<1>4. CASE Initialized
  BY <1>4, ProcessAssumption, Names DEF ProcessTypeOK, Initialized, Go, Post, Returned,
       OwnerPc
<1>5. CASE AbortInitialize
  <2>1. Kill
    BY <1>5 DEF AbortInitialize
  <2> QED
    BY <1>5, <2>1, KillTypes, Names DEF ProcessTypeOK, AbortInitialize, Go, OwnerPc
<1>6. CASE InitializedSent
  <2>1. Kill \/ UNCHANGED serverVars
    BY <1>6 DEF InitializedSent
  <2>2. /\ process' \in {"up", "dead", "reaped"} /\ asked' \in SUBSET Actors
        /\ stdin' \in Seq([from : Actors, kind : {"request", "message"}])
        /\ Len(stdin') <= StdinCap /\ noise' \in 0..MaxNoise
    BY <2>1, KillTypes DEF ProcessTypeOK, serverVars
  <2> QED
    BY <1>6, <2>2 DEF ProcessTypeOK, InitializedSent, Go, OwnerPc
<1>7. CASE Aborted
  BY <1>7, ProcessAssumption, Names DEF ProcessTypeOK, Aborted, Go, OwnerPc
<1>8. CASE Preload
  BY <1>8, ProcessAssumption, Names DEF ProcessTypeOK, Preload, Post, OwnerPc
<1>9. CASE Preloaded
  BY <1>9, ProcessAssumption, Names DEF ProcessTypeOK, Preloaded, Go, OwnerPc
<1>10. CASE Settled
  BY <1>10, ProcessAssumption, Names DEF ProcessTypeOK, Settled, Go, OwnerPc
<1>11. CASE StartShutdown
  BY <1>11, ProcessAssumption, Names DEF ProcessTypeOK, StartShutdown, Go, OwnerPc
<1>12. CASE CloseDocument
  BY <1>12, ProcessAssumption, Names DEF ProcessTypeOK, CloseDocument, Post, OwnerPc
<1>13. CASE RequestShutdown
  BY <1>13, ProcessAssumption, Names DEF ProcessTypeOK, RequestShutdown, Go, Post, OwnerPc
<1>14. CASE NotifyExit
  BY <1>14, ProcessAssumption, Names DEF ProcessTypeOK, NotifyExit, Go, Post, OwnerPc
<1>15. CASE StartWait
  BY <1>15, ProcessAssumption, Names DEF ProcessTypeOK, StartWait, Go, OwnerPc
<1>16. CASE KillAfterTimeout
  <2>1. Kill
    BY <1>16 DEF KillAfterTimeout
  <2> QED
    BY <1>16, <2>1, KillTypes, Names DEF ProcessTypeOK, KillAfterTimeout, Go, OwnerPc
<1>17. CASE WaitReturns
  BY <1>17, ProcessAssumption, Names DEF ProcessTypeOK, WaitReturns, Go, OwnerPc
<1>18. CASE Drained
  BY <1>18, ProcessAssumption, Names DEF ProcessTypeOK, Drained, Go, OwnerPc
<1>19. CASE Reap
  BY <1>19, ProcessAssumption, Names DEF ProcessTypeOK, Reap, WaitCalled, OwnerPc
<1>20. CASE \E u \in Users : StartUse(u)
  BY <1>20, ProcessAssumption, Names DEF ProcessTypeOK, StartUse, Post, OwnerPc
<1>21. CASE \E u \in Users : UseReturns(u)
  BY <1>21, ProcessAssumption, Names DEF ProcessTypeOK, UseReturns, Return, OwnerPc
<1>22. CASE \E u \in Users : CallCancelled(u)
  BY <1>22, ProcessAssumption, Names DEF ProcessTypeOK, CallCancelled, Return, OwnerPc
<1>23. CASE ReadResponse
  BY <1>23, ProcessAssumption, Names DEF ProcessTypeOK, ReadResponse, OwnerPc
<1>24. CASE ReadCreate
  BY <1>24, ProcessAssumption, Names DEF ProcessTypeOK, ReadCreate, Post, OwnerPc
<1>25. CASE ReadEnds
  BY <1>25, ProcessAssumption, Names DEF ProcessTypeOK, ReadEnds, OwnerPc
<1>26. CASE ScanEnds
  BY <1>26, ProcessAssumption, Names DEF ProcessTypeOK, ScanEnds, OwnerPc
<1>27. CASE LongLine
  <2>1. noise' \in 0..MaxNoise
    BY <1>27, ProcessAssumption DEF ProcessTypeOK, LongLine
  <2> QED
    BY <1>27, <2>1 DEF ProcessTypeOK, LongLine
<1>28. CASE Take
  <2>1. stdin # <<>> /\ stdin' = Tail(stdin) /\ stdin \in Seq(Messages) /\ Len(stdin) <= StdinCap
    BY <1>28 DEF ProcessTypeOK, Take, Messages
  <2>2. /\ stdin' \in Seq(Messages) /\ Head(stdin) \in Messages
        /\ Len(stdin') = Len(stdin) - 1 /\ Len(stdin) \in Nat
    BY <2>1, TailAt
  <2>3. Len(stdin') <= StdinCap
    BY <2>1, <2>2, ProcessAssumption
  <2>4. asked' \in SUBSET Actors
    BY <1>28, <2>2 DEF ProcessTypeOK, Take, Messages
  <2> QED
    BY <1>28, <2>2, <2>3, <2>4 DEF ProcessTypeOK, Take, Messages
<1>29. CASE \E a \in Actors : Respond(a)
  BY <1>29, ProcessAssumption, Names DEF ProcessTypeOK, Respond, WriteOut, OwnerPc
<1>30. CASE \E m \in {"create", "broken"} : Disturb(m)
  BY <1>30, ProcessAssumption, Names DEF ProcessTypeOK, Disturb, WriteOut, OwnerPc
<1>31. CASE Exit
  BY <1>31, ProcessAssumption, Names DEF ProcessTypeOK, Exit, Die, OwnerPc
<1>32. CASE UNCHANGED vars
  BY <1>32 DEF ProcessTypeOK, vars
<1> QED
  BY <1>1, <1>2, <1>3, <1>4, <1>5, <1>6, <1>7, <1>8, <1>9, <1>10, <1>11, <1>12, <1>13, <1>14,
       <1>15, <1>16, <1>17, <1>18, <1>19, <1>20, <1>21, <1>22, <1>23, <1>24, <1>25, <1>26,
       <1>27, <1>28, <1>29, <1>30, <1>31, <1>32, NextSteps DEF Steps

-----------------------------------------------------------------------------
LEMMA EndsStep == ASSUME ProcessTypeOK, Ends, [Next]_vars PROVE Ends'
<1> USE DEF Ends, ownerVars, sendVars, serverVars, readVars
<1>1. CASE \E a \in Actors : Lock(a)
  BY <1>1 DEF Lock, Sending
<1>2. CASE \E a \in Actors : Write(a)
  BY <1>2 DEF Write, Unlock
<1>3. CASE \E a \in Actors : WriteFails(a)
  BY <1>3 DEF WriteFails, Unlock
<1>4. CASE Initialized
  BY <1>4 DEF Initialized, Go, Post, Returned
<1>5. CASE AbortInitialize
  BY <1>5 DEF AbortInitialize, Go, Kill, Die
<1>6. CASE InitializedSent
  BY <1>6 DEF InitializedSent, Go, Kill, Die
<1>7. CASE Aborted
  BY <1>7 DEF Aborted, Go
<1>8. CASE Preload
  BY <1>8 DEF Preload, Post
<1>9. CASE Preloaded
  BY <1>9 DEF Preloaded, Go
<1>10. CASE Settled
  BY <1>10 DEF Settled, Go
<1>11. CASE StartShutdown
  BY <1>11 DEF StartShutdown, Go
<1>12. CASE CloseDocument
  BY <1>12 DEF CloseDocument, Post
<1>13. CASE RequestShutdown
  BY <1>13 DEF RequestShutdown, Go, Post
<1>14. CASE NotifyExit
  BY <1>14 DEF NotifyExit, Go, Post
<1>15. CASE StartWait
  BY <1>15 DEF StartWait, Go
<1>16. CASE KillAfterTimeout
  BY <1>16 DEF KillAfterTimeout, Go, Kill, Die
<1>17. CASE WaitReturns
  BY <1>17 DEF WaitReturns, Go
<1>18. CASE Drained
  BY <1>18 DEF Drained, Go
<1>19. CASE Reap
  BY <1>19 DEF Reap, WaitCalled
<1>20. CASE \E u \in Users : StartUse(u)
  BY <1>20 DEF StartUse, Post
<1>21. CASE \E u \in Users : UseReturns(u)
  BY <1>21 DEF UseReturns, Return
<1>22. CASE \E u \in Users : CallCancelled(u)
  BY <1>22 DEF CallCancelled, Return
<1>23. CASE ReadResponse
  BY <1>23 DEF ReadResponse
<1>24. CASE ReadCreate
  BY <1>24 DEF ReadCreate, Post
<1>25. CASE ReadEnds
  BY <1>25 DEF ReadEnds
<1>26. CASE ScanEnds
  BY <1>26 DEF ScanEnds
<1>27. CASE LongLine
  BY <1>27 DEF LongLine
<1>28. CASE Take
  BY <1>28 DEF Take
<1>29. CASE \E a \in Actors : Respond(a)
  BY <1>29 DEF Respond, WriteOut
<1>30. CASE \E m \in {"create", "broken"} : Disturb(m)
  BY <1>30 DEF Disturb, WriteOut
<1>31. CASE Exit
  BY <1>31 DEF Exit, Die
<1>32. CASE UNCHANGED vars
  BY <1>32 DEF vars
<1> QED
  BY <1>1, <1>2, <1>3, <1>4, <1>5, <1>6, <1>7, <1>8, <1>9, <1>10, <1>11, <1>12, <1>13, <1>14,
       <1>15, <1>16, <1>17, <1>18, <1>19, <1>20, <1>21, <1>22, <1>23, <1>24, <1>25, <1>26,
       <1>27, <1>28, <1>29, <1>30, <1>31, <1>32, NextSteps DEF Steps

LEMMA LockStep == ASSUME ProcessTypeOK, LockHeld, [Next]_vars PROVE LockHeld'
<1> USE Names DEF ProcessTypeOK, LockHeld, Sending, ownerVars, sendVars, serverVars, readVars
<1>1. CASE \E a \in Actors : Lock(a)
  BY <1>1 DEF Lock
<1>2. CASE \E a \in Actors : Write(a)
  BY <1>2 DEF Write, Unlock
<1>3. CASE \E a \in Actors : WriteFails(a)
  BY <1>3 DEF WriteFails, Unlock
<1>4. CASE Initialized
  BY <1>4 DEF Initialized, Go, Post, Returned
<1>5. CASE AbortInitialize
  BY <1>5 DEF AbortInitialize, Go, Kill, Die
<1>6. CASE InitializedSent
  BY <1>6 DEF InitializedSent, Go, Kill, Die
<1>7. CASE Aborted
  BY <1>7 DEF Aborted, Go
<1>8. CASE Preload
  BY <1>8 DEF Preload, Post
<1>9. CASE Preloaded
  BY <1>9 DEF Preloaded, Go
<1>10. CASE Settled
  BY <1>10 DEF Settled, Go
<1>11. CASE StartShutdown
  BY <1>11 DEF StartShutdown, Go
<1>12. CASE CloseDocument
  BY <1>12 DEF CloseDocument, Post
<1>13. CASE RequestShutdown
  BY <1>13 DEF RequestShutdown, Go, Post
<1>14. CASE NotifyExit
  BY <1>14 DEF NotifyExit, Go, Post
<1>15. CASE StartWait
  BY <1>15 DEF StartWait, Go
<1>16. CASE KillAfterTimeout
  BY <1>16 DEF KillAfterTimeout, Go, Kill, Die
<1>17. CASE WaitReturns
  BY <1>17 DEF WaitReturns, Go
<1>18. CASE Drained
  BY <1>18 DEF Drained, Go
<1>19. CASE Reap
  BY <1>19 DEF Reap, WaitCalled
<1>20. CASE \E u \in Users : StartUse(u)
  BY <1>20 DEF StartUse, Post
<1>21. CASE \E u \in Users : UseReturns(u)
  BY <1>21 DEF UseReturns, Return
<1>22. CASE \E u \in Users : CallCancelled(u)
  BY <1>22 DEF CallCancelled, Return
<1>23. CASE ReadResponse
  BY <1>23 DEF ReadResponse
<1>24. CASE ReadCreate
  BY <1>24 DEF ReadCreate, Post
<1>25. CASE ReadEnds
  BY <1>25 DEF ReadEnds
<1>26. CASE ScanEnds
  BY <1>26 DEF ScanEnds
<1>27. CASE LongLine
  BY <1>27 DEF LongLine
<1>28. CASE Take
  BY <1>28 DEF Take
<1>29. CASE \E a \in Actors : Respond(a)
  BY <1>29 DEF Respond, WriteOut
<1>30. CASE \E m \in {"create", "broken"} : Disturb(m)
  BY <1>30 DEF Disturb, WriteOut
<1>31. CASE Exit
  BY <1>31 DEF Exit, Die
<1>32. CASE UNCHANGED vars
  BY <1>32 DEF vars
<1> QED
  BY <1>1, <1>2, <1>3, <1>4, <1>5, <1>6, <1>7, <1>8, <1>9, <1>10, <1>11, <1>12, <1>13, <1>14,
       <1>15, <1>16, <1>17, <1>18, <1>19, <1>20, <1>21, <1>22, <1>23, <1>24, <1>25, <1>26,
       <1>27, <1>28, <1>29, <1>30, <1>31, <1>32, NextSteps DEF Steps

LEMMA UnusedStep == ASSUME ProcessTypeOK, Unused, [Next]_vars PROVE Unused'
<1> USE Names DEF ProcessTypeOK, Unused, Returned, ownerVars, sendVars, serverVars, readVars
<1>1. CASE \E a \in Actors : Lock(a)
  BY <1>1 DEF Lock, Sending
<1>2. CASE \E a \in Actors : Write(a)
  BY <1>2 DEF Write, Unlock
<1>3. CASE \E a \in Actors : WriteFails(a)
  BY <1>3 DEF WriteFails, Unlock
<1>4. CASE Initialized
  BY <1>4 DEF Initialized, Go, Post
<1>5. CASE AbortInitialize
  BY <1>5 DEF AbortInitialize, Go, Kill, Die
<1>6. CASE InitializedSent
  BY <1>6 DEF InitializedSent, Go, Kill, Die
<1>7. CASE Aborted
  BY <1>7 DEF Aborted, Go
<1>8. CASE Preload
  BY <1>8 DEF Preload, Post
<1>9. CASE Preloaded
  BY <1>9 DEF Preloaded, Go
<1>10. CASE Settled
  BY <1>10 DEF Settled, Go
<1>11. CASE StartShutdown
  BY <1>11 DEF StartShutdown, Go
<1>12. CASE CloseDocument
  BY <1>12 DEF CloseDocument, Post
<1>13. CASE RequestShutdown
  BY <1>13 DEF RequestShutdown, Go, Post
<1>14. CASE NotifyExit
  BY <1>14 DEF NotifyExit, Go, Post
<1>15. CASE StartWait
  BY <1>15 DEF StartWait, Go
<1>16. CASE KillAfterTimeout
  BY <1>16 DEF KillAfterTimeout, Go, Kill, Die
<1>17. CASE WaitReturns
  BY <1>17 DEF WaitReturns, Go
<1>18. CASE Drained
  BY <1>18 DEF Drained, Go
<1>19. CASE Reap
  BY <1>19 DEF Reap, WaitCalled
<1>20. CASE \E u \in Users : StartUse(u)
  BY <1>20 DEF StartUse, Post
<1>21. CASE \E u \in Users : UseReturns(u)
  BY <1>21 DEF UseReturns, Return
<1>22. CASE \E u \in Users : CallCancelled(u)
  BY <1>22 DEF CallCancelled, Return
<1>23. CASE ReadResponse
  BY <1>23 DEF ReadResponse
<1>24. CASE ReadCreate
  BY <1>24 DEF ReadCreate, Post
<1>25. CASE ReadEnds
  BY <1>25 DEF ReadEnds
<1>26. CASE ScanEnds
  BY <1>26 DEF ScanEnds
<1>27. CASE LongLine
  BY <1>27 DEF LongLine
<1>28. CASE Take
  BY <1>28 DEF Take
<1>29. CASE \E a \in Actors : Respond(a)
  BY <1>29 DEF Respond, WriteOut
<1>30. CASE \E m \in {"create", "broken"} : Disturb(m)
  BY <1>30 DEF Disturb, WriteOut
<1>31. CASE Exit
  BY <1>31 DEF Exit, Die
<1>32. CASE UNCHANGED vars
  BY <1>32 DEF vars
<1> QED
  BY <1>1, <1>2, <1>3, <1>4, <1>5, <1>6, <1>7, <1>8, <1>9, <1>10, <1>11, <1>12, <1>13, <1>14,
       <1>15, <1>16, <1>17, <1>18, <1>19, <1>20, <1>21, <1>22, <1>23, <1>24, <1>25, <1>26,
       <1>27, <1>28, <1>29, <1>30, <1>31, <1>32, NextSteps DEF Steps

-----------------------------------------------------------------------------
\* Steps that start no call and answer none: they leave calls where they are, or give them
\* up, with the process, with readLoop, or with the caller.
Quiet ==
  /\ \A a \in Actors : out'[a] = "request" => out[a] = "request"
  /\ stdin' = stdin \/ stdin' = <<>>
  /\ asked' \subseteq asked /\ replied' \subseteq replied /\ stdout' = stdout
  /\ \A c \in Callers : user'[c] \in {"absent", "idle"} => user[c] \in {"absent", "idle"}
  /\ owner' \in {"initialized", "preload", "settle", "open", "close"} =>
       \/ owner \in {"initialized", "preload", "settle", "open", "close"}
       \/ Nowhere("owner", out', stdin', asked', stdout', replied')
  /\ process' = "up" /\ ~done' => process = "up" /\ ~done /\ stdin' = stdin /\ asked' = asked
  /\ \A c \in Callers :
       user'[c] = "busy" => user[c] = "busy" /\ (c \in replied => c \in replied')
                            /\ (out'[c] # out[c] => out'[c] = "failed")
  /\ owner' = "initialize" =>
       owner = "initialize" /\ ("owner" \in replied => "owner" \in replied')
       /\ (out'["owner"] # out["owner"] => out'["owner"] = "failed")

LEMMA QuietStep ==
  ASSUME OneRequestEach, NoLostCall, Quiet
  PROVE  OneRequestEach' /\ NoLostCall'
<1>1. ASSUME NEW a \in Actors
      PROVE  /\ OnePlace(a, out, stdin, asked, stdout, replied) =>
                  OnePlace(a, out', stdin', asked', stdout', replied')
             /\ Nowhere(a, out, stdin, asked, stdout, replied) =>
                  Nowhere(a, out', stdin', asked', stdout', replied')
  <2>1. /\ out'[a] = "request" => out[a] = "request"
        /\ stdin' = stdin \/ stdin' = <<>>
        /\ asked' \subseteq asked /\ replied' \subseteq replied /\ stdout' = stdout
    BY DEF Quiet
  <2> QED
    BY <2>1, Abandoned
<1>2. OneRequestEach'
  <2>1. \A a \in Actors : OnePlace(a, out', stdin', asked', stdout', replied')
    BY <1>1 DEF OneRequestEach
  <2>2. \A c \in Callers : user'[c] \in {"absent", "idle"} =>
          Nowhere(c, out', stdin', asked', stdout', replied')
    BY <1>1, Names DEF OneRequestEach, Quiet
  <2>3. owner' \in {"initialized", "preload", "settle", "open", "close"} =>
          Nowhere("owner", out', stdin', asked', stdout', replied')
    BY <1>1, Names DEF OneRequestEach, Quiet
  <2> QED
    BY <2>1, <2>2, <2>3 DEF OneRequestEach
<1>3. NoLostCall'
  <2> SUFFICES ASSUME process' = "up", ~done'
               PROVE  /\ \A c \in Callers :
                           user'[c] = "busy" /\ out'[c] # "failed" =>
                             ~Nowhere(c, out', stdin', asked', stdout', replied')
                      /\ owner' = "initialize" /\ out'["owner"] # "failed" =>
                           ~Nowhere("owner", out', stdin', asked', stdout', replied')
    BY DEF NoLostCall
  <2>1. process = "up" /\ ~done /\ stdin' = stdin /\ asked' = asked /\ stdout' = stdout
    BY DEF Quiet
  <2>2. ASSUME NEW a \in Actors, out'[a] = out[a], a \in replied => a \in replied',
               ~Nowhere(a, out, stdin, asked, stdout, replied)
        PROVE  ~Nowhere(a, out', stdin', asked', stdout', replied')
    BY <2>1, <2>2 DEF Nowhere
  <2>3. ASSUME NEW c \in Callers, user'[c] = "busy", out'[c] # "failed"
        PROVE  ~Nowhere(c, out', stdin', asked', stdout', replied')
    <3>1. user[c] = "busy" /\ out'[c] = out[c] /\ (c \in replied => c \in replied')
      BY <2>3 DEF Quiet
    <3> QED
      BY <2>1, <2>2, <2>3, <3>1, Names DEF NoLostCall
  <2>4. ASSUME owner' = "initialize", out'["owner"] # "failed"
        PROVE  ~Nowhere("owner", out', stdin', asked', stdout', replied')
    <3>1. /\ owner = "initialize" /\ out'["owner"] = out["owner"]
          /\ "owner" \in replied => "owner" \in replied'
      BY <2>4 DEF Quiet
    <3> QED
      BY <2>1, <2>2, <2>4, <3>1, Names DEF NoLostCall
  <2> QED
    BY <2>3, <2>4
<1> QED
  BY <1>2, <1>3

\* Steps that pass a call on.
LEMMA MoveStep ==
  ASSUME OneRequestEach, NoLostCall, UNCHANGED <<owner, user, process, done>>,
         \A a \in Actors :
           /\ OnePlace(a, out, stdin, asked, stdout, replied) =>
                OnePlace(a, out', stdin', asked', stdout', replied')
           /\ Nowhere(a, out, stdin, asked, stdout, replied) =>
                Nowhere(a, out', stdin', asked', stdout', replied')
           /\ a # "reader" /\ out[a] = "failed" => out'[a] = "failed",
         \A a \in Actors :
           \/ a \in Callers /\ user[a] = "busy"
           \/ a = "owner" /\ owner = "initialize"
           => (Nowhere(a, out', stdin', asked', stdout', replied') =>
                 Nowhere(a, out, stdin, asked, stdout, replied))
  PROVE  OneRequestEach' /\ NoLostCall'
<1>1. OneRequestEach'
  <2>1. \A a \in Actors : OnePlace(a, out', stdin', asked', stdout', replied')
    BY DEF OneRequestEach
  <2>2. \A c \in Callers : user'[c] \in {"absent", "idle"} =>
          Nowhere(c, out', stdin', asked', stdout', replied')
    BY Names DEF OneRequestEach
  <2>3. owner' \in {"initialized", "preload", "settle", "open", "close"} =>
          Nowhere("owner", out', stdin', asked', stdout', replied')
    BY Names DEF OneRequestEach
  <2> QED
    BY <2>1, <2>2, <2>3 DEF OneRequestEach
<1>2. NoLostCall'
  BY Names DEF NoLostCall
<1> QED
  BY <1>1, <1>2

LEMMA RequestsStep ==
  ASSUME ProcessTypeOK, Unused, LockHeld, OneRequestEach, NoLostCall, [Next]_vars
  PROVE  OneRequestEach' /\ NoLostCall'
<1> USE DEF ownerVars, sendVars, serverVars, readVars
<1>1. CASE \E a \in Actors : Lock(a)
  <2>1. Quiet
    BY <1>1, Names DEF Quiet, ProcessTypeOK, Lock, Sending
  <2> QED
    BY <2>1, QuietStep
<1>2. CASE \E a \in Actors : Write(a)
  <2>1. PICK b \in Actors : Write(b)
    BY <1>2
  <2>2. /\ out[b] \in {"request", "message"} /\ out' = [out EXCEPT ![b] = "none"]
        /\ stdin' = Append(stdin, [from |-> b, kind |-> out[b]])
        /\ UNCHANGED <<owner, user, process, done, asked, stdout, replied>>
    BY <2>1, Names DEF LockHeld, Sending, Write, Unlock
  <2>3. \A a \in Actors :
          /\ OnePlace(a, out, stdin, asked, stdout, replied) =>
               OnePlace(a, out', stdin', asked', stdout', replied')
          /\ Nowhere(a, out, stdin, asked, stdout, replied) <=>
               Nowhere(a, out', stdin', asked', stdout', replied')
    <3>1. stdin \in Seq(Messages)
      BY Types
    <3>2. out'[b] = "none" /\ \A c \in Actors : c # b => out'[c] = out[c]
      BY <2>2 DEF ProcessTypeOK
    <3>3. stdin' = Append(stdin, Message(b, out[b]))
      BY <2>2 DEF Message
    <3>4. WrittenBy(b, out, stdin, out', stdin')
      BY <2>2, <3>2, <3>3 DEF WrittenBy
    <3> QED
      BY <2>2, <3>1, <3>4, Written
  <2>4. \A a \in Actors : out[a] = "failed" => out'[a] = "failed"
    BY <2>2 DEF ProcessTypeOK
  <2> QED
    BY <2>2, <2>3, <2>4, MoveStep
<1>3. CASE \E a \in Actors : WriteFails(a)
  <2>1. Quiet
    BY <1>3, Names DEF Quiet, ProcessTypeOK, WriteFails, Unlock
  <2> QED
    BY <2>1, QuietStep
<1>4. CASE Initialized
  <2>1. /\ "owner" \in replied /\ replied' = replied \ {"owner"}
        /\ out' = [out EXCEPT !["owner"] = "message"] /\ UNCHANGED <<stdin, asked, stdout>>
    BY <1>4 DEF Initialized, Post
  <2>2. OnePlace("owner", out, stdin, asked, stdout, replied)
    BY Names DEF OneRequestEach
  <2>3. out'["owner"] # "request"
    BY <2>1, Names DEF ProcessTypeOK
  <2>4. Nowhere("owner", out', stdin', asked', stdout', replied')
    BY <2>1, <2>2, <2>3 DEF OnePlace, Nowhere
  <2>5. Quiet
    BY <1>4, <2>4, Names DEF Quiet, ProcessTypeOK, Initialized, Go, Post, Returned
  <2> QED
    BY <2>5, QuietStep
<1>5. CASE AbortInitialize
  <2>1. Quiet
    BY <1>5, Names DEF Quiet, ProcessTypeOK, AbortInitialize, Go, Kill, Die
  <2> QED
    BY <2>1, QuietStep
<1>6. CASE InitializedSent
  <2>1. Quiet
    BY <1>6, Names DEF Quiet, ProcessTypeOK, InitializedSent, Returned, Go, Kill, Die
  <2> QED
    BY <2>1, QuietStep
<1>7. CASE Aborted
  <2>1. Quiet
    BY <1>7, Names DEF Quiet, ProcessTypeOK, Aborted, Go
  <2> QED
    BY <2>1, QuietStep
<1>8. CASE Preload
  <2>1. Quiet
    BY <1>8, Names DEF Quiet, ProcessTypeOK, Preload, Returned, Post
  <2> QED
    BY <2>1, QuietStep
<1>9. CASE Preloaded
  <2>1. Quiet
    BY <1>9, Names DEF Quiet, ProcessTypeOK, Preloaded, Returned, Go
  <2> QED
    BY <2>1, QuietStep
<1>10. CASE Settled
  <2>1. Quiet
    BY <1>10, Names DEF Quiet, ProcessTypeOK, Unused, Settled, Go
  <2> QED
    BY <2>1, QuietStep
<1>11. CASE StartShutdown
  <2>1. Quiet
    BY <1>11, Names DEF Quiet, ProcessTypeOK, StartShutdown, Returned, Go
  <2> QED
    BY <2>1, QuietStep
<1>12. CASE CloseDocument
  <2>1. Quiet
    BY <1>12, Names DEF Quiet, ProcessTypeOK, CloseDocument, Returned, Post
  <2> QED
    BY <2>1, QuietStep
<1>13. CASE RequestShutdown
  <2>1. /\ owner = "close" /\ owner' = "shutdown"
        /\ out' = [out EXCEPT !["owner"] = "request"]
        /\ UNCHANGED <<user, process, done, stdin, asked, stdout, replied>>
    BY <1>13 DEF RequestShutdown, Returned, Go, Post
  <2>2. \A a \in Actors : a # "owner" => out'[a] = out[a]
    BY <2>1 DEF ProcessTypeOK
  <2>3. Nowhere("owner", out, stdin, asked, stdout, replied)
    BY <2>1 DEF OneRequestEach
  <2>4. \A a \in Actors : OnePlace(a, out', stdin', asked', stdout', replied')
    <3>1. OnePlace("owner", out', stdin', asked', stdout', replied')
      BY <2>1, <2>3, Asked
    <3>2. \A a \in Actors : a # "owner" => OnePlace(a, out', stdin', asked', stdout', replied')
      BY <2>1, <2>2 DEF OneRequestEach, OnePlace
    <3> QED
      BY <3>1, <3>2
  <2>5. \A a \in Actors : a # "owner" =>
          (Nowhere(a, out', stdin', asked', stdout', replied') <=>
             Nowhere(a, out, stdin, asked, stdout, replied))
    BY <2>1, <2>2 DEF Nowhere
  <2>6. OneRequestEach'
    BY <2>1, <2>4, <2>5, Names DEF OneRequestEach
  <2>7. NoLostCall'
    BY <2>1, <2>2, <2>5, Names DEF NoLostCall
  <2> QED
    BY <2>6, <2>7
<1>14. CASE NotifyExit
  <2>1. Quiet
    BY <1>14, Names DEF Quiet, ProcessTypeOK, NotifyExit, Go, Post
  <2> QED
    BY <2>1, QuietStep
<1>15. CASE StartWait
  <2>1. Quiet
    BY <1>15, Names DEF Quiet, ProcessTypeOK, StartWait, Go
  <2> QED
    BY <2>1, QuietStep
<1>16. CASE KillAfterTimeout
  <2>1. Quiet
    BY <1>16, Names DEF Quiet, ProcessTypeOK, KillAfterTimeout, Go, Kill, Die
  <2> QED
    BY <2>1, QuietStep
<1>17. CASE WaitReturns
  <2>1. Quiet
    BY <1>17, Names DEF Quiet, ProcessTypeOK, WaitReturns, Go
  <2> QED
    BY <2>1, QuietStep
<1>18. CASE Drained
  <2>1. Quiet
    BY <1>18, Names DEF Quiet, ProcessTypeOK, Drained, Go
  <2> QED
    BY <2>1, QuietStep
<1>19. CASE Reap
  <2>1. Quiet
    BY <1>19, Names DEF Quiet, ProcessTypeOK, Reap, WaitCalled
  <2> QED
    BY <2>1, QuietStep
<1>20. CASE \E u \in Users : StartUse(u)
  <2>1. PICK u \in Users : StartUse(u)
    BY <1>20
  <2>2. CASE u \notin Callers
    <3>1. Quiet
      BY <2>1, <2>2, Names DEF Quiet, ProcessTypeOK, StartUse, Post
    <3> QED
      BY <3>1, QuietStep
  <2>3. CASE u \in Callers
    <3>1. /\ user[u] = "idle" /\ user' = [user EXCEPT ![u] = "busy"]
          /\ out' = [out EXCEPT ![u] = "request"]
          /\ UNCHANGED <<owner, process, done, stdin, asked, stdout, replied>>
      BY <2>1, <2>3 DEF StartUse, Post
    <3>2. \A a \in Actors : a # u => out'[a] = out[a]
      BY <3>1 DEF ProcessTypeOK
    <3>3. /\ \A c \in Callers : c # u => user'[c] = user[c]
          /\ user'[u] = "busy" /\ out'[u] = "request"
      BY <2>3, <3>1, Names DEF ProcessTypeOK
    <3>4. Nowhere(u, out, stdin, asked, stdout, replied)
      BY <2>3, <3>1 DEF OneRequestEach
    <3>5. \A a \in Actors : OnePlace(a, out', stdin', asked', stdout', replied')
      <4>1. OnePlace(u, out', stdin', asked', stdout', replied')
        BY <3>1, <3>4, Asked
      <4>2. \A a \in Actors : a # u => OnePlace(a, out', stdin', asked', stdout', replied')
        BY <3>1, <3>2 DEF OneRequestEach, OnePlace
      <4> QED
        BY <4>1, <4>2
    <3>6. \A a \in Actors : a # u =>
            (Nowhere(a, out', stdin', asked', stdout', replied') <=>
               Nowhere(a, out, stdin, asked, stdout, replied))
      BY <3>1, <3>2 DEF Nowhere
    <3>7. ~Nowhere(u, out', stdin', asked', stdout', replied')
      BY <3>3 DEF Nowhere
    <3>8. OneRequestEach'
      BY <2>3, <3>1, <3>3, <3>5, <3>6, Names DEF OneRequestEach
    <3>9. NoLostCall'
      BY <2>3, <3>1, <3>2, <3>3, <3>6, <3>7, Names DEF NoLostCall
    <3> QED
      BY <3>8, <3>9
  <2> QED
    BY <2>2, <2>3
<1>21. CASE \E u \in Users : UseReturns(u)
  <2>1. Quiet
    BY <1>21, Names DEF Quiet, ProcessTypeOK, UseReturns, Return
  <2> QED
    BY <2>1, QuietStep
<1>22. CASE \E u \in Users : CallCancelled(u)
  <2>1. Quiet
    BY <1>22, Names DEF Quiet, ProcessTypeOK, CallCancelled, Return
  <2> QED
    BY <2>1, QuietStep
<1>23. CASE ReadResponse
  <2>1. /\ stdout # <<>> /\ stdout' = Tail(stdout) /\ Head(stdout) \in Actors
        /\ UNCHANGED <<owner, user, process, done, out, stdin, asked>>
        /\ replied' = replied \cup {Head(stdout)} \/ replied' = replied
        /\ Pending(Head(stdout)) => Head(stdout) \in replied'
    BY <1>23 DEF ReadResponse
  <2>2. \A a \in Actors :
          /\ OnePlace(a, out, stdin, asked, stdout, replied) =>
               OnePlace(a, out', stdin', asked', stdout', replied')
          /\ Nowhere(a, out, stdin, asked, stdout, replied) =>
               Nowhere(a, out', stdin', asked', stdout', replied')
          /\ Nowhere(a, out', stdin', asked', stdout', replied') /\ (Head(stdout) = a => a \in replied') =>
               Nowhere(a, out, stdin, asked, stdout, replied)
    BY <2>1, Types, Delivered
  <2>3. \A a \in Actors :
          \/ a \in Callers /\ user[a] = "busy"
          \/ a = "owner" /\ owner = "initialize"
          => (Head(stdout) = a => a \in replied')
    BY <2>1, Names DEF Pending
  <2> QED
    BY <2>1, <2>2, <2>3, MoveStep
<1>24. CASE ReadCreate
  <2>1. /\ stdout # <<>> /\ stdout' = Tail(stdout) /\ Head(stdout) \notin Actors
        /\ out' = [out EXCEPT !["reader"] = "message"]
        /\ UNCHANGED <<owner, user, process, done, stdin, asked, replied>>
    BY <1>24, Names DEF ReadCreate, Post
  <2>2. \A a \in Actors :
          /\ OnePlace(a, out, stdin, asked, stdout, replied) =>
               OnePlace(a, out, stdin, asked, stdout', replied)
          /\ Nowhere(a, out, stdin, asked, stdout, replied) <=>
               Nowhere(a, out, stdin, asked, stdout', replied)
    <3>1. stdout \in Seq(Frames)
      BY Types
    <3>2. \A a \in Actors : Head(stdout) # a
      BY <2>1
    <3> QED
      BY <2>1, <3>1, <3>2, Delivered
  <2>3. /\ \A a \in Actors : a # "reader" => out'[a] = out[a]
        /\ out'["reader"] = "message"
    BY <2>1, Names DEF ProcessTypeOK
  <2>4. \A a \in Actors :
          /\ OnePlace(a, out, stdin, asked, stdout', replied) =>
               OnePlace(a, out', stdin', asked', stdout', replied')
          /\ Nowhere(a, out, stdin, asked, stdout', replied) =>
               Nowhere(a, out', stdin', asked', stdout', replied')
    <3>1. \A a \in Actors : out'[a] = "request" => out[a] = "request"
      BY <2>3
    <3> QED
      BY <2>1, <3>1 DEF OnePlace, Nowhere
  <2>5. \A a \in Actors : a # "reader" =>
          (Nowhere(a, out', stdin', asked', stdout', replied') =>
             Nowhere(a, out, stdin, asked, stdout', replied))
    BY <2>1, <2>3 DEF Nowhere
  <2> QED
    BY <2>1, <2>2, <2>3, <2>4, <2>5, MoveStep, Names
<1>25. CASE ReadEnds
  <2>1. Quiet
    BY <1>25, Names DEF Quiet, ProcessTypeOK, ReadEnds
  <2> QED
    BY <2>1, QuietStep
<1>26. CASE ScanEnds
  <2>1. Quiet
    BY <1>26, Names DEF Quiet, ProcessTypeOK, ScanEnds
  <2> QED
    BY <2>1, QuietStep
<1>27. CASE LongLine
  <2>1. Quiet
    BY <1>27, Names DEF Quiet, ProcessTypeOK, LongLine
  <2> QED
    BY <2>1, QuietStep
<1>28. CASE Take
  <2>1. /\ stdin # <<>> /\ stdin' = Tail(stdin)
        /\ asked' = IF Head(stdin).kind = "request" THEN asked \cup {Head(stdin).from} ELSE asked
        /\ UNCHANGED <<owner, user, process, done, out, stdout, replied>>
    BY <1>28 DEF Take
  <2>2. \A a \in Actors :
          /\ OnePlace(a, out, stdin, asked, stdout, replied) =>
               OnePlace(a, out', stdin', asked', stdout', replied')
          /\ Nowhere(a, out, stdin, asked, stdout, replied) <=>
               Nowhere(a, out', stdin', asked', stdout', replied')
    <3>1. stdin \in Seq(Messages)
      BY Types
    <3>2. asked' = TakenBy(stdin, asked)
      BY <2>1 DEF TakenBy
    <3> QED
      BY <2>1, <3>1, <3>2, Taken
  <2> QED
    BY <2>1, <2>2, MoveStep
<1>29. CASE \E a \in Actors : Respond(a)
  <2>1. PICK m \in Actors : Respond(m)
    BY <1>29
  <2>2. /\ m \in asked /\ asked' = asked \ {m} /\ stdout' = Append(stdout, m) /\ m \in Frames
        /\ UNCHANGED <<owner, user, process, done, out, stdin, replied>>
    BY <2>1 DEF Respond, WriteOut, Frames
  <2>3. \A a \in Actors :
          /\ OnePlace(a, out, stdin, asked, stdout, replied) =>
               OnePlace(a, out', stdin', asked', stdout', replied')
          /\ Nowhere(a, out, stdin, asked, stdout, replied) <=>
               Nowhere(a, out', stdin', asked', stdout', replied')
    BY <2>2, Types, Answered
  <2> QED
    BY <2>2, <2>3, MoveStep
<1>30. CASE \E m \in {"create", "broken"} : Disturb(m)
  <2>1. PICK m \in {"create", "broken"} : Disturb(m)
    BY <1>30
  <2>2. /\ m \notin Actors /\ asked' = asked \ {m} /\ stdout' = Append(stdout, m) /\ m \in Frames
        /\ UNCHANGED <<owner, user, process, done, out, stdin, replied>>
    BY <2>1, Names DEF ProcessTypeOK, Disturb, WriteOut, Frames
  <2>3. \A a \in Actors :
          /\ OnePlace(a, out, stdin, asked, stdout, replied) =>
               OnePlace(a, out', stdin', asked', stdout', replied')
          /\ Nowhere(a, out, stdin, asked, stdout, replied) <=>
               Nowhere(a, out', stdin', asked', stdout', replied')
    BY <2>2, Types, Answered
  <2> QED
    BY <2>2, <2>3, MoveStep
<1>31. CASE Exit
  <2>1. Quiet
    BY <1>31, Names DEF Quiet, ProcessTypeOK, Exit, Die
  <2> QED
    BY <2>1, QuietStep
<1>32. CASE UNCHANGED vars
  <2>1. Quiet
    BY <1>32 DEF Quiet, vars
  <2> QED
    BY <2>1, QuietStep
<1> QED
  BY <1>1, <1>2, <1>3, <1>4, <1>5, <1>6, <1>7, <1>8, <1>9, <1>10, <1>11, <1>12, <1>13, <1>14,
       <1>15, <1>16, <1>17, <1>18, <1>19, <1>20, <1>21, <1>22, <1>23, <1>24, <1>25, <1>26,
       <1>27, <1>28, <1>29, <1>30, <1>31, <1>32, NextSteps DEF Steps
-----------------------------------------------------------------------------
LEMMA ProcessInvariance == Spec => []ProcessInv
<1>1. ProcessInv /\ [Next]_vars => ProcessInv'
  BY TypeStep, EndsStep, UnusedStep, LockStep, RequestsStep DEF ProcessInv
<1> QED
  BY ProcessInit, <1>1, PTL DEF Spec

\* The handling of a server process is type correct, and its pipes are never overfull.
THEOREM TypeCorrect == Spec => []ProcessTypeOK
<1>1. ProcessInv => ProcessTypeOK
  BY DEF ProcessInv
<1> QED
  BY ProcessInvariance, <1>1, PTL

\* What NothingLeft says of the process holds as soon as the session is over, and in every
\* state from then on: it has been waited for, also after a start that failed.
THEOREM ReapedWhenOver == Spec => [](owner \in {"failed", "ended"} => process = "reaped")
<1>1. ProcessInv => (owner \in {"failed", "ended"} => process = "reaped")
  BY DEF ProcessInv, Ends
<1> QED
  BY ProcessInvariance, <1>1, PTL

\* No goroutine has two calls in the pipes or with the server, not even the one that sends
\* initialize and shutdown: a response readLoop delivers answers the call that waits.
THEOREM CallsDoNotOverlap == Spec => []OneRequestEach
<1>1. ProcessInv => OneRequestEach
  BY DEF ProcessInv
<1> QED
  BY ProcessInvariance, <1>1, PTL

-----------------------------------------------------------------------------
\* Deadlock. What this side can do without the server: the guards of send, of returning
\* from a call or a notification, of readLoop, of the owner and of cmd.Wait.
CanSend ==
  \E a \in Actors :
    /\ Sending(a)
    /\ mu = "free" \/ (mu = a /\ (process # "up" \/ Len(stdin) < StdinCap))

CanReturn ==
  \E u \in Users :
    /\ user[u] = "busy" /\ ~Sending(u)
    /\ u \in Callers => u \in replied \/ done \/ out[u] = "failed"

CanRead == ~done /\ ~Sending("reader") /\ (stdout # <<>> \/ process # "up")

CanGoOn ==
  \/ /\ owner = "initialize" /\ ~Sending("owner")
     /\ "owner" \in replied \/ done \/ out["owner"] = "failed"
  \/ owner \in {"initialized", "preload", "close", "shutdown", "exit"} /\ ~Sending("owner")
  \/ owner \in {"aborting", "killed"} /\ process # "up"
  \/ owner \in {"wait", "drain"}

CanRun == CanSend \/ CanReturn \/ CanRead \/ CanGoOn

InProgress ==
  \/ \E a \in Actors : Sending(a)
  \/ \E u \in Users : user[u] = "busy"
  \/ owner \notin {"settle", "open", "failed", "ended"}

\* The server is alive and has a message to read or a request to answer.
ServersTurn == process = "up" /\ (stdin # <<>> \/ asked # {})

\* When a mutex is held across a write, readLoop may wait for it, and calls for readLoop:
\* still the session never blocks itself. Whenever something is in progress, one of its
\* goroutines can run, or the next move is that of a live server.
THEOREM NeverBlocksItself == Spec => [](InProgress => CanRun \/ ServersTurn)
<1>1. ASSUME ProcessInv, InProgress, ~CanRun
      PROVE  ServersTurn
  <2>1. CASE mu # "free"
    <3>1. mu \in Actors /\ Sending(mu)
      BY <1>1, <2>1 DEF ProcessInv, ProcessTypeOK, LockHeld
    <3>2. process = "up" /\ ~(Len(stdin) < StdinCap)
      BY <1>1, <3>1 DEF CanRun, CanSend
    <3>3. stdin # <<>>
      <4>1. Len(<<>>) < StdinCap
        BY ProcessAssumption
      <4> QED
        BY <3>2, <4>1
    <3> QED
      BY <3>2, <3>3 DEF ServersTurn
  <2>2. CASE mu = "free"
    <3>1. \A a \in Actors : ~Sending(a)
      BY <1>1, <2>2 DEF CanRun, CanSend
    <3>2. done \/ (stdout = <<>> /\ process = "up")
      BY <1>1, <3>1, Names DEF CanRun, CanRead
    \* Who waits for a call waits for the server.
    <3>3. ASSUME NEW a \in Actors, process = "up", stdout = <<>>, a \notin replied,
                 ~Nowhere(a, out, stdin, asked, stdout, replied)
          PROVE  ServersTurn
      <4>1. out[a] # "request"
        BY <3>1 DEF Sending
      <4>2. \A i \in 1..Len(<<>>) : FALSE
        OBVIOUS
      <4>3. a \in asked \/ stdin # <<>>
        BY <3>3, <4>1, <4>2 DEF Nowhere
      <4> QED
        BY <3>3, <4>3 DEF ServersTurn
    <3>4. CASE \E u \in Users : user[u] = "busy"
      <4>1. PICK u \in Users : user[u] = "busy"
        BY <3>4
      <4>2. u \in Callers /\ u \notin replied /\ ~done /\ out[u] # "failed"
        BY <1>1, <3>1, <4>1, Names DEF CanRun, CanReturn
      <4>3. process = "up" /\ stdout = <<>>
        BY <3>2, <4>2
      <4>4. ~Nowhere(u, out, stdin, asked, stdout, replied)
        BY <1>1, <4>1, <4>2, <4>3 DEF ProcessInv, NoLostCall
      <4> QED
        BY <3>3, <4>1, <4>2, <4>3, <4>4, Names
    <3>5. CASE owner = "initialize"
      <4>1. "owner" \notin replied /\ ~done /\ out["owner"] # "failed"
        BY <1>1, <3>1, <3>5, Names DEF CanRun, CanGoOn
      <4>2. process = "up" /\ stdout = <<>>
        BY <3>2, <4>1
      <4>3. ~Nowhere("owner", out, stdin, asked, stdout, replied)
        BY <1>1, <3>5, <4>1, <4>2 DEF ProcessInv, NoLostCall
      <4> QED
        BY <3>3, <4>1, <4>2, <4>3, Names
    <3>6. CASE owner \notin {"initialize", "settle", "open", "failed", "ended"}
      <4>1. owner \in OwnerPc /\ (owner \in {"aborting", "killed"} => process # "up")
        BY <1>1 DEF ProcessInv, ProcessTypeOK, Ends
      <4>2. CanGoOn
        BY <3>1, <3>6, <4>1, Names DEF OwnerPc, CanGoOn
      <4> QED
        BY <1>1, <4>2 DEF CanRun
    <3> QED
      BY <1>1, <3>1, <3>4, <3>5, <3>6 DEF InProgress
  <2> QED
    BY <2>1, <2>2
<1>2. ProcessInv => (InProgress => CanRun \/ ServersTurn)
  BY <1>1
<1> QED
  BY ProcessInvariance, <1>2, PTL

-----------------------------------------------------------------------------
\* After the server's death. What is left to do: for the owner, for a user, for one
\* goroutine's message.
OwnerLeft(at) ==
  CASE at = "initialize" -> 12 [] at = "initialized" -> 11 [] at = "preload" -> 10
    [] at = "settle" -> 9 [] at = "open" -> 8 [] at = "close" -> 7 [] at = "shutdown" -> 6
    [] at = "exit" -> 5 [] at = "wait" -> 4 [] at = "killed" -> 3
    [] at \in {"drain", "aborting"} -> 2 [] OTHER -> 0

UserLeft(at) ==
  CASE at = "absent" -> 3 [] at = "idle" -> 2 [] at = "busy" -> 1 [] OTHER -> 0

SendLeft(kind, locked) ==
  IF kind \notin {"request", "message"} THEN 0 ELSE IF locked THEN 1 ELSE 2

\* A step lowers one part, and leaves those that come before it as they are: the owner
\* with its documents, the users, the messages to read, the messages to send, and the
\* ends of readLoop, of the stderr goroutine and of cmd.Wait.
DeadComesCloser ==
  \/ OwnerLeft(owner') < OwnerLeft(owner)
  \/ owner' = owner /\ left' < left
  \/ /\ UNCHANGED ownerVars
     /\ \/ \E u \in Users : /\ UserLeft(user'[u]) < UserLeft(user[u])
                            /\ \A v \in Users \ {u} : user'[v] = user[v]
        \/ user' = user /\ Len(stdout') < Len(stdout)
        \/ /\ UNCHANGED <<user, stdout>>
           /\ \E a \in Actors :
                /\ SendLeft(out'[a], mu' = a) < SendLeft(out[a], mu = a)
                /\ \A b \in Actors \ {a} :
                     SendLeft(out'[b], mu' = b) = SendLeft(out[b], mu = b)
        \/ /\ UNCHANGED <<user, stdout, out, mu>>
           /\ \/ ~done /\ done' /\ UNCHANGED <<scanning, process>>
              \/ scanning /\ ~scanning' /\ UNCHANGED <<done, process>>
              \/ process = "dead" /\ process' = "reaped" /\ UNCHANGED <<done, scanning>>

\* Once the server is gone the session comes to an end: with NeverBlocksItself, which
\* finds no ServersTurn then, one of its goroutines can run while anything is in progress,
\* and each step of theirs lowers a measure. Of what ExitFreesUsers and NothingLeft
\* promise, only that goroutines do run is left to fairness.
THEOREM DeadSessionEnds == Spec => [][process # "up" => process' # "up" /\ DeadComesCloser]_vars
<1>1. ASSUME ProcessInv, Next, ~UNCHANGED vars, process # "up"
      PROVE  process' # "up" /\ DeadComesCloser
  <2> USE <1>1 DEF DeadComesCloser, ownerVars, sendVars, serverVars, readVars
  <2>0. /\ out \in [Actors -> {"none", "request", "message", "failed"}]
        /\ user \in [Users -> {"absent", "idle", "busy", "returned"}]
        /\ stdout \in Seq(Frames) /\ left \in Nat /\ process \in {"dead", "reaped"}
    BY DEF ProcessInv, ProcessTypeOK, Frames
  <2>1. CASE \/ Initialized \/ AbortInitialize \/ InitializedSent \/ Aborted
             \/ Preloaded \/ Settled \/ StartShutdown \/ RequestShutdown \/ NotifyExit
             \/ StartWait \/ KillAfterTimeout \/ WaitReturns \/ Drained
    <3>1. process' = process
      BY <2>1 DEF Initialized, AbortInitialize, InitializedSent, Aborted, Preloaded, Settled,
         StartShutdown, RequestShutdown, NotifyExit, StartWait, KillAfterTimeout,
         WaitReturns, Drained, Kill
    <3>2. OwnerLeft(owner') < OwnerLeft(owner)
      BY <2>1 DEF Initialized, AbortInitialize, InitializedSent, Aborted, Preloaded, Settled,
         StartShutdown, RequestShutdown, NotifyExit, StartWait, KillAfterTimeout,
         WaitReturns, Drained, Go, Returned, OwnerLeft
    <3> QED
      BY <3>1, <3>2
  <2>2. CASE Preload \/ CloseDocument
    <3>1. owner' = owner /\ left' < left /\ process' = process
      BY <2>0, <2>2 DEF Preload, CloseDocument
    <3> QED
      BY <3>1
  <2>3. ASSUME NEW u \in Users, StartUse(u) \/ UseReturns(u) \/ CallCancelled(u)
        PROVE  process' # "up" /\ DeadComesCloser
    <3>1. UserLeft(user'[u]) < UserLeft(user[u])
      BY <2>0, <2>3 DEF StartUse, UseReturns, CallCancelled, Return, UserLeft
    <3>2. /\ \A v \in Users \ {u} : user'[v] = user[v]
          /\ UNCHANGED <<owner, left, process>>
      BY <2>0, <2>3 DEF StartUse, UseReturns, CallCancelled, Return
    <3> QED
      BY <3>1, <3>2
  <2>4. ASSUME NEW a \in Actors, Lock(a) \/ WriteFails(a)
        PROVE  process' # "up" /\ DeadComesCloser
    <3>1. SendLeft(out'[a], mu' = a) < SendLeft(out[a], mu = a)
      <4>1. CASE Lock(a)
        BY <2>0, <4>1, Names DEF Lock, Sending, SendLeft
      <4>2. CASE WriteFails(a)
        <5>1. out[a] \in {"request", "message"} /\ mu = a
          BY <4>2, Names DEF WriteFails, ProcessInv, LockHeld, Sending
        <5>2. out'[a] = "failed"
          BY <2>0, <4>2 DEF WriteFails, Unlock
        <5> QED
          BY <5>1, <5>2 DEF SendLeft
      <4> QED
        BY <2>4, <4>1, <4>2
    <3>2. ASSUME NEW b \in Actors \ {a}
          PROVE  SendLeft(out'[b], mu' = b) = SendLeft(out[b], mu = b)
      <4>1. out'[b] = out[b] /\ mu' # b /\ mu # b
        BY <2>0, <2>4, Names DEF Lock, WriteFails, Unlock
      <4> QED
        BY <4>1 DEF SendLeft
    <3>3. UNCHANGED <<owner, left, user, stdout, process>>
      BY <2>4 DEF Lock, WriteFails
    <3> QED
      BY <3>1, <3>2, <3>3
  <2>5. CASE ReadResponse \/ ReadCreate
    <3>1. /\ Len(stdout') < Len(stdout)
          /\ UNCHANGED <<owner, left, user, process>>
      BY <2>0, <2>5 DEF ReadResponse, ReadCreate
    <3> QED
      BY <3>1
  <2>6. CASE ReadEnds \/ ScanEnds \/ Reap
    BY <2>0, <2>6 DEF ReadEnds, ScanEnds, Reap, ProcessInv, ProcessTypeOK
  <2>7. ~LongLine /\ ~Take /\ ~Exit /\ (\A a : ~Write(a) /\ ~Respond(a))
        /\ \A m : ~Disturb(m)
    BY DEF Write, LongLine, Take, Exit, Respond, Disturb, WriteOut
  <2> QED
    BY <2>1, <2>2, <2>3, <2>4, <2>5, <2>6, <2>7, NextSteps DEF Steps
<1>2. ProcessInv /\ [Next]_vars => [process # "up" => process' # "up" /\ DeadComesCloser]_vars
  BY <1>1
<1> QED
  BY <1>2, ProcessInvariance, PTL DEF Spec
==============================================================================
