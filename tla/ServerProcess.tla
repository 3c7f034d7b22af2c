---------------------------- MODULE ServerProcess ----------------------------
(***************************************************************************)
(* The life of one language-server process: startLiveSession and Shutdown  *)
(* (adapters/lsp/session.go), shutdownLSP (lifecycle.go), and the use that *)
(* calls, the event loop and readLoop make of its pipes meanwhile (rpc.go).*)
(* In LspConn the server's stdin has room for a message or not; here stdin *)
(* and stdout are pipes with their contents, so that every goroutine that  *)
(* writes under conn.mu, readLoop and the server can wait for each other.  *)
(*                                                                         *)
(* The server is external: it reads and writes when it likes or not at     *)
(* all, breaks the framing, writes to stderr, and exits at any time.       *)
(***************************************************************************)
EXTENDS Naturals, Sequences

CONSTANTS
  Callers,    \* goroutines with one call each (queries)
  Docs,       \* documents the preload opens
  StdinCap,   \* messages the server's stdin pipe has room for
  StdoutCap,  \* messages its stdout pipe has room for
  MaxNoise    \* bound: create requests, broken frames and overlong lines of the server

ASSUME ProcessAssumption ==
  /\ Callers \cap {"loop", "owner", "reader", "free", "create", "broken"} = {}
  /\ Docs \in Nat
  /\ StdinCap \in Nat \ {0}
  /\ StdoutCap \in Nat \ {0}
  /\ MaxNoise \in Nat

VARIABLES
  owner,      \* control of the goroutine that starts and shuts down the session
  left,       \* documents it has still to open or to close
  user,       \* control of each caller and of the event loop
  out,        \* what each goroutine is sending; none, or failed, when it has sent it
  mu,         \* the holder of conn.mu
  process,    \* the server: up, dead (and not waited for), or reaped
  stdin,      \* messages in the stdin pipe
  stdout,     \* messages in the stdout pipe
  asked,      \* requests the server has read and not answered, by sender
  replied,    \* calls whose response readLoop has delivered, by caller
  done,       \* readLoop has returned and closed conn.done
  scanning,   \* the stderr goroutine has not returned
  noise       \* how many of those there were

ownerVars  == <<owner, left>>
sendVars   == <<out, mu>>
serverVars == <<process, stdin, asked, noise>>
readVars   == <<stdout, replied, done>>
vars == <<ownerVars, user, sendVars, serverVars, readVars, scanning>>

Users  == Callers \cup {"loop"}
Actors == Users \cup {"owner", "reader"}

\* initialize to settle: startLiveSession; aborting: it gives up; open: the session is in
\* use; close to drain: Shutdown; failed, ended: the two ways it is over.
OwnerPc == {"initialize", "initialized", "aborting", "failed", "preload", "settle", "open",
            "close", "shutdown", "exit", "wait", "killed", "drain", "ended"}

ProcessTypeOK ==
  /\ owner \in OwnerPc
  /\ left \in 0..Docs
  /\ user \in [Users -> {"absent", "idle", "busy", "returned"}]
  /\ out \in [Actors -> {"none", "request", "message", "failed"}]
  /\ mu \in Actors \cup {"free"}
  /\ process \in {"up", "dead", "reaped"}
  /\ stdin \in Seq([from : Actors, kind : {"request", "message"}])
  /\ Len(stdin) <= StdinCap
  /\ stdout \in Seq(Actors \cup {"create", "broken"})
  /\ Len(stdout) <= StdoutCap
  /\ asked \in SUBSET Actors
  /\ replied \in SUBSET Actors
  /\ done \in BOOLEAN
  /\ scanning \in BOOLEAN
  /\ noise \in 0..MaxNoise

Init ==
  /\ owner = "initialize"
  /\ left = Docs
  /\ user = [u \in Users |-> "absent"]
  /\ out = [a \in Actors |-> IF a = "owner" THEN "request" ELSE "none"]
  /\ mu = "free"
  /\ process = "up"
  /\ stdin = <<>>
  /\ stdout = <<>>
  /\ asked = {}
  /\ replied = {}
  /\ done = FALSE
  /\ scanning = TRUE
  /\ noise = 0

-----------------------------------------------------------------------------
\* conn.send, by any goroutine.

Post(a, kind) == out' = [out EXCEPT ![a] = kind] /\ UNCHANGED mu

Sending(a) == out[a] \in {"request", "message"}

Lock(a) ==
  /\ Sending(a)
  /\ mu = "free"
  /\ mu' = a
  /\ UNCHANGED <<ownerVars, user, out, serverVars, readVars, scanning>>

Unlock(a, result) ==
  /\ mu' = "free"
  /\ out' = [out EXCEPT ![a] = result]

\* The write completes when the pipe has room for the message.
Write(a) ==
  /\ mu = a
  /\ process = "up"
  /\ Len(stdin) < StdinCap
  /\ stdin' = Append(stdin, [from |-> a, kind |-> out[a]])
  /\ Unlock(a, "none")
  /\ UNCHANGED <<ownerVars, user, process, asked, noise, readVars, scanning>>

\* Mutant: an early return on the error path leaves the mutex locked.
FailLocked(a) ==
  /\ mu = a
  /\ process # "up"
  /\ out' = [out EXCEPT ![a] = "failed"]
  /\ UNCHANGED <<ownerVars, user, mu, serverVars, readVars, scanning>>

\* It fails, also one that is waiting for room, when nobody can read it any more.
WriteFails(a) ==
  /\ mu = a
  /\ process # "up"
  /\ Unlock(a, "failed")
  /\ UNCHANGED <<ownerVars, user, serverVars, readVars, scanning>>

SendStep(a) == Lock(a) \/ Write(a) \/ WriteFails(a)

-----------------------------------------------------------------------------
\* The goroutine that starts the session and later shuts it down.

Go(pc) == owner' = pc

\* What a dead process has not read is lost, what it wrote can still be read.
Die ==
  /\ process' = "dead"
  /\ stdin' = <<>>
  /\ asked' = {}
  /\ UNCHANGED noise

Kill == IF process = "up" THEN Die ELSE UNCHANGED serverVars

Returned(pc) == owner = pc /\ ~Sending("owner")

\* The response to initialize has come, and initialized is sent.
Initialized ==
  /\ Returned("initialize")
  /\ "owner" \in replied
  /\ Go("initialized")
  /\ replied' = replied \ {"owner"}
  /\ Post("owner", "message")
  /\ UNCHANGED <<left, user, serverVars, stdout, done, scanning>>

\* It has not: an error response, a failed write, or the end of readLoop. The same
\* happens on the cancellation of the context, which nothing makes certain.
AbortInitialize ==
  /\ Returned("initialize")
  /\ Go("aborting")
  /\ Kill
  /\ UNCHANGED <<left, user, sendVars, readVars, scanning>>

InitializeFails == (out["owner"] = "failed" \/ done \/ "owner" \in replied) /\ AbortInitialize

InitializedSent ==
  /\ Returned("initialized")
  /\ IF out["owner"] = "failed" THEN Go("aborting") /\ Kill
                                ELSE Go("preload") /\ UNCHANGED serverVars
  /\ UNCHANGED <<left, user, sendVars, readVars, scanning>>

\* Mutant: it returns without cmd.Wait.
AbortedAtOnce ==
  /\ owner = "aborting"
  /\ Go("failed")
  /\ UNCHANGED <<left, user, sendVars, serverVars, readVars, scanning>>

\* cmd.Wait, on the way out of startLiveSession.
Aborted ==
  /\ owner = "aborting"
  /\ process = "reaped"
  /\ Go("failed")
  /\ UNCHANGED <<left, user, sendVars, serverVars, readVars, scanning>>

\* preloadProject: a didOpen that fails is logged, and the next one tried.
Preload ==
  /\ Returned("preload")
  /\ left > 0
  /\ left' = left - 1
  /\ Post("owner", "message")
  /\ UNCHANGED <<owner, user, serverVars, readVars, scanning>>

\* The event loop is started, and waitForIdle begins to wait.
Preloaded ==
  /\ Returned("preload")
  /\ left = 0
  /\ Go("settle")
  /\ user' = [user EXCEPT !["loop"] = "idle"]
  /\ UNCHANGED <<left, sendVars, serverVars, readVars, scanning>>

\* When it returns is the subject of LspConn.
Settled ==
  /\ owner = "settle"
  /\ Go("open")
  /\ user' = [u \in Users |-> IF u \in Callers THEN "idle" ELSE user[u]]
  /\ UNCHANGED <<left, sendVars, serverVars, readVars, scanning>>

\* Shutdown copies the open set: whoever owns the session, or startLiveSession when
\* the preload cannot walk the root.
StartShutdown ==
  /\ owner = "open" \/ (Returned("preload") /\ left = Docs)
  /\ Go("close")
  /\ left' = Docs - left
  /\ UNCHANGED <<user, sendVars, serverVars, readVars, scanning>>

CloseDocument ==
  /\ Returned("close")
  /\ left > 0
  /\ left' = left - 1
  /\ Post("owner", "message")
  /\ UNCHANGED <<owner, user, serverVars, readVars, scanning>>

\* shutdownLSP: the shutdown request.
RequestShutdown ==
  /\ Returned("close")
  /\ left = 0
  /\ Go("shutdown")
  /\ Post("owner", "request")
  /\ UNCHANGED <<left, user, serverVars, readVars, scanning>>

\* Its call returns, at the latest after one second, if the request could be sent.
\* Whatever it returned, the exit notification follows.
NotifyExit ==
  /\ Returned("shutdown")
  /\ Go("exit")
  /\ Post("owner", "message")
  /\ UNCHANGED <<left, user, serverVars, readVars, scanning>>

StartWait ==
  /\ Returned("exit")
  /\ Go("wait")
  /\ UNCHANGED <<left, user, sendVars, serverVars, readVars, scanning>>

\* Mutant: the timeout gives up without killing.
GiveUp ==
  /\ owner = "wait"
  /\ Go("killed")
  /\ UNCHANGED <<left, user, sendVars, serverVars, readVars, scanning>>

\* Five seconds have passed. The process may be gone by then, or waited for.
KillAfterTimeout ==
  /\ owner = "wait"
  /\ Kill
  /\ Go("killed")
  /\ UNCHANGED <<left, user, sendVars, readVars, scanning>>

WaitReturns ==
  /\ owner \in {"wait", "killed"}
  /\ process = "reaped"
  /\ Go("drain")
  /\ UNCHANGED <<left, user, sendVars, serverVars, readVars, scanning>>

\* stderrDone, or one second; then the tail is logged.
Drained ==
  /\ owner = "drain"
  /\ Go("ended")
  /\ UNCHANGED <<left, user, sendVars, serverVars, readVars, scanning>>

\* Everything the owner does of its own accord.
OwnerStep ==
  \/ Initialized \/ InitializeFails \/ InitializedSent \/ Aborted
  \/ Preload \/ Preloaded
  \/ CloseDocument \/ RequestShutdown \/ NotifyExit
  \/ StartWait \/ KillAfterTimeout \/ WaitReturns \/ Drained

\* cmd.Wait has been called.
WaitCalled == owner \in {"aborting", "wait", "killed"}

\* cmd.Wait returns once the process is dead. It closes our ends of the pipes.
Reap ==
  /\ WaitCalled
  /\ process = "dead"
  /\ process' = "reaped"
  /\ UNCHANGED <<ownerVars, user, sendVars, stdin, asked, noise, readVars, scanning>>

-----------------------------------------------------------------------------
\* Queries and the event loop.

StartUse(u) ==
  /\ user[u] = "idle"
  /\ user' = [user EXCEPT ![u] = "busy"]
  /\ Post(u, IF u \in Callers THEN "request" ELSE "message")
  /\ UNCHANGED <<ownerVars, serverVars, readVars, scanning>>

Return(u) == user' = [user EXCEPT ![u] = "returned"]

\* A notification returns when it is sent, a call when it is answered, when the
\* write failed, or when readLoop has ended.
UseReturns(u) ==
  /\ user[u] = "busy"
  /\ ~Sending(u)
  /\ u \in Callers => u \in replied \/ done \/ out[u] = "failed"
  /\ Return(u)
  /\ replied' = replied \ {u}
  /\ UNCHANGED <<ownerVars, sendVars, serverVars, stdout, done, scanning>>

\* Its context is cancelled: seen only once the request has been sent.
CallCancelled(u) ==
  /\ u \in Callers
  /\ user[u] = "busy"
  /\ ~Sending(u)
  /\ Return(u)
  /\ replied' = replied \ {u}
  /\ UNCHANGED <<ownerVars, sendVars, serverVars, stdout, done, scanning>>

-----------------------------------------------------------------------------
\* readLoop, and the goroutine that reads stderr.

Pending(a) == IF a = "owner" THEN owner \in {"initialize", "shutdown"} ELSE user[a] = "busy"

\* A response goes to the call that waits for it, if one does.
ReadResponse ==
  /\ ~done
  /\ ~Sending("reader")
  /\ stdout # <<>>
  /\ Head(stdout) \in Actors
  /\ replied' = IF Pending(Head(stdout)) THEN replied \cup {Head(stdout)} ELSE replied
  /\ stdout' = Tail(stdout)
  /\ UNCHANGED <<ownerVars, user, sendVars, serverVars, done, scanning>>

\* window/workDoneProgress/create: readLoop itself sends the acknowledgement, and
\* reads nothing before that has been written.
ReadCreate ==
  /\ ~done
  /\ ~Sending("reader")
  /\ stdout # <<>>
  /\ Head(stdout) = "create"
  /\ Post("reader", "message")
  /\ stdout' = Tail(stdout)
  /\ UNCHANGED <<ownerVars, user, serverVars, replied, done, scanning>>

\* Mutant: readLoop ends without closing done on a read error.
EndsAtEOF ==
  /\ ~done
  /\ ~Sending("reader")
  /\ stdout = <<>> /\ process # "up"
  /\ done' = TRUE
  /\ UNCHANGED <<ownerVars, user, sendVars, serverVars, stdout, replied, scanning>>

\* End of file, a broken frame, or our end of the pipe closed by cmd.Wait.
ReadEnds ==
  /\ ~done
  /\ ~Sending("reader")
  /\ \/ stdout = <<>> /\ process # "up"
     \/ stdout # <<>> /\ Head(stdout) = "broken"
     \/ process = "reaped"
  /\ done' = TRUE
  /\ UNCHANGED <<ownerVars, user, sendVars, serverVars, stdout, replied, scanning>>

ReadStep == ReadResponse \/ ReadCreate \/ ReadEnds

\* Lines go into the ring of StderrTail. The goroutine ends with the pipe, and on a
\* line that is too long for the scanner's buffer, whatever the server writes then.
ScanEnds ==
  /\ scanning
  /\ process # "up"
  /\ scanning' = FALSE
  /\ UNCHANGED <<ownerVars, user, sendVars, serverVars, readVars>>

LongLine ==
  /\ scanning
  /\ process = "up"
  /\ noise < MaxNoise
  /\ noise' = noise + 1
  /\ scanning' = FALSE
  /\ UNCHANGED <<ownerVars, user, sendVars, process, stdin, asked, readVars>>

-----------------------------------------------------------------------------
\* The language server (external).

Take ==
  /\ process = "up"
  /\ stdin # <<>>
  /\ stdin' = Tail(stdin)
  /\ asked' = IF Head(stdin).kind = "request" THEN asked \cup {Head(stdin).from} ELSE asked
  /\ UNCHANGED <<ownerVars, user, sendVars, process, noise, readVars, scanning>>

WriteOut(m) ==
  /\ process = "up"
  /\ Len(stdout) < StdoutCap
  /\ stdout' = Append(stdout, m)
  /\ UNCHANGED <<ownerVars, user, sendVars, process, stdin, replied, done, scanning>>

Respond(a) ==
  /\ a \in asked
  /\ asked' = asked \ {a}
  /\ WriteOut(a)
  /\ UNCHANGED noise

Disturb(m) ==
  /\ noise < MaxNoise
  /\ noise' = noise + 1
  /\ WriteOut(m)
  /\ UNCHANGED asked

Exit ==
  /\ process = "up"
  /\ Die
  /\ UNCHANGED <<ownerVars, user, sendVars, readVars, scanning>>

ServerStep ==
  \/ Take
  \/ \E a \in Actors : Respond(a)
  \/ Disturb("create")
  \/ Disturb("broken")
  \/ Exit

-----------------------------------------------------------------------------
Next ==
  \/ \E a \in Actors : SendStep(a)
  \/ OwnerStep
  \/ AbortInitialize
  \/ Settled
  \/ StartShutdown
  \/ Reap
  \/ \E u \in Users : StartUse(u) \/ UseReturns(u) \/ CallCancelled(u)
  \/ ReadStep
  \/ ScanEnds
  \/ LongLine
  \/ ServerStep

Spec == Init /\ [][Next]_vars

\* Goroutines that can run do run, timeouts expire, the kernel reports a dead
\* process. Nothing is assumed of the server, nor that anybody ends the session,
\* cancels a context, or makes a call.
Fairness ==
  /\ \A a \in Actors : WF_vars(SendStep(a))
  /\ WF_vars(OwnerStep)
  /\ WF_vars(Reap)
  /\ \A u \in Users : WF_vars(UseReturns(u))
  /\ WF_vars(ReadStep)
  /\ WF_vars(ScanEnds)

FairSpec == Spec /\ Fairness

-----------------------------------------------------------------------------
Reads == []<>(stdin = <<>> \/ process # "up")

\* conn.mu is held across the write, and readLoop wants it too; still nobody waits
\* for ever as long as the server goes on reading its stdin: neither the callers,
\* nor readLoop behind an acknowledgement, nor the owner behind any of them.
SendsReturn == Reads => \A a \in Actors : Sending(a) ~> ~Sending(a)

\* The death of the server frees everybody: blocked writes fail, readLoop ends,
\* and every call and notification in progress returns.
ExitFreesUsers == \A u \in Users : user[u] = "busy" /\ process # "up" ~> user[u] = "returned"

\* A server that reads what it is sent is reaped once Shutdown has begun, whether
\* or not it answers, obeys, breaks the framing or fills its stderr. Without Reads
\* it does not hold: a server that has stopped reading blocks the didClose, shutdown
\* or exit message in the full pipe, before the wait that has a timeout.
ShutdownReaps == Reads => (owner = "close" ~> process = "reaped")

\* When the owner is through, so is everything that belonged to the session: the
\* process is reaped (also after a failed start) and no goroutine is left.
NothingLeft ==
  owner \in {"failed", "ended"} ~>
    /\ process = "reaped" /\ done /\ ~scanning
    /\ \A u \in Users : user[u] # "busy"

=============================================================================
