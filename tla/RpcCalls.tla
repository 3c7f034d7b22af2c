------------------------------ MODULE RpcCalls ------------------------------
(***************************************************************************)
(* What a JSON-RPC connection owes to the goroutines that call over it,    *)
(* whatever wire, readLoop and map of channels it is made of: each call    *)
(* has an id of its own that no call had before, it returns once, with an  *)
(* answer the server gave to that id, or with an error that has its cause: *)
(* its own context was cancelled, the server is gone, or it broke the      *)
(* framing, after which nothing it writes can be read.                     *)
(***************************************************************************)
CONSTANTS
  Callers,  \* goroutines that call
  Ids       \* ids of calls

VARIABLES
  active,     \* callers whose call has not returned
  id,         \* id[c]: the id of c's current or last call, 0 before the first
  used,       \* ids given out so far
  cancelled,  \* cancelled[c]: the context of that call is cancelled
  outcome,    \* outcome[c]: how c's last call returned, "none" while one is active
  answered,   \* ids the server has answered
  up,         \* the server is running
  framed      \* it has kept to the framing of messages

vars == <<active, id, used, cancelled, outcome, answered, up, framed>>

Init ==
  /\ active = {}
  /\ id = [c \in Callers |-> 0]
  /\ used = {}
  /\ cancelled = [c \in Callers |-> FALSE]
  /\ outcome = [c \in Callers |-> "none"]
  /\ answered = {}
  /\ up = TRUE
  /\ framed = TRUE

Start(c) ==
  /\ c \notin active
  /\ active' = active \cup {c}
  /\ \E i \in Ids \ used : id' = [id EXCEPT ![c] = i] /\ used' = used \cup {i}
  /\ cancelled' = [cancelled EXCEPT ![c] = FALSE]
  /\ outcome' = [outcome EXCEPT ![c] = "none"]
  /\ UNCHANGED <<answered, up, framed>>

Cancel(c) ==
  /\ c \in active
  /\ cancelled' = [cancelled EXCEPT ![c] = TRUE]
  /\ UNCHANGED <<active, id, used, outcome, answered, up, framed>>

\* What a call may return, and when.
Justified(c, how) ==
  \/ how = "response" /\ id[c] \in answered
  \/ how = "ctx" /\ cancelled[c]
  \/ how = "closed" /\ (~up \/ ~framed)
  \/ how = "send" /\ ~up

Return(c) ==
  /\ c \in active
  /\ active' = active \ {c}
  /\ \E how \in {"response", "ctx", "closed", "send"} :
       Justified(c, how) /\ outcome' = [outcome EXCEPT ![c] = how]
  /\ UNCHANGED <<id, used, cancelled, answered, up, framed>>

\* The server answers calls that were made, may break the framing and may exit.
Answer(i) ==
  /\ up
  /\ i \in used
  /\ answered' = answered \cup {i}
  /\ UNCHANGED <<active, id, used, cancelled, outcome, up, framed>>

Break ==
  /\ framed' = FALSE
  /\ UNCHANGED <<active, id, used, cancelled, outcome, answered, up>>

Exit ==
  /\ up' = FALSE
  /\ UNCHANGED <<active, id, used, cancelled, outcome, answered, framed>>

Next ==
  \/ \E c \in Callers : Start(c) \/ Cancel(c) \/ Return(c)
  \/ \E i \in Ids : Answer(i)
  \/ Break
  \/ Exit

Spec == Init /\ [][Next]_vars
=============================================================================
