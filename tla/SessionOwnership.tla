-------------------------- MODULE SessionOwnership --------------------------
(***************************************************************************)
(* What the workspace promises about its language sessions: a session is   *)
(* opened at most once, it always has one owner who must shut it down,     *)
(* ownership goes from the launch goroutine to the project's entry and     *)
(* from the entry to Project.Shutdown and never back, and it ends with one *)
(* shutdown, by the launch goroutine or by Project.Shutdown.               *)
(***************************************************************************)
CONSTANTS Projects, Langs

VARIABLE owner

Init == owner = [p \in Projects |-> [l \in Langs |-> "unopened"]]

Pass(p, l, from, to) ==
  /\ owner[p][l] = from
  /\ owner' = [owner EXCEPT ![p][l] = to]

Open(p, l)    == Pass(p, l, "unopened", "launcher")
Abort(p, l)   == Pass(p, l, "launcher", "closed")
Install(p, l) == Pass(p, l, "launcher", "entry")
Detach(p, l)  == Pass(p, l, "entry", "shutdown")
Close(p, l)   == Pass(p, l, "shutdown", "closed")

Next ==
  \E p \in Projects, l \in Langs :
    Open(p, l) \/ Abort(p, l) \/ Install(p, l) \/ Detach(p, l) \/ Close(p, l)

Spec == Init /\ [][Next]_owner
=============================================================================
