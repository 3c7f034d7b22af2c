----------------------------- MODULE StderrTail -----------------------------
(***************************************************************************)
(* stderrTail (adapters/lsp/lifecycle.go): the ring that keeps the last    *)
(* Capacity lines a language server wrote to stderr, so that the cause of  *)
(* its death can be logged. add and snapshot hold tail.mu and are atomic.  *)
(***************************************************************************)
EXTENDS Integers, Sequences

CONSTANTS
  Capacity,  \* newStderrTail's argument
  Lines,     \* the lines a server may write
  NoLine     \* the zero value of a slot

ASSUME CapacityAssumption == Capacity \in Nat \ {0}

VARIABLES
  slots,    \* stderrTail.lines
  at,       \* stderrTail.pos
  full,     \* stderrTail.full
  history   \* every line added so far (history variable)

tailVars == <<slots, at, full, history>>

Slots == 0 .. Capacity - 1

TailTypeOK ==
  /\ slots \in [Slots -> Lines \cup {NoLine}]
  /\ at \in Slots
  /\ full \in BOOLEAN
  /\ history \in Seq(Lines)

TailInit ==
  /\ slots = [i \in Slots |-> NoLine]
  /\ at = 0
  /\ full = FALSE
  /\ history = <<>>

\* Mutant: the ring is full one line late.
FullOnReturn(next) == full \/ next = 1

Wrapped(next) == full \/ next = 0

Add(line) ==
  LET next == (at + 1) % Capacity
  IN /\ slots' = [slots EXCEPT ![at] = line]
     /\ at' = next
     /\ full' = Wrapped(next)
     /\ history' = Append(history, line)

\* lines[:pos], after lines[pos:] once the ring is full.
Snapshot ==
  IF full THEN [i \in 1..Capacity |-> IF i <= Capacity - at THEN slots[at + i - 1]
                                                         ELSE slots[at + i - 1 - Capacity]]
          ELSE [i \in 1..at |-> slots[i - 1]]

TailNext == \E line \in Lines : Add(line)

TailSpec == TailInit /\ [][TailNext]_tailVars

-----------------------------------------------------------------------------
\* The last n lines of a sequence, all of them when it has no more.
LastLines(s, n) == IF Len(s) <= n THEN s ELSE SubSeq(s, Len(s) - n + 1, Len(s))

\* The snapshot is the most recent Capacity lines, oldest first: none is missing,
\* repeated or out of order around the wrap of the ring.
TailIsLastLines == Snapshot = LastLines(history, Capacity)
=============================================================================
