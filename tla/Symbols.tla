------------------------------ MODULE Symbols ------------------------------
(***************************************************************************)
(* The pure functions that attribute a position to a symbol and match a    *)
(* query against a name (domain/symbol.go, and findContainingSymbol of     *)
(* adapters/lsp/adapter.go). A state is one input; the properties compare  *)
(* the code's algorithm with what its comment promises.                    *)
(*                                                                         *)
(* The tree documentSymbol returns is numbered in preorder: parent[i] is   *)
(* the symbol around symbol i, 0 for a top-level one, and siblings come in *)
(* the order of their numbers. A string is a sequence of runes.            *)
(***************************************************************************)
EXTENDS Naturals, Sequences, FiniteSetsExt, SequencesExt

CONSTANTS
  MaxSymbols,  \* bound: symbols in a document
  MaxLine,     \* bound: lines of a document, from 0
  MaxChar,     \* bound: characters of a line, from 0
  Runes,       \* code points of names and queries
  MaxQuery,    \* bound: length of a query
  MaxTarget    \* bound: length of a name

ASSUME SymbolsAssumption ==
  /\ Runes \subseteq Nat
  /\ {MaxSymbols, MaxLine, MaxChar, MaxQuery, MaxTarget} \subseteq Nat

VARIABLES
  doc,     \* the symbol tree of a document
  pos,     \* the position of a reference in it
  query,   \* what find_symbols is asked for
  target   \* the name of a symbol

vars == <<doc, pos, query, target>>

Positions == [line : 0..MaxLine, char : 0..MaxChar]

\* The order of positions: the reference the code's comparisons are held to.
Precedes(p, q) == p.line < q.line \/ (p.line = q.line /\ p.char < q.char)

Inside(p, r) == ~Precedes(p, r.start) /\ Precedes(p, r.end)

Ranges == {r \in [start : Positions, end : Positions] : Precedes(r.start, r.end)}

Around(parent, i) == LET up[j \in 0..i] == IF j = 0 THEN {0} ELSE {j} \cup up[parent[j]]
                     IN up[i]

Trees(n) ==
  {parent \in [1..n -> 0..n] :
     \A i \in 1..n : parent[i] < i /\ (i > 1 => parent[i] \in Around(parent, i - 1))}

\* A symbol lies within the one around it.
Nested(d) ==
  \A i \in DOMAIN d.parent : d.parent[i] # 0 =>
    /\ ~Precedes(d.range[i].start, d.range[d.parent[i]].start)
    /\ ~Precedes(d.range[d.parent[i]].end, d.range[i].end)

Documents ==
  {d \in UNION {[parent : Trees(n), range : [1..n -> Ranges]] : n \in 0..MaxSymbols} : Nested(d)}

\* Siblings do not overlap, as in the languages depgraph supports.
Disjoint(d) ==
  \A i, j \in DOMAIN d.parent : i # j /\ d.parent[i] = d.parent[j] =>
    ~Precedes(d.range[i].start, d.range[j].end) \/ ~Precedes(d.range[j].start, d.range[i].end)

-----------------------------------------------------------------------------
\* Mutant: the end of a range belongs to it.
UpToEnd(r, p) ==
  /\ ~(p.line < r.start.line \/ (p.line = r.start.line /\ p.char < r.start.char))
  /\ ~(p.line > r.end.line \/ (p.line = r.end.line /\ p.char > r.end.char))

RangeContains(r, p) ==
  /\ ~(p.line < r.start.line \/ (p.line = r.start.line /\ p.char < r.start.char))
  /\ ~(p.line > r.end.line \/ (p.line = r.end.line /\ p.char >= r.end.char))

\* The last sibling that contains pos wins, and then its innermost child.
InnermostSymbol(d, p) ==
  LET n == Len(d.parent)
      innermost[s \in 0..n] ==
        LET hits == {c \in 1..n : d.parent[c] = s /\ RangeContains(d.range[c], p)}
        IN IF hits = {} THEN s ELSE innermost[Max(hits)]
  IN innermost[0]

\* adapter.go has its own copy of RangeContains.
containsPos(r, p) ==
  /\ ~(p.line < r.start.line \/ (p.line = r.start.line /\ p.char < r.start.char))
  /\ ~(p.line > r.end.line \/ (p.line = r.end.line /\ p.char >= r.end.char))

LinesOf(r) == r.end.line - r.start.line

\* Of the top-level symbols that contain pos, the first of those with the fewest
\* lines.
findContainingSymbol(d, p) ==
  LET hits == {i \in DOMAIN d.parent : d.parent[i] = 0 /\ containsPos(d.range[i], p)}
      least == {i \in hits : \A j \in hits : LinesOf(d.range[i]) <= LinesOf(d.range[j])}
  IN IF hits = {} THEN 0 ELSE Min(least)

-----------------------------------------------------------------------------
\* Of the code points below 256: the capital letters of ASCII and of Latin-1.
ToLower(c) == IF c \in (65..90) \cup ((192..222) \ {215}) THEN c + 32 ELSE c

UTF8(c) == IF c < 128 THEN <<c>> ELSE <<192 + (c \div 64), 128 + (c % 64)>>

Bytes(s) == FlattenSeq([i \in DOMAIN s |-> UTF8(s[i])])

\* Mutant: a rune of the name that does not match starts the query again.
Contiguous(q, qi, c) ==
  IF qi < Len(q) THEN (IF q[qi + 1] = c THEN qi + 1 ELSE 0) ELSE qi

\* One rune of the name: query[qi] is a byte of the query, not a rune.
Scan(q, qi, c) == IF qi < Len(q) /\ q[qi + 1] = c THEN qi + 1 ELSE qi

FuzzyMatch(q, t) ==
  LET lower == [i \in DOMAIN q |-> ToLower(q[i])]
      bytes == Bytes(lower)
      qi[i \in 0..Len(t)] == IF i = 0 THEN 0 ELSE Scan(bytes, qi[i - 1], ToLower(t[i]))
  IN qi[Len(t)] = Len(bytes)

-----------------------------------------------------------------------------
NoSymbols == [parent |-> <<>>, range |-> <<>>]

Origin == [line |-> 0, char |-> 0]

Init ==
  \/ /\ doc \in Documents
     /\ pos \in Positions
     /\ query = <<>>
     /\ target = <<>>
  \/ /\ doc = NoSymbols
     /\ pos = Origin
     /\ query \in BoundedSeq(Runes, MaxQuery)
     /\ target \in BoundedSeq(Runes, MaxTarget)

Next == UNCHANGED vars

Spec == Init /\ [][Next]_vars

-----------------------------------------------------------------------------
Containing == {i \in DOMAIN doc.parent : Inside(pos, doc.range[i])}

Depth(i) == Cardinality(Around(doc.parent, i))

\* InnermostSymbol answers with a symbol around the position whenever there is
\* one, and never descends past it; with disjoint siblings that is the deepest.
InnermostIsDeepest ==
  LET s == InnermostSymbol(doc, pos)
  IN /\ s = 0 <=> Containing = {}
     /\ s # 0 => Around(doc.parent, s) \ {0} \subseteq Containing
     /\ \A c \in Containing : doc.parent[c] # s
     /\ Disjoint(doc) => \A c \in Containing : Depth(c) <= Depth(s)

\* The two tools blame the same top-level symbol for a reference: the graph's
\* findContainingSymbol names the one that the caller of find_references is in.
SameTopLevelSymbol ==
  Disjoint(doc) =>
    LET s == InnermostSymbol(doc, pos)
        top == findContainingSymbol(doc, pos)
    IN (top = 0 <=> s = 0) /\ top \in Around(doc.parent, s)

ASCII(s) == \A i \in DOMAIN s : s[i] < 128

\* The runes of q occur in t in order.
Subsequence(q, t) ==
  \E at \in [DOMAIN q -> DOMAIN t] :
    /\ \A i, j \in DOMAIN q : i < j => at[i] < at[j]
    /\ \A i \in DOMAIN q : ToLower(q[i]) = ToLower(t[at[i]])

\* Greedy matching of an ASCII query finds every subsequence and nothing else,
\* also in a name with other runes (the comment claims it of every query).
FuzzyIsSubsequence == ASCII(query) => (FuzzyMatch(query, target) <=> Subsequence(query, target))
=============================================================================
