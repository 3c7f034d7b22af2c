-------------------------- MODULE CallerChainProofs --------------------------
(***************************************************************************)
(* Proofs about CallerChain: for every code base, every exclusion and      *)
(* every pattern of failing calls, the walk visits only the caller chain   *)
(* of its target, and all of it when it warns of nothing.                  *)
(***************************************************************************)
EXTENDS CallerChain, TLAPS

USE ChainAssumption

\* Visited symbols are those asked about and those still in the queue.
Frontier == visited = asked \cup {queue[i] : i \in DOMAIN queue}

\* A location is looked at on behalf of a visited symbol.
LocsHaveOrigin == \A loc \in locs : \E s \in visited : loc \in refs[s]

\* A symbol asked about has its callers visited, or about to be looked at, unless
\* a warning says that something was lost.
AskedIsCovered ==
  ~warned => \A s \in asked : \A loc \in refs[s] :
    \/ loc \in locs
    \/ loc.file \in HiddenFiles
    \/ loc.caller \notin Symbols \ ExcludedSymbols
    \/ loc.caller \in visited

\* A document that could not be read has been warned of.
FailedDocsWarned == \A f \in Files : docs[f] = "failed" => warned

DoneIsEmpty == pc = "done" => locs = {} /\ queue = <<>>

IInv ==
  /\ TypeOK
  /\ Frontier
  /\ AskedOnce
  /\ ResultsAreVisited
  /\ LocsHaveOrigin
  /\ AskedIsCovered
  /\ FailedDocsWarned
  /\ DoneIsEmpty
  /\ OnlyUpstream

-----------------------------------------------------------------------------
\* The caller chain depends on the references only.
LEMMA UpstreamUnchanged == refs' = refs => Upstream' = Upstream
BY DEF Upstream, Closed, Callers

\* The target is upstream of itself, and the caller chain is closed.
LEMMA UpstreamClosed == Closed(Upstream)
BY DEF Upstream, Closed, Callers

\* A set that is closed contains the caller chain.
LEMMA UpstreamLeast == ASSUME NEW S \in SUBSET Symbols, Closed(S) PROVE Upstream \subseteq S
BY DEF Upstream

\* What Append does to the elements of a sequence of symbols.
LEMMA AppendFacts ==
  ASSUME NEW q \in Seq(Symbols), NEW s \in Symbols
  PROVE  /\ Append(q, s) \in Seq(Symbols)
         /\ DOMAIN Append(q, s) = DOMAIN q \cup {Len(q) + 1}
         /\ Len(q) + 1 \notin DOMAIN q
         /\ \A i \in DOMAIN q : Append(q, s)[i] = q[i]
         /\ Append(q, s)[Len(q) + 1] = s
OBVIOUS

\* What Tail does to them.
LEMMA TailFacts ==
  ASSUME NEW q \in Seq(Symbols), q # <<>>
  PROVE  /\ Tail(q) \in Seq(Symbols)
         /\ 1 \in DOMAIN q
         /\ Head(q) = q[1]
         /\ Head(q) \in Symbols
         /\ \A i \in DOMAIN Tail(q) : i + 1 \in DOMAIN q /\ i + 1 # 1 /\ Tail(q)[i] = q[i + 1]
         /\ \A i \in DOMAIN q : i = 1 \/ (i - 1 \in DOMAIN Tail(q) /\ Tail(q)[i - 1] = q[i])
OBVIOUS

-----------------------------------------------------------------------------
LEMMA IInvInit == Init => IInv
<1>. SUFFICES ASSUME Init PROVE IInv
  OBVIOUS
<1>1. TypeOK
  <2>1. /\ refs \in [Symbols -> SUBSET Locations]
        /\ docs \in [Files -> {"unread", "read", "failed"}]
    BY DEF Init
  <2>2. queue \in Seq(Symbols) /\ results \in Seq(Symbols)
    BY DEF Init
  <2>. QED
    BY <2>1, <2>2 DEF Init, TypeOK
<1>2. Frontier /\ AskedOnce /\ ResultsAreVisited
  BY DEF Init, Frontier, AskedOnce, ResultsAreVisited
<1>3. LocsHaveOrigin /\ AskedIsCovered /\ FailedDocsWarned /\ DoneIsEmpty
  BY DEF Init, LocsHaveOrigin, AskedIsCovered, FailedDocsWarned, DoneIsEmpty
<1>4. OnlyUpstream
  BY UpstreamClosed DEF Init, OnlyUpstream, Closed
<1>. QED
  BY <1>1, <1>2, <1>3, <1>4 DEF IInv

\* Popping the queue and asking for its head, with or without an answer.
LEMMA AskStep == IInv /\ Ask => IInv'
<1>. SUFFICES ASSUME IInv, Ask PROVE IInv'
  OBVIOUS
<1>. USE DEF IInv, Ask, AppendWarning
<1>. DEFINE head == Head(queue)
<1>1. /\ Tail(queue) \in Seq(Symbols)
      /\ 1 \in DOMAIN queue
      /\ head = queue[1]
      /\ head \in Symbols
      /\ \A i \in DOMAIN Tail(queue) :
           i + 1 \in DOMAIN queue /\ i + 1 # 1 /\ Tail(queue)[i] = queue[i + 1]
      /\ \A i \in DOMAIN queue :
           i = 1 \/ (i - 1 \in DOMAIN Tail(queue) /\ Tail(queue)[i - 1] = queue[i])
  BY TailFacts DEF TypeOK
<1>2. refs[head] \in SUBSET Locations /\ head \in visited
  BY <1>1 DEF TypeOK, Frontier
<1>. HIDE DEF head
<1>3. TypeOK'
  BY <1>1, <1>2 DEF TypeOK, head
<1>4. Frontier'
  <2>1. {queue[i] : i \in DOMAIN queue}
          = {head} \cup {Tail(queue)[i] : i \in DOMAIN Tail(queue)}
    BY <1>1
  <2>. QED
    BY <2>1 DEF Frontier, head
<1>5. AskedOnce'
  <2>1. \A i \in DOMAIN Tail(queue) : Tail(queue)[i] \notin asked \cup {head}
    BY <1>1 DEF AskedOnce
  <2>2. ASSUME NEW i \in DOMAIN Tail(queue), NEW j \in DOMAIN Tail(queue),
               Tail(queue)[i] = Tail(queue)[j]
        PROVE  i = j
    <3>1. i + 1 = j + 1
      BY <1>1, <2>2 DEF AskedOnce
    <3>2. i \in Nat /\ j \in Nat
      BY <1>1
    <3>. QED
      BY <3>1, <3>2
  <2>. QED
    BY <2>1, <2>2 DEF AskedOnce, head
<1>6. LocsHaveOrigin'
  BY <1>2 DEF LocsHaveOrigin, head
<1>7. AskedIsCovered'
  BY <1>2 DEF AskedIsCovered, head
<1>8. (ResultsAreVisited /\ FailedDocsWarned /\ DoneIsEmpty)'
  BY DEF ResultsAreVisited, FailedDocsWarned, DoneIsEmpty
<1>9. OnlyUpstream'
  BY UpstreamUnchanged DEF OnlyUpstream
<1>. QED
  BY <1>3, <1>4, <1>5, <1>6, <1>7, <1>8, <1>9

\* Dropping a location: its file is hidden, or cannot be read.
LEMMA SkipStep ==
  ASSUME NEW loc \in locs
  PROVE  IInv /\ (SkipHidden(loc) \/ SkipUnreadable(loc)) => IInv'
<1>. SUFFICES ASSUME IInv, SkipHidden(loc) \/ SkipUnreadable(loc) PROVE IInv'
  OBVIOUS
<1>. USE DEF IInv
<1>1. loc \in Locations /\ loc.file \in Files
  BY DEF TypeOK, Locations
<1>2. /\ UNCHANGED <<refs, pc, queue, visited, results, asked>>
      /\ locs' = locs \ {loc}
  BY DEF SkipHidden, SkipUnreadable, AppendWarning
<1>3. docs' \in [Files -> {"unread", "read", "failed"}] /\ warned' \in BOOLEAN
  BY <1>1 DEF SkipHidden, SkipUnreadable, AppendWarning, TypeOK
<1>4. warned => warned'
  BY DEF SkipHidden, SkipUnreadable, AppendWarning
<1>5. FailedDocsWarned'
  BY <1>1 DEF SkipHidden, SkipUnreadable, AppendWarning, FailedDocsWarned, TypeOK
<1>6. loc.file \in HiddenFiles \/ warned'
  BY <1>1 DEF SkipHidden, SkipUnreadable, AppendWarning, FailedDocsWarned, TypeOK
<1>7. TypeOK'
  BY <1>2, <1>3 DEF TypeOK
<1>8. (Frontier /\ AskedOnce /\ ResultsAreVisited)'
  BY <1>2 DEF Frontier, AskedOnce, ResultsAreVisited
<1>9. (LocsHaveOrigin /\ DoneIsEmpty)'
  BY <1>2 DEF LocsHaveOrigin, DoneIsEmpty
<1>10. AskedIsCovered'
  BY <1>2, <1>4, <1>6 DEF AskedIsCovered
<1>11. OnlyUpstream'
  BY <1>2, UpstreamUnchanged DEF OnlyUpstream
<1>. QED
  BY <1>5, <1>7, <1>8, <1>9, <1>10, <1>11

\* Resolving a location to its caller, which is visited if it is new.
LEMMA ResolveStep ==
  ASSUME NEW loc \in locs
  PROVE  IInv /\ Resolve(loc) => IInv'
<1>. SUFFICES ASSUME IInv, Resolve(loc) PROVE IInv'
  OBVIOUS
<1>. USE DEF IInv
<1>1. loc \in Locations /\ loc.file \in Files /\ pc # "done"
  BY DEF TypeOK, Locations, DoneIsEmpty
<1>2. /\ UNCHANGED <<refs, pc, warned, asked>>
      /\ locs' = locs \ {loc}
      /\ docs' = [docs EXCEPT ![loc.file] = "read"]
      /\ loc.file \notin HiddenFiles
  BY DEF Resolve, NotVisited
<1>3. FailedDocsWarned' /\ docs' \in [Files -> {"unread", "read", "failed"}]
  BY <1>1, <1>2 DEF FailedDocsWarned, TypeOK
<1>4. CASE loc.caller \in Symbols \ (ExcludedSymbols \cup visited)
  <2>. DEFINE c == loc.caller
  <2>1. /\ visited' = visited \cup {c}
        /\ results' = Append(results, c)
        /\ queue' = Append(queue, c)
        /\ c \in Symbols
        /\ c \notin visited
        /\ c \notin ExcludedSymbols
    BY <1>4 DEF Resolve, NotVisited
  <2>2. queue \in Seq(Symbols) /\ results \in Seq(Symbols)
    BY DEF TypeOK
  <2>3. TypeOK'
    BY <1>2, <1>3, <2>1, <2>2, AppendFacts DEF TypeOK
  <2>4. {queue'[i] : i \in DOMAIN queue'} = {queue[i] : i \in DOMAIN queue} \cup {c}
    BY <2>1, <2>2, AppendFacts
  <2>5. {results'[i] : i \in DOMAIN results'} = {results[i] : i \in DOMAIN results} \cup {c}
    BY <2>1, <2>2, AppendFacts
  <2>6. Frontier'
    BY <1>2, <2>1, <2>4 DEF Frontier
  <2>7. AskedOnce'
    <3>1. \A i \in DOMAIN queue : queue[i] # c
      BY <2>1 DEF Frontier
    <3>2. c \notin asked
      BY <2>1 DEF Frontier
    <3>. QED
      BY <1>2, <2>1, <2>2, <3>1, <3>2, AppendFacts DEF AskedOnce
  <2>8. ResultsAreVisited'
    <3>1. c # Target /\ \A i \in DOMAIN results : results[i] # c
      BY <2>1 DEF ResultsAreVisited
    <3>2. \A i, j \in DOMAIN results' : results'[i] = results'[j] => i = j
      BY <2>1, <2>2, <3>1, AppendFacts DEF ResultsAreVisited
    <3>. QED
      BY <2>1, <2>5, <3>1, <3>2 DEF ResultsAreVisited
  <2>9. (LocsHaveOrigin /\ DoneIsEmpty)'
    BY <1>1, <1>2, <2>1 DEF LocsHaveOrigin, DoneIsEmpty
  <2>10. AskedIsCovered'
    BY <1>2, <2>1 DEF AskedIsCovered
  <2>11. OnlyUpstream'
    <3>1. PICK s \in visited : loc \in refs[s]
      BY DEF LocsHaveOrigin
    <3>2. c \in Callers(s)
      BY <1>2, <2>1, <3>1 DEF Callers
    <3>3. c \in Upstream
      BY <3>1, <3>2, UpstreamClosed DEF OnlyUpstream, Closed
    <3>. QED
      BY <1>2, <2>1, <3>3, UpstreamUnchanged DEF OnlyUpstream
  <2>. QED
    BY <1>3, <2>3, <2>6, <2>7, <2>8, <2>9, <2>10, <2>11
<1>5. CASE loc.caller \notin Symbols \ (ExcludedSymbols \cup visited)
  <2>1. UNCHANGED <<visited, results, queue>>
    BY <1>5 DEF Resolve, NotVisited
  <2>2. TypeOK'
    BY <1>2, <1>3, <2>1 DEF TypeOK
  <2>3. (Frontier /\ AskedOnce /\ ResultsAreVisited)'
    BY <1>2, <2>1 DEF Frontier, AskedOnce, ResultsAreVisited
  <2>4. (LocsHaveOrigin /\ DoneIsEmpty)'
    BY <1>1, <1>2, <2>1 DEF LocsHaveOrigin, DoneIsEmpty
  <2>5. AskedIsCovered'
    BY <1>2, <1>5, <2>1 DEF AskedIsCovered
  <2>6. OnlyUpstream'
    BY <1>2, <2>1, UpstreamUnchanged DEF OnlyUpstream
  <2>. QED
    BY <1>3, <2>2, <2>3, <2>4, <2>5, <2>6
<1>. QED
  BY <1>4, <1>5

\* The end of the loop, and steps that change nothing.
LEMMA OtherStep == IInv /\ (Finish \/ UNCHANGED vars) => IInv'
<1>. SUFFICES ASSUME IInv, Finish \/ UNCHANGED vars PROVE IInv'
  OBVIOUS
<1>1. UNCHANGED <<refs, queue, locs, visited, results, docs, warned, asked>>
  BY DEF Finish, vars
<1>2. (TypeOK /\ DoneIsEmpty)'
  BY DEF Finish, vars, IInv, TypeOK, DoneIsEmpty
<1>3. (Frontier /\ AskedOnce /\ ResultsAreVisited)'
  BY <1>1 DEF IInv, Frontier, AskedOnce, ResultsAreVisited
<1>4. (LocsHaveOrigin /\ AskedIsCovered /\ FailedDocsWarned)'
  BY <1>1 DEF IInv, LocsHaveOrigin, AskedIsCovered, FailedDocsWarned
<1>5. OnlyUpstream'
  BY <1>1, UpstreamUnchanged DEF IInv, OnlyUpstream
<1>. QED
  BY <1>2, <1>3, <1>4, <1>5 DEF IInv

\* The inductive invariant of the walk holds in every reachable state.
THEOREM Invariance == Spec => []IInv
<1>1. IInv /\ [Next]_vars => IInv'
  BY AskStep, SkipStep, ResolveStep, OtherStep DEF Next, Returned
<1>. QED
  BY IInvInit, <1>1, PTL DEF Spec

\* Every reachable state has the types of TypeOK.
THEOREM TypeCorrect == Spec => []TypeOK
BY Invariance, PTL DEF IInv

\* Soundness: only symbols of the caller chain are visited, whatever fails.
THEOREM Soundness == Spec => []OnlyUpstream
BY Invariance, PTL DEF IInv

\* Completeness: a result without warnings is the whole caller chain.
THEOREM Completeness == Spec => []CompleteUnlessWarned
<1>1. IInv => CompleteUnlessWarned
  <2>. SUFFICES ASSUME IInv, pc = "done", ~warned PROVE visited = Upstream
    BY DEF CompleteUnlessWarned
  <2>1. visited = asked /\ locs = {}
    BY DEF IInv, Frontier, DoneIsEmpty
  <2>2. Closed(visited)
    BY <2>1 DEF IInv, Closed, Callers, AskedIsCovered, ResultsAreVisited
  <2>3. Upstream \subseteq visited
    BY <2>2, UpstreamLeast DEF IInv, TypeOK
  <2>. QED
    BY <2>3 DEF IInv, OnlyUpstream
<1>. QED
  BY <1>1, Invariance, PTL

\* The results name every visited symbol but the target, each once.
THEOREM NoDuplicates == Spec => []ResultsAreVisited
BY Invariance, PTL DEF IInv

\* No symbol is asked about twice: the walk makes at most one call per symbol.
THEOREM AsksOnce == Spec => []AskedOnce
BY Invariance, PTL DEF IInv
\* The variant of the loop: a step asks about a symbol that was visited and not asked
\* about, or drops a location of the current answer, or ends the walk.
Progress ==
  \/ \E s \in visited \ asked : asked' = asked \cup {s}
  \/ asked' = asked /\ \E loc \in locs : locs' = locs \ {loc}
  \/ pc = "walk" /\ pc' = "done"

\* Every step is progress: with finitely many symbols and locations the walk ends in every
\* caller graph, cycles included, whichever calls fail (Terminates, but for the fairness).
THEOREM WalkProgresses == Spec => [][Progress]_vars
<1>1. ASSUME IInv, Next, vars' # vars
      PROVE  Progress
  <2>1. CASE Ask
    <3>1. 1 \in DOMAIN queue /\ Head(queue) = queue[1]
      BY <1>1, <2>1, TailFacts DEF IInv, TypeOK, Ask
    <3>2. Head(queue) \in visited \ asked
      BY <1>1, <3>1 DEF IInv, Frontier, AskedOnce
    <3> QED
      BY <2>1, <3>2 DEF Ask, Progress
  <2>2. CASE \E loc \in locs : SkipHidden(loc) \/ SkipUnreadable(loc) \/ Resolve(loc)
    BY <2>2 DEF SkipHidden, SkipUnreadable, Resolve, Progress
  <2>3. CASE Finish
    BY <2>3 DEF Finish, Progress
  <2>4. CASE Returned
    BY <1>1, <2>4 DEF Returned
  <2> QED
    BY <1>1, <2>1, <2>2, <2>3, <2>4 DEF Next
<1>2. IInv /\ [Next]_vars => [Progress]_vars
  BY <1>1
<1> QED
  BY <1>2, Invariance, PTL DEF Spec
=============================================================================
