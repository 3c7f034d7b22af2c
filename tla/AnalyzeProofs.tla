---------------------------- MODULE AnalyzeProofs ----------------------------
(***************************************************************************)
(* Proofs about Analyze, for any languages, files, symbols, exclusions and *)
(* references, and a server that refuses or dies between any two calls.    *)
(***************************************************************************)
EXTENDS Analyze, Naturals, TLAPS

USE AnalyzeAssumption

Working == pc \in {"initialize", "indexing", "pass1", "symbols", "pass2"}

Kept(f) == SymbolsOf[f] \ ExcludedSymbols

\* The loops run over the current language, which is no longer among those left.
Control ==
  /\ result # "none" => pc = "returned"
  /\ Working => now \in Langs \ left
  /\ pc \in {"pass1", "symbols"} => todo \subseteq FilesOf[now]
  /\ pc = "symbols" => file \in FilesOf[now] \cap fileNodes
  /\ pc = "pass2" => todo \subseteq collected

\* fileSymbols holds symbols of the current language, and they are nodes.
CollectedHere ==
  Working => /\ collected \subseteq symNodes
             /\ \A s \in collected : \E f \in FilesOf[now] : s \in Kept(f)

\* The graph is closed at all times, and pruned in the end.
GraphClosed ==
  /\ \A e \in references : e[1] \in symNodes /\ e[2] \in symNodes
  /\ \A s \in symNodes : \E f \in fileNodes : s \in SymbolsOf[f]
  /\ defines = {e \in fileNodes \X symNodes : e[2] \in SymbolsOf[e[1]]}

PrunedAtEnd ==
  result = "graph" => /\ left = {}
                      /\ \A s \in symNodes : \E e \in references : s \in {e[1], e[2]}

\* All edges to s within language l are in the graph.
FoundTo(s, l) ==
  \A f, g \in FilesOf[l] : \A c \in Kept(f) :
    f # g /\ s \in Kept(g) /\ [file |-> f, caller |-> c] \in refs[s] => <<c, s>> \in references

LangComplete(l) == FilesOf[l] \subseteq fileNodes /\ \A s \in Symbols : FoundTo(s, l)

FileCollected(f) == f \in fileNodes /\ Kept(f) \subseteq collected

\* Without a failure, nothing is missing behind the point the loops have reached.
NothingMissed ==
  failures = {} /\ result # "error" =>
    /\ \A l \in Langs \ left : (Working /\ l = now) \/ LangComplete(l)
    /\ pc = "pass1" => \A f \in FilesOf[now] \ todo : FileCollected(f)
    /\ pc = "symbols" => \A f \in FilesOf[now] \ todo : f = file \/ FileCollected(f)
    /\ pc = "pass2" => /\ \A f \in FilesOf[now] : FileCollected(f)
                       /\ \A s \in Symbols \ todo : FoundTo(s, now)

IInv ==
  /\ TypeOK
  /\ Control
  /\ CollectedHere
  /\ GraphClosed
  /\ PrunedAtEnd
  /\ NothingMissed
  /\ EdgesAreReal
  /\ OneDocumentOpen

-----------------------------------------------------------------------------
\* The files of a language are files, and the symbols of a file are symbols.
LEMMA FilesAndSymbols ==
  /\ \A l \in Langs : FilesOf[l] \subseteq Files
  /\ \A f \in Files : SymbolsOf[f] \subseteq Symbols
BY DEF Files, Symbols

\* While the graph grows, what was complete remains so.
LEMMA CompleteStays ==
  ASSUME refs' = refs, references \subseteq references', fileNodes \subseteq fileNodes'
  PROVE  /\ \A l \in Langs : LangComplete(l) => LangComplete(l)'
         /\ \A l \in Langs, s \in Symbols : FoundTo(s, l) => FoundTo(s, l)'
<1>1. ASSUME NEW l \in Langs, NEW s \in Symbols, FoundTo(s, l)
      PROVE  FoundTo(s, l)'
  BY <1>1 DEF FoundTo, Kept
<1> QED
  BY <1>1 DEF LangComplete

\* A step that leaves the graph alone keeps it closed and its edges real.
LEMMA GraphStays ==
  ASSUME GraphClosed, EdgesAreReal, UNCHANGED <<refs, graphVars>>
  PROVE  GraphClosed' /\ EdgesAreReal'
BY DEF graphVars, GraphClosed, EdgesAreReal, TrueEdge

LEMMA IInvInit == Init => IInv
<1> SUFFICES ASSUME Init
             PROVE  IInv
  OBVIOUS
<1>1. TypeOK
  BY DEF Init, TypeOK
<1>2. Control /\ CollectedHere /\ PrunedAtEnd /\ NothingMissed
  BY DEF Init, Control, Working, CollectedHere, PrunedAtEnd, NothingMissed
<1>3. GraphClosed /\ EdgesAreReal /\ OneDocumentOpen
  BY DEF Init, GraphClosed, EdgesAreReal, OneDocumentOpen
<1> QED
  BY <1>1, <1>2, <1>3 DEF IInv

\* Returning an error keeps the invariant.
LEMMA FailKeeps == ASSUME IInv, Fail PROVE IInv'
<1> USE DEF Fail, LeaveLang, loopVars, graphVars
<1>1. TypeOK' /\ OneDocumentOpen'
  BY DEF IInv, TypeOK, OneDocumentOpen
<1>2. Control' /\ CollectedHere' /\ PrunedAtEnd' /\ NothingMissed'
  BY DEF IInv, Control, Working, CollectedHere, PrunedAtEnd, NothingMissed
<1>3. GraphClosed' /\ EdgesAreReal'
  BY GraphStays DEF IInv
<1> QED
  BY <1>1, <1>2, <1>3 DEF IInv

LEMMA StartLangKeeps == ASSUME IInv, StartLang PROVE IInv'
<1>1. CASE Fail
  BY <1>1, FailKeeps
<1>2. CASE ~Fail
  <2>1. /\ pc = "next" /\ now' \in left /\ left' = left \ {now'}
        /\ todo' = todo /\ collected' = {} /\ pc' = "initialize" /\ server' = "up"
        /\ UNCHANGED <<refs, file, cancelled, openDocs, graphVars, failures, result>>
    BY <1>2 DEF StartLang
  <2> USE DEF graphVars
  <2>2. TypeOK'
    BY <2>1 DEF IInv, TypeOK
  <2>3. Control' /\ CollectedHere' /\ PrunedAtEnd' /\ OneDocumentOpen'
    BY <2>1 DEF IInv, TypeOK, Control, Working, CollectedHere, PrunedAtEnd, OneDocumentOpen
  <2>4. NothingMissed'
    <3>1. \A l \in Langs : LangComplete(l) => LangComplete(l)'
      BY <2>1, CompleteStays
    <3> QED
      BY <2>1, <3>1 DEF IInv, TypeOK, NothingMissed, Working
  <2>5. GraphClosed' /\ EdgesAreReal'
    BY <2>1, GraphStays DEF IInv
  <2> QED
    BY <2>2, <2>3, <2>4, <2>5 DEF IInv
<1> QED
  BY <1>1, <1>2

LEMMA InitializeKeeps == ASSUME IInv, Initialize PROVE IInv'
<1>1. CASE Fail
  BY <1>1, FailKeeps
<1>2. CASE ~Fail
  <2>1. /\ pc = "initialize" /\ pc' = "indexing"
        /\ UNCHANGED <<refs, loopVars, serverVars, openDocs, graphVars, failures, result>>
    BY <1>2 DEF Initialize
  <2> USE DEF loopVars, serverVars, graphVars
  <2>2. TypeOK'
    BY <2>1 DEF IInv, TypeOK
  <2>3. Control' /\ CollectedHere' /\ PrunedAtEnd' /\ OneDocumentOpen'
    BY <2>1 DEF IInv, Control, Working, CollectedHere, PrunedAtEnd, OneDocumentOpen, Kept
  <2>4. NothingMissed'
    <3>1. \A l \in Langs : LangComplete(l) => LangComplete(l)'
      BY <2>1, CompleteStays
    <3> QED
      BY <2>1, <3>1 DEF IInv, NothingMissed, Working
  <2>5. GraphClosed' /\ EdgesAreReal'
    BY <2>1, GraphStays DEF IInv
  <2> QED
    BY <2>2, <2>3, <2>4, <2>5 DEF IInv
<1> QED
  BY <1>1, <1>2

LEMMA IndexedKeeps == ASSUME IInv, Indexed PROVE IInv'
<1>1. CASE Fail
  BY <1>1, FailKeeps
<1>2. CASE ~Fail
  <2>1. /\ pc = "indexing" /\ pc' = "pass1" /\ todo' = FilesOf[now]
        /\ UNCHANGED <<refs, left, now, file, collected, serverVars, openDocs, graphVars,
                       failures, result>>
    BY <1>2 DEF Indexed
  <2> USE DEF serverVars, graphVars
  <2>2. TypeOK'
    BY <2>1, FilesAndSymbols DEF IInv, TypeOK
  <2>3. Control' /\ CollectedHere' /\ PrunedAtEnd' /\ OneDocumentOpen'
    BY <2>1 DEF IInv, Control, Working, CollectedHere, PrunedAtEnd, OneDocumentOpen, Kept
  <2>4. NothingMissed'
    <3>1. \A l \in Langs : LangComplete(l) => LangComplete(l)'
      BY <2>1, CompleteStays
    <3> QED
      BY <2>1, <3>1 DEF IInv, NothingMissed, Working
  <2>5. GraphClosed' /\ EdgesAreReal'
    BY <2>1, GraphStays DEF IInv
  <2> QED
    BY <2>2, <2>3, <2>4, <2>5 DEF IInv
<1> QED
  BY <1>1, <1>2

LEMMA OpenFileKeeps == ASSUME IInv, NEW f \in Files, OpenFile(f) PROVE IInv'
<1>1. TypeOK'
  BY DEF IInv, TypeOK, OpenFile, serverVars
<1>2. Control' /\ CollectedHere' /\ PrunedAtEnd' /\ OneDocumentOpen'
  BY DEF IInv, OpenFile, TypeOK, Control, Working, CollectedHere, PrunedAtEnd,
         OneDocumentOpen, Kept
<1>3. GraphClosed'
  <2>1. \A s \in symNodes : s \in SymbolsOf[f] => f \in fileNodes
    BY DEF IInv, GraphClosed, TypeOK
  <2> QED
    BY <2>1 DEF IInv, GraphClosed, OpenFile
<1>4. EdgesAreReal'
  BY DEF IInv, EdgesAreReal, TrueEdge, OpenFile
<1>5. NothingMissed'
  <2>1. \A l \in Langs : LangComplete(l) => LangComplete(l)'
    BY CompleteStays DEF OpenFile
  <2> QED
    BY <2>1 DEF IInv, NothingMissed, OpenFile, Working, FileCollected, Kept
<1> QED
  BY <1>1, <1>2, <1>3, <1>4, <1>5 DEF IInv

LEMMA CollectSymbolsKeeps ==
  ASSUME IInv, NEW r \in Outcomes, CollectSymbols(r)
  PROVE  IInv'
<1> DEFINE found == IF r = "answer" THEN Kept(file) ELSE {}
<1>1. /\ pc = "symbols" /\ pc' = "pass1"
      /\ openDocs' = openDocs \ {file}
      /\ collected' = collected \cup found
      /\ symNodes' = symNodes \cup found
      /\ defines' = defines \cup ({file} \X found)
      /\ failures' = failures \cup (IF r = "answer" THEN {} ELSE {"symbols"})
      /\ server' \in {"up", "mute", "down"}
      /\ UNCHANGED <<refs, left, now, file, todo, cancelled, fileNodes, references, result>>
  BY DEF IInv, TypeOK, CollectSymbols, CallReturns, StillOpen, Kept
<1>2. file \in FilesOf[now] /\ file \in fileNodes /\ now \in Langs /\ file \in Files
  BY <1>1, FilesAndSymbols DEF IInv, Control, Working
<1>3. found \subseteq Kept(file) /\ found \subseteq SymbolsOf[file] /\ found \subseteq Symbols
  BY <1>2, FilesAndSymbols DEF Kept
<1> HIDE DEF found
<1>4. TypeOK'
  BY <1>1, <1>2, <1>3 DEF IInv, TypeOK
<1>5. Control' /\ CollectedHere' /\ PrunedAtEnd' /\ OneDocumentOpen'
  BY <1>1, <1>2, <1>3 DEF IInv, Control, Working, CollectedHere, PrunedAtEnd,
     OneDocumentOpen, Kept
<1>6. GraphClosed'
  <2>1. \A s \in found, f \in fileNodes : s \in SymbolsOf[f] => f = file
    BY <1>2, <1>3 DEF IInv, TypeOK
  <2> QED
    BY <1>1, <1>2, <1>3, <2>1 DEF IInv, GraphClosed
<1>7. EdgesAreReal'
  BY <1>1 DEF IInv, EdgesAreReal, TrueEdge
<1>8. NothingMissed'
  <2> SUFFICES ASSUME failures' = {}, result' # "error"
               PROVE  NothingMissed'
    BY DEF NothingMissed
  <2>1. \A l \in Langs : LangComplete(l) => LangComplete(l)'
    BY <1>1, CompleteStays
  <2>2. r = "answer" /\ failures = {}
    BY <1>1
  <2>3. Kept(file) \subseteq collected'
    BY <1>1, <2>2 DEF found
  <2> QED
    BY <1>1, <1>2, <2>1, <2>2, <2>3 DEF IInv, NothingMissed, Working, FileCollected, Kept
<1> QED
  BY <1>4, <1>5, <1>6, <1>7, <1>8 DEF IInv

LEMMA OpenAllKeeps == ASSUME IInv, OpenAll PROVE IInv'
<1>1. /\ pc = "pass1" /\ todo = {}
      /\ UNCHANGED <<refs, left, now, file, collected, cancelled, graphVars, result>>
  BY DEF OpenAll
<1>2. now \in Langs
  BY <1>1 DEF IInv, Control, Working
<1>3. GraphClosed' /\ EdgesAreReal'
  BY <1>1, GraphStays DEF IInv
<1>4. \A l \in Langs : LangComplete(l) => LangComplete(l)'
  BY <1>1, CompleteStays DEF graphVars
<1>5. CASE pc' = "pass2"
  <2>1. todo' = collected /\ openDocs' \in SUBSET FilesOf[now] /\ UNCHANGED <<server, failures>>
    BY <1>5 DEF OpenAll
  <2>2. TypeOK'
    BY <1>1, <1>2, <1>5, <2>1, FilesAndSymbols DEF IInv, TypeOK, graphVars
  <2>3. Control' /\ CollectedHere' /\ PrunedAtEnd' /\ OneDocumentOpen'
    BY <1>1, <1>5, <2>1 DEF IInv, Control, Working, CollectedHere, PrunedAtEnd,
       OneDocumentOpen, graphVars, Kept
  <2>4. NothingMissed'
    <3> SUFFICES ASSUME failures' = {}, result' # "error"
                 PROVE  NothingMissed'
      BY DEF NothingMissed
    <3>1. \A f \in FilesOf[now] : FileCollected(f)
      BY <1>1, <2>1 DEF IInv, NothingMissed
    <3>2. \A s \in Symbols \ collected : FoundTo(s, now)'
      BY <1>1, <3>1 DEF FoundTo, FileCollected, Kept
    <3> QED
      BY <1>1, <1>4, <1>5, <2>1, <3>1, <3>2
         DEF IInv, NothingMissed, Working, FileCollected, Kept, graphVars
  <2> QED
    BY <1>3, <2>2, <2>3, <2>4 DEF IInv
<1>6. CASE pc' # "pass2"
  <2>1. /\ pc' = "next" /\ LeaveLang /\ failures' = failures \cup {"references"}
        /\ UNCHANGED todo
    BY <1>6 DEF OpenAll
  <2>2. TypeOK'
    BY <1>1, <2>1 DEF IInv, TypeOK, graphVars, LeaveLang
  <2>3. Control' /\ CollectedHere' /\ PrunedAtEnd' /\ OneDocumentOpen' /\ NothingMissed'
    BY <1>1, <2>1 DEF IInv, Control, Working, CollectedHere, PrunedAtEnd,
       OneDocumentOpen, NothingMissed, LeaveLang
  <2> QED
    BY <1>3, <2>2, <2>3 DEF IInv
<1> QED
  BY <1>5, <1>6

LEMMA ResolveKeeps ==
  ASSUME IInv, NEW s \in Symbols, NEW r \in Outcomes, Resolve(s, r)
  PROVE  IInv'
<1> DEFINE new == IF r = "answer" THEN EdgesTo(s) ELSE {}
<1>1. /\ pc = "pass2" /\ s \in todo /\ todo' = todo \ {s}
      /\ references' = references \cup new
      /\ failures' \subseteq failures \cup {"references", "dead"}
      /\ failures \subseteq failures'
      /\ r # "answer" => "references" \in failures'
      /\ server' \in {"up", "mute", "down"}
      /\ UNCHANGED <<refs, pc, left, now, file, collected, cancelled, openDocs, fileNodes,
                     symNodes, defines, result>>
  BY DEF IInv, TypeOK, Resolve, CallReturns
<1>2. now \in Langs /\ s \in collected
  BY <1>1 DEF IInv, Control, Working
<1>3. PICK g \in FilesOf[now] : s \in Kept(g)
  BY <1>1, <1>2 DEF IInv, CollectedHere, Working
<1>4. \A e \in new : e[2] = s /\ e[1] \in collected /\ e = <<e[1], e[2]>>
                     /\ \E loc \in refs[s] : loc.caller = e[1] /\ s \notin SymbolsOf[loc.file]
  BY DEF EdgesTo
<1>5. collected \subseteq symNodes /\ symNodes \subseteq Symbols
  BY <1>1 DEF IInv, CollectedHere, Working, TypeOK
<1>6. \A e \in new : TrueEdge(e[1], e[2])
  <2> SUFFICES ASSUME NEW e \in new
               PROVE  TrueEdge(e[1], s)
    BY <1>4
  <2>1. PICK loc \in refs[s] : loc.caller = e[1] /\ s \notin SymbolsOf[loc.file]
    BY <1>4
  <2>2. PICK f \in FilesOf[now] : e[1] \in Kept(f)
    BY <1>1, <1>4 DEF IInv, CollectedHere, Working
  <2>3. loc \in Locations
    BY DEF IInv, TypeOK
  <2>4. e[1] \in SymbolsOf[loc.file] /\ loc.file \in Files /\ e[1] # NoSymbol
    BY <1>4, <1>5, <2>1, <2>3 DEF Locations
  <2>5. loc.file = f /\ f # g
    BY <1>2, <1>3, <2>1, <2>2, <2>4, FilesAndSymbols DEF Kept
  <2>6. loc = [file |-> f, caller |-> e[1]]
    BY <2>1, <2>3, <2>5 DEF Locations
  <2> QED
    BY <1>2, <1>3, <2>2, <2>5, <2>6 DEF TrueEdge, Kept
<1>7. failures' = {} => FoundTo(s, now)'
  <2> SUFFICES ASSUME failures' = {}, result # "error",
                      NEW f \in FilesOf[now], NEW h \in FilesOf[now], NEW c \in Kept(f),
                      f # h, s \in Kept(h), [file |-> f, caller |-> c] \in refs[s]
               PROVE  <<c, s>> \in references'
    BY <1>1 DEF IInv, FoundTo, Kept, Control
  <2>1. r = "answer" /\ failures = {}
    BY <1>1
  <2>2. c \in collected
    BY <1>1, <2>1 DEF IInv, NothingMissed, FileCollected
  <2>3. s \notin SymbolsOf[f]
    BY <1>2, FilesAndSymbols DEF Kept
  <2>4. <<c, s>> \in EdgesTo(s)
    BY <2>2, <2>3 DEF EdgesTo
  <2> QED
    BY <1>1, <2>1, <2>4
<1> HIDE DEF new
<1>8. TypeOK'
  <2>1. new \subseteq Symbols \X Symbols
    BY <1>4, <1>5
  <2> QED
    BY <1>1, <2>1 DEF IInv, TypeOK
<1>9. Control' /\ CollectedHere' /\ PrunedAtEnd' /\ OneDocumentOpen'
  BY <1>1 DEF IInv, Control, Working, CollectedHere, PrunedAtEnd, OneDocumentOpen, Kept
<1>10. GraphClosed'
  BY <1>1, <1>2, <1>4, <1>5 DEF IInv, GraphClosed
<1>11. EdgesAreReal'
  BY <1>1, <1>6 DEF IInv, EdgesAreReal, TrueEdge
<1>12. NothingMissed'
  <2>1. /\ \A l \in Langs : LangComplete(l) => LangComplete(l)'
        /\ \A l \in Langs, t \in Symbols : FoundTo(t, l) => FoundTo(t, l)'
    BY <1>1, CompleteStays
  <2> QED
    BY <1>1, <1>2, <1>7, <2>1 DEF IInv, NothingMissed, Working, FileCollected, Kept
<1> QED
  BY <1>8, <1>9, <1>10, <1>11, <1>12 DEF IInv

LEMMA LangDoneKeeps == ASSUME IInv, LangDone PROVE IInv'
<1>1. /\ pc = "pass2" /\ todo = {} /\ pc' = "next" /\ LeaveLang
      /\ UNCHANGED <<refs, loopVars, cancelled, graphVars, failures, result>>
  BY DEF LangDone
<1>2. TypeOK'
  BY <1>1 DEF IInv, TypeOK, loopVars, graphVars, LeaveLang
<1>3. Control' /\ CollectedHere' /\ PrunedAtEnd' /\ OneDocumentOpen'
  BY <1>1 DEF IInv, Control, Working, CollectedHere, PrunedAtEnd, OneDocumentOpen,
     loopVars, graphVars, LeaveLang
<1>4. GraphClosed' /\ EdgesAreReal'
  BY <1>1, GraphStays DEF IInv
<1>5. NothingMissed'
  <2>1. \A l \in Langs : LangComplete(l) => LangComplete(l)'
    BY <1>1, CompleteStays DEF graphVars
  <2>2. failures = {} /\ result # "error" => LangComplete(now)
    BY <1>1 DEF IInv, NothingMissed, LangComplete, FileCollected
  <2> QED
    BY <1>1, <2>1, <2>2 DEF IInv, NothingMissed, Working, loopVars
<1> QED
  BY <1>2, <1>3, <1>4, <1>5 DEF IInv

LEMMA PruneKeeps == ASSUME IInv, Prune PROVE IInv'
<1> USE DEF Prune, loopVars, serverVars
<1>1. TypeOK'
  BY DEF IInv, TypeOK
<1>2. Control' /\ CollectedHere' /\ OneDocumentOpen'
  BY DEF IInv, Control, Working, CollectedHere, OneDocumentOpen
<1>3. \A t : t \in Referring(references) <=> \E e \in references : t \in {e[1], e[2]}
  BY DEF Referring
<1>4. PrunedAtEnd'
  BY <1>3 DEF PrunedAtEnd
<1>5. GraphClosed'
  BY <1>3 DEF IInv, GraphClosed
<1>6. EdgesAreReal'
  BY DEF IInv, EdgesAreReal, TrueEdge
<1>7. NothingMissed'
  <2>1. \A l \in Langs : LangComplete(l) => LangComplete(l)'
    BY CompleteStays
  <2> QED
    BY <2>1 DEF IInv, NothingMissed, Control, Working
<1> QED
  BY <1>1, <1>2, <1>4, <1>5, <1>6, <1>7 DEF IInv

\* The server's failures, the cancellation and stuttering change nothing the
\* invariant speaks of.
LEMMA EnvironmentKeeps ==
  ASSUME IInv, ServerDies \/ BreakFrame \/ Cancel \/ UNCHANGED vars
  PROVE  IInv'
<1>1. /\ UNCHANGED <<refs, pc, loopVars, openDocs, graphVars, failures, result>>
      /\ server' \in {"up", "mute", "down"} /\ cancelled' \in BOOLEAN
  BY DEF ServerDies, BreakFrame, Cancel, vars, serverVars, IInv, TypeOK
<1>2. TypeOK'
  BY <1>1 DEF IInv, TypeOK, loopVars, graphVars
<1>3. Control' /\ CollectedHere' /\ PrunedAtEnd' /\ OneDocumentOpen'
  BY <1>1 DEF IInv, Control, Working, CollectedHere, PrunedAtEnd, OneDocumentOpen,
     loopVars, graphVars, Kept
<1>4. GraphClosed' /\ EdgesAreReal'
  BY <1>1, GraphStays DEF IInv
<1>5. NothingMissed'
  BY <1>1 DEF IInv, NothingMissed, LangComplete, FileCollected, FoundTo, Kept, Working,
     loopVars, graphVars
<1> QED
  BY <1>2, <1>3, <1>4, <1>5 DEF IInv

LEMMA IInvStep == IInv /\ [Next]_vars => IInv'
<1> SUFFICES ASSUME IInv, [Next]_vars
             PROVE  IInv'
  OBVIOUS
<1>1. CASE StartLang
  BY <1>1, StartLangKeeps
<1>2. CASE \E f \in Files : OpenFile(f)
  BY <1>2, OpenFileKeeps
<1>3. CASE \E r \in Outcomes : CollectSymbols(r)
  BY <1>3, CollectSymbolsKeeps
<1>4. CASE \E r \in Outcomes : \E s \in Symbols : Resolve(s, r)
  BY <1>4, ResolveKeeps
<1>5. CASE OpenAll
  BY <1>5, OpenAllKeeps
<1>6. CASE AbortCancelled \/ AbortClosed
  BY <1>6, FailKeeps DEF AbortCancelled, AbortClosed
<1>7. CASE LangDone
  BY <1>7, LangDoneKeeps
<1>8. CASE Prune
  BY <1>8, PruneKeeps
<1>9. CASE ServerDies \/ BreakFrame \/ Cancel \/ Returned \/ UNCHANGED vars
  BY <1>9, EnvironmentKeeps DEF Returned
<1>10. CASE Initialize \/ Indexed
  BY <1>10, InitializeKeeps, IndexedKeeps
<1> QED
  BY <1>1, <1>2, <1>3, <1>4, <1>5, <1>6, <1>7, <1>8, <1>9, <1>10 DEF Next

LEMMA Invariance == Spec => []IInv
BY IInvInit, IInvStep, PTL DEF Spec

-----------------------------------------------------------------------------
\* The analysis is type correct: it works on detected languages, and every node and
\* edge of the graph builder is of their files and symbols.
THEOREM TypeCorrect == Spec => []TypeOK
<1>1. IInv => TypeOK
  BY DEF IInv
<1> QED
  BY <1>1, Invariance, PTL

\* No references edge is invented, whatever the servers refuse and whenever they die.
THEOREM EdgesAreRealHolds == Spec => []EdgesAreReal
<1>1. IInv => EdgesAreReal
  BY DEF IInv
<1> QED
  BY <1>1, Invariance, PTL

\* The graph that is returned is closed and pruned, also when calls failed.
THEOREM GraphWellFormedHolds == Spec => []GraphWellFormed
<1>1. IInv => GraphWellFormed
  BY DEF IInv, TypeOK, GraphClosed, PrunedAtEnd, GraphWellFormed
<1> QED
  BY <1>1, Invariance, PTL

\* The two passes lose nothing: without a failed call the graph has every file and
\* every cross-file reference within a language.
THEOREM CompleteUnlessFailedHolds == Spec => []CompleteUnlessFailed
<1>1. IInv => CompleteUnlessFailed
  <2> SUFFICES ASSUME IInv, result = "graph", failures = {}
               PROVE  /\ fileNodes = Files
                      /\ \A c, s \in Symbols : TrueEdge(c, s) => <<c, s>> \in references
    BY DEF CompleteUnlessFailed
  <2>1. \A l \in Langs : LangComplete(l)
    BY DEF IInv, Control, Working, PrunedAtEnd, NothingMissed
  <2>2. fileNodes = Files
    BY <2>1 DEF IInv, TypeOK, LangComplete, Files
  <2>3. \A c, s \in Symbols : TrueEdge(c, s) => <<c, s>> \in references
    BY <2>1 DEF LangComplete, FoundTo, TrueEdge, Kept
  <2> QED
    BY <2>2, <2>3
<1> QED
  BY <1>1, Invariance, PTL

\* The first pass has one document open at most, and none is left open.
THEOREM OneDocumentOpenHolds == Spec => []OneDocumentOpen
<1>1. IInv => OneDocumentOpen
  BY DEF IInv
<1> QED
  BY <1>1, Invariance, PTL

-----------------------------------------------------------------------------
\* What Analyze needs nobody for. A call to a server that is gone fails at once and is
\* skipped in the passes; a cancelled context kills the server and ends the analysis, and
\* is the only one of the two that waitForIdle looks at.
CanGoOn ==
  \/ pc = "next"
  \/ pc = "indexing" /\ cancelled
  \/ /\ server = "down" \/ cancelled
     /\ \/ pc \in {"initialize", "symbols"}
        \/ pc = "pass1" /\ (todo = {} \/ todo \cap Files # {})
        \/ pc = "pass2" /\ (todo = {} \/ todo \cap Symbols # {})

\* A running server has been sent a request or a notification, and may leave it
\* unanswered or unread; or waitForIdle polls, perhaps the progress of a dead one.
HeldByServer ==
  /\ ~cancelled
  /\ pc = "indexing" \/ (server # "down" /\ pc \in {"initialize", "pass1", "symbols", "pass2"})

PassesLeft(at) ==
  CASE at = "initialize" -> 5
    [] at = "indexing" -> 4
    [] at \in {"pass1", "symbols"} -> 3
    [] at = "pass2" -> 2
    [] at = "next" -> 1
    [] OTHER -> 0

\* A step of Analyze leaves fewer languages, or fewer passes of this one, or fewer files
\* or symbols of this pass, or one call less for this file.
ComesCloser ==
  \/ \E l \in left : left' = left \ {l}
  \/ /\ left' = left
     /\ \/ PassesLeft(pc') < PassesLeft(pc)
        \/ /\ PassesLeft(pc') = PassesLeft(pc)
           /\ \E next \in todo : todo' = todo \ {next}
        \/ pc = "symbols" /\ pc' = "pass1" /\ todo' = todo

Environment == (ServerDies \/ BreakFrame \/ Cancel) /\ UNCHANGED <<pc, left, todo>>

\* Nothing but a server keeps Analyze from returning: one that runs and does not answer or
\* read, or one that died with a progress phase open, which waitForIdle waits for. In all
\* other states it can go on, however calls fail, and each of its steps leaves less to do:
\* with finitely many languages, files and symbols they run out.
THEOREM AnalysisProgress ==
  Spec => [](pc = "returned" \/ CanGoOn \/ HeldByServer) /\ [][ComesCloser \/ Environment]_vars
<1>1. IInv => pc = "returned" \/ CanGoOn \/ HeldByServer
  <2> SUFFICES ASSUME IInv, pc # "returned"
               PROVE  CanGoOn \/ HeldByServer
    OBVIOUS
  <2>1. /\ pc \in {"next", "initialize", "indexing", "pass1", "symbols", "pass2"}
        /\ pc = "pass1" => todo \subseteq Files
        /\ pc = "pass2" => todo \subseteq Symbols
    BY DEF IInv, TypeOK, Control, Working, Files
  <2> QED
    BY <2>1 DEF CanGoOn, HeldByServer
<1>2. IInv /\ [Next]_vars => [ComesCloser \/ Environment]_vars
  <2> SUFFICES ASSUME IInv, Next, ~UNCHANGED vars
               PROVE  ComesCloser \/ Environment
    OBVIOUS
  <2> USE DEF PassesLeft, ComesCloser, loopVars, Fail
  <2>1. CASE StartLang \/ Initialize \/ Indexed
    BY <2>1 DEF StartLang, Initialize, Indexed
  <2>2. ASSUME NEW f \in Files, OpenFile(f)
        PROVE  ComesCloser
    BY <2>2 DEF OpenFile
  <2>3. ASSUME NEW r \in Outcomes, CollectSymbols(r)
        PROVE  ComesCloser
    BY <2>3 DEF CollectSymbols
  <2>4. ASSUME NEW r \in Outcomes, NEW s \in Symbols, Resolve(s, r)
        PROVE  ComesCloser
    BY <2>4 DEF Resolve
  <2>5. CASE OpenAll \/ LangDone
    BY <2>5 DEF OpenAll, LangDone
  <2>6. CASE AbortCancelled \/ AbortClosed
    BY <2>6 DEF AbortCancelled, AbortClosed
  <2>7. CASE Prune
    BY <2>7 DEF Prune
  <2>8. CASE ServerDies \/ BreakFrame \/ Cancel
    BY <2>8 DEF ServerDies, BreakFrame, Cancel, Environment
  <2> QED
    BY <2>1, <2>2, <2>3, <2>4, <2>5, <2>6, <2>7, <2>8 DEF Next, Returned
<1> QED
  BY <1>1, <1>2, Invariance, PTL DEF Spec
=============================================================================
