-------------------------- MODULE SequentialProofs --------------------------
(***************************************************************************)
(* Proofs about the sequential parts, which MCSequential checks side by    *)
(* side: Symbols, Startup, SourceTree and StderrTail. They hold for any    *)
(* documents, names, files and capacity, and for inputs of any size.       *)
(*                                                                         *)
(* What a loop or a recursive function computes is proved by induction     *)
(* over a set: the numbers up to n that the claim holds of.                *)
(***************************************************************************)
EXTENDS Symbols, Startup, SourceTree, StderrTail, FiniteSetTheorems,
        WellFoundedInduction, TLAPS

-----------------------------------------------------------------------------
\* The least number principle, over sets.
LEMMA Least ==
  ASSUME NEW T \in SUBSET Nat, T # {}
  PROVE  \E n \in T : \A m \in T : n <= m
<1> DEFINE R == OpToRel(<, Nat)
<1>1. IsWellFoundedOn(R, Nat)
  BY NatLessThanWellFounded
<1>2. \A x, y \in Nat : x < y => <<x, y>> \in R
  BY DEF OpToRel
<1> HIDE DEF R
<1>3. PICK n \in T : \A m \in T : <<m, n>> \notin R
  BY <1>1, WFMin
<1>4. \A m \in T : m \in Nat /\ n \in Nat /\ ~(m < n)
  BY <1>2, <1>3
<1> QED
  BY <1>4

\* Induction up to n: T is the set of the numbers the claim holds of.
LEMMA Induct ==
  ASSUME NEW n \in Nat, NEW T, 0 \in T,
         \A i \in 1..n : i - 1 \in T => i \in T
  PROVE  \A i \in 0..n : i \in T
<1> DEFINE U == {i \in 0..n : i \notin T}
<1> SUFFICES ASSUME U # {}
             PROVE  FALSE
  OBVIOUS
<1>1. PICK i \in U : \A j \in U : i <= j
  <2>1. U \in SUBSET Nat
    OBVIOUS
  <2> HIDE DEF U
  <2> QED
    BY <2>1, Least
<1>2. i \in 1..n /\ i - 1 \in 0..n /\ i - 1 \notin U
  BY <1>1
<1> QED
  BY <1>1, <1>2

\* A recursive definition has a solution if the value at d, unless it is a base case, is
\* made from the value at prev[d], of lower rank.
HasSolution(D, S, prev, base, start, step) ==
  \E g \in [D -> S] : \A d \in D :
    g[d] = IF d \in base THEN start[d] ELSE step[d][g[prev[d]]]

LEMMA Recursion ==
  ASSUME NEW n \in Nat, NEW D, NEW S, NEW rank \in [D -> 0..n], NEW prev \in [D -> D],
         NEW base \in SUBSET D, NEW start \in [D -> S], NEW step \in [D -> [S -> S]],
         \A d \in D \ base : rank[prev[d]] < rank[d]
  PROVE  HasSolution(D, S, prev, base, start, step)
<1> DEFINE Solves(g, d) == g[d] = IF d \in base THEN start[d] ELSE step[d][g[prev[d]]]
           T == {k \in 0..(n + 1) :
                   \E g \in [D -> S] : \A d \in D : rank[d] < k => Solves(g, d)}
<1>1. 0 \in T
  OBVIOUS
<1>2. ASSUME NEW k \in 1..(n + 1), k - 1 \in T
      PROVE  k \in T
  <2>1. PICK g \in [D -> S] : \A d \in D : rank[d] < k - 1 => Solves(g, d)
    BY <1>2
  <2> DEFINE h == [d \in D |-> IF d \in base THEN start[d] ELSE step[d][g[prev[d]]]]
  <2>2. h \in [D -> S]
    OBVIOUS
  <2>3. ASSUME NEW d \in D, rank[d] < k
        PROVE  Solves(h, d)
    <3>1. CASE d \in base
      BY <3>1
    <3>2. CASE d \notin base
      <4>1. prev[d] \in D /\ rank[prev[d]] < k - 1
        BY <2>3, <3>2
      <4>2. Solves(g, prev[d])
        BY <2>1, <4>1
      <4>3. g[prev[d]] = h[prev[d]]
        BY <4>1, <4>2
      <4> QED
        BY <3>2, <4>3
    <3> QED
      BY <3>1, <3>2
  <2> HIDE DEF h
  <2>4. k \in 0..(n + 1)
    OBVIOUS
  <2> QED
    BY <2>2, <2>3, <2>4
<1>3. n + 1 \in T
  <2> DEFINE m == n + 1
  <2>1. m \in Nat /\ m \in 0..m
    OBVIOUS
  <2>2. \A k \in 1..m : k - 1 \in T => k \in T
    BY <1>2
  <2> HIDE DEF T, m
  <2>3. \A k \in 0..m : k \in T
    BY <1>1, <2>1, <2>2, Induct
  <2> QED
    BY <2>1, <2>3 DEF m
<1>4. PICK g \in [D -> S] : \A d \in D : rank[d] < n + 1 => Solves(g, d)
  BY <1>3
<1>5. \A d \in D : rank[d] < n + 1
  OBVIOUS
<1>6. \A d \in D : g[d] = IF d \in base THEN start[d] ELSE step[d][g[prev[d]]]
  BY <1>4, <1>5
<1> HIDE DEF T, Solves
<1> QED
  BY <1>6 DEF HasSolution

\* A loop over 1..n.
HasRun(n, S, a, step) ==
  \E g \in [0..n -> S] : g[0] = a /\ \A i \in 1..n : g[i] = step[i][g[i - 1]]

LEMMA Loop ==
  ASSUME NEW n \in Nat, NEW S, NEW a \in S, NEW step \in [0..n -> [S -> S]]
  PROVE  HasRun(n, S, a, step)
<1> DEFINE D == 0..n
           rank == [i \in D |-> i]
           prev == [i \in D |-> IF i = 0 THEN 0 ELSE i - 1]
           start == [i \in D |-> a]
           base == {0}
<1>0. step \in [D -> [S -> S]]
  OBVIOUS
<1>1. rank \in [D -> 0..n] /\ prev \in [D -> D] /\ start \in [D -> S] /\ base \in SUBSET D
  OBVIOUS
<1>2. \A d \in D \ base : rank[prev[d]] < rank[d]
  OBVIOUS
<1>3. \A i \in D : /\ start[i] = a
                   /\ i \in 1..n <=> i # 0
                   /\ i \in base <=> i = 0
                   /\ i # 0 => prev[i] = i - 1
  OBVIOUS
<1>5. 0 \in D /\ \A i \in 1..n : i \in D
  OBVIOUS
<1> HIDE DEF D, rank, prev, start, base
<1>4. HasSolution(D, S, prev, base, start, step)
  BY <1>0, <1>1, <1>2, Recursion
<1>6. PICK g \in [D -> S] : \A d \in D :
        g[d] = IF d \in base THEN start[d] ELSE step[d][g[prev[d]]]
  BY <1>4 DEF HasSolution
<1>7. g[0] = a /\ \A i \in 1..n : g[i] = step[i][g[i - 1]]
  BY <1>3, <1>5, <1>6
<1> QED
  BY <1>7 DEF D, HasRun

-----------------------------------------------------------------------------
\* FuzzyMatch.

LEMMA PrefixGrows ==
  ASSUME NEW s \in Seq(Nat), NEW i \in 2..Len(s)
  PROVE  [k \in 1..(i - 1) |-> s[k]] \o <<s[i]>> = [k \in 1..i |-> s[k]]
<1>1. /\ Len(s) \in Nat /\ i \in Nat /\ i >= 2 /\ i <= Len(s)
      /\ \A k \in 1..Len(s) : s[k] \in Nat
  OBVIOUS
<1> DEFINE p == [k \in 1..(i - 1) |-> s[k]]
           c == p \o <<s[i]>>
<1>2. i - 1 \in Nat /\ \A k \in 1..(i - 1) : s[k] \in Nat
  BY <1>1
<1>3. p \in Seq(Nat) /\ Len(p) = i - 1 /\ \A k \in 1..(i - 1) : p[k] = s[k]
  BY <1>2
<1>4. <<s[i]>> \in Seq(Nat) /\ Len(<<s[i]>>) = 1 /\ <<s[i]>>[1] = s[i]
  BY <1>1
<1> HIDE DEF p
<1>5. /\ c \in Seq(Nat) /\ Len(c) = i
      /\ \A k \in 1..(i - 1) : c[k] = p[k]
      /\ c[i] = s[i]
  BY <1>1, <1>3, <1>4
<1>6. DOMAIN c = 1..i /\ c = [k \in DOMAIN c |-> c[k]]
  BY <1>1, <1>5, SMTT(30)
<1>7. \A k \in 1..i : c[k] = s[k]
  BY <1>1, <1>3, <1>5
<1> HIDE DEF c
<1>8. c = [k \in 1..i |-> s[k]]
  BY <1>6, <1>7
<1> QED
  BY <1>8 DEF c, p

LEMMA FlattenSingletons ==
  ASSUME NEW s \in Seq(Nat)
  PROVE  FlattenSeq([i \in 1..Len(s) |-> <<s[i]>>]) = s
<1> DEFINE seqs == [i \in 1..Len(s) |-> <<s[i]>>]
           prefix == [i \in 1..Len(s) |-> [k \in 1..i |-> s[k]]]
<1>1. Len(s) \in Nat /\ Len(seqs) = Len(s) /\ s = [k \in 1..Len(s) |-> s[k]]
  OBVIOUS
<1>2. \A i \in 1..Len(s) : seqs[i] = <<s[i]>> /\ prefix[i] = [k \in 1..i |-> s[k]]
  OBVIOUS
<1>3. Len(s) # 0 => prefix[Len(s)] = s
  BY <1>1
<1>4. DOMAIN prefix = 1..Len(s) /\ prefix = [i \in 1..Len(s) |-> prefix[i]]
  OBVIOUS
<1>5. Len(s) # 0 => prefix[1] = seqs[1]
  <2>1. <<s[1]>> = [k \in 1..1 |-> s[k]]
    OBVIOUS
  <2> QED
    BY <1>1, <1>2, <2>1
<1>6. \A i \in 2..Len(s) : prefix[i] = prefix[i - 1] \o seqs[i]
  <2>1. ASSUME NEW i \in 2..Len(s)
        PROVE  prefix[i] = prefix[i - 1] \o seqs[i]
    <3>1. i \in 1..Len(s) /\ i - 1 \in 1..Len(s)
      BY <1>1
    <3>2. prefix[i - 1] = [k \in 1..(i - 1) |-> s[k]]
      BY <1>2, <3>1
    <3> QED
      BY <1>2, <3>1, <3>2, PrefixGrows
  <2> QED
    BY <2>1
<1> HIDE DEF prefix, seqs
<1>7. CASE Len(s) = 0
  <2>1. seqs = <<>> /\ s = <<>>
    BY <1>7 DEF seqs
  <2>2. FlattenSeq(seqs) = seqs
    BY <1>1, <1>7 DEF FlattenSeq
  <2> QED
    BY <2>1, <2>2 DEF seqs
<1>8. CASE Len(s) # 0
  <2>1. prefix = [i \in 1..Len(s) |-> IF i = 1 THEN seqs[i] ELSE prefix[i - 1] \o seqs[i]]
    <3>1. \A i \in 1..Len(s) : i # 1 => i \in 2..Len(s)
      BY <1>1
    <3> QED
      BY <1>4, <1>5, <1>6, <1>8, <3>1
  <2>2. PICK g : /\ g = [i \in 1..Len(s) |-> IF i = 1 THEN seqs[i] ELSE g[i - 1] \o seqs[i]]
                 /\ FlattenSeq(seqs) = g[Len(s)]
    BY <1>1, <1>8, <2>1, ZenonT(30) DEF FlattenSeq
  <2> DEFINE T == {i \in 0..Len(s) : i # 0 => g[i] = prefix[i]}
  <2>3. 0 \in T
    BY <1>1
  <2>4. \A i \in 1..Len(s) : i - 1 \in T => i \in T
    <3>1. ASSUME NEW i \in 1..Len(s), i - 1 # 0 => g[i - 1] = prefix[i - 1]
          PROVE  g[i] = prefix[i]
      <4>1. g[i] = IF i = 1 THEN seqs[i] ELSE g[i - 1] \o seqs[i]
        BY <2>2
      <4>2. prefix[i] = IF i = 1 THEN seqs[i] ELSE prefix[i - 1] \o seqs[i]
        BY <2>1
      <4> QED
        BY <1>1, <3>1, <4>1, <4>2
    <3> QED
      BY <1>1, <3>1
  <2> HIDE DEF T
  <2>5. \A i \in 0..Len(s) : i \in T
    BY <1>1, <2>3, <2>4, Induct
  <2>6. g[Len(s)] = prefix[Len(s)]
    BY <1>1, <1>8, <2>5 DEF T
  <2> QED
    BY <1>3, <1>8, <2>2, <2>6 DEF seqs
<1> QED
  BY <1>7, <1>8

\* An ASCII string is its own encoding.
LEMMA AsciiBytes == ASSUME NEW s \in Seq(Nat), ASCII(s) PROVE Bytes(s) = s
<1>1. DOMAIN s = 1..Len(s) /\ \A i \in DOMAIN s : UTF8(s[i]) = <<s[i]>>
  BY DEF ASCII, UTF8
<1>2. [i \in DOMAIN s |-> UTF8(s[i])] = [i \in 1..Len(s) |-> <<s[i]>>]
  BY <1>1
<1> QED
  BY <1>2, FlattenSingletons DEF Bytes

\* The scan of a name, rune by rune: qi counts the bytes that have matched.
Scans(qi, b, t) ==
  qi = [i \in 0..Len(t) |-> IF i = 0 THEN 0 ELSE Scan(b, qi[i - 1], ToLower(t[i]))]

LEMMA ScanExists == ASSUME NEW b \in Seq(Nat), NEW t \in Seq(Nat) PROVE \E qi : Scans(qi, b, t)
<1> DEFINE step == [i \in 0..Len(t) |-> [k \in Nat |-> Scan(b, k, ToLower(t[i]))]]
<1>1. Len(t) \in Nat /\ Len(b) \in Nat
  OBVIOUS
<1>2. \A i \in 0..Len(t), k \in Nat : Scan(b, k, ToLower(t[i])) \in Nat
  BY <1>1 DEF Scan
<1>3. /\ step \in [0..Len(t) -> [Nat -> Nat]]
      /\ \A i \in 0..Len(t), k \in Nat : step[i][k] = Scan(b, k, ToLower(t[i]))
  BY <1>2
<1> HIDE DEF step
<1>4. PICK g \in [0..Len(t) -> Nat] :
        g[0] = 0 /\ \A i \in 1..Len(t) : g[i] = step[i][g[i - 1]]
  <2>1. HasRun(Len(t), Nat, 0, step)
    BY <1>1, <1>3, Loop
  <2> QED
    BY <2>1 DEF HasRun
<1>5. ASSUME NEW i \in 0..Len(t)
      PROVE  g[i] = IF i = 0 THEN 0 ELSE Scan(b, g[i - 1], ToLower(t[i]))
  <2>1. i # 0 => i \in 1..Len(t) /\ i - 1 \in 0..Len(t)
    BY <1>1
  <2> QED
    BY <1>3, <1>4, <2>1
<1>6. g = [i \in 0..Len(t) |-> IF i = 0 THEN 0 ELSE Scan(b, g[i - 1], ToLower(t[i]))]
  BY <1>5
<1> QED
  BY <1>6 DEF Scans

LEMMA ScanSteps ==
  ASSUME NEW b \in Seq(Nat), NEW t \in Seq(Nat), NEW qi, Scans(qi, b, t)
  PROVE  /\ qi[0] = 0
         /\ \A i \in 0..Len(t) : qi[i] \in 0..Len(b)
         /\ \A i \in 1..Len(t) :
              qi[i] = IF qi[i - 1] < Len(b) /\ b[qi[i - 1] + 1] = ToLower(t[i])
                        THEN qi[i - 1] + 1 ELSE qi[i - 1]
<1>1. Len(t) \in Nat /\ Len(b) \in Nat
  OBVIOUS
<1>2. /\ qi[0] = 0
      /\ \A i \in 1..Len(t) : qi[i] = Scan(b, qi[i - 1], ToLower(t[i]))
  BY <1>1, SMTT(30) DEF Scans
<1> DEFINE T == {i \in 0..Len(t) : qi[i] \in 0..Len(b)}
<1>3. 0 \in T
  BY <1>1, <1>2
<1>4. \A i \in 1..Len(t) : i - 1 \in T => i \in T
  <2>1. ASSUME NEW i \in 1..Len(t), qi[i - 1] \in 0..Len(b)
        PROVE  qi[i] \in 0..Len(b)
    <3> DEFINE x == qi[i - 1]
               y == qi[i]
    <3>1. y = x \/ (y = x + 1 /\ x < Len(b))
      BY <1>2 DEF Scan
    <3>2. x \in Nat /\ x <= Len(b)
      BY <1>1, <2>1
    <3> HIDE DEF x, y
    <3>3. y \in 0..Len(b)
      BY <1>1, <3>1, <3>2
    <3> QED
      BY <3>3 DEF y
  <2>2. \A i \in 1..Len(t) : i - 1 \in 0..Len(t) /\ i \in 0..Len(t)
    BY <1>1
  <2> QED
    BY <2>1, <2>2
<1> HIDE DEF T
<1>5. \A i \in 0..Len(t) : i \in T
  BY <1>1, <1>3, <1>4, Induct
<1> QED
  BY <1>2, <1>5 DEF T, Scan

LEMMA FuzzyScan ==
  ASSUME NEW q \in Seq(Nat), ASCII(q), NEW t \in Seq(Nat)
  PROVE  LET b == [i \in DOMAIN q |-> ToLower(q[i])]
         IN /\ b \in Seq(Nat) /\ Len(b) = Len(q)
            /\ \E qi : Scans(qi, b, t) /\ (FuzzyMatch(q, t) <=> qi[Len(t)] = Len(b))
<1> DEFINE b == [i \in DOMAIN q |-> ToLower(q[i])]
           Step(g) == [i \in 0..Len(t) |-> IF i = 0 THEN 0 ELSE
                        Scan(Bytes(b), g[i - 1], ToLower(t[i]))]
           qi == CHOOSE g : g = Step(g)
<1>1. DOMAIN q = 1..Len(q) /\ Len(q) \in Nat /\ \A i \in 1..Len(q) : q[i] \in Nat /\ q[i] < 128
  BY DEF ASCII
<1>2. \A c \in Nat : c < 128 => ToLower(c) \in Nat /\ ToLower(c) < 128
  BY DEF ToLower
<1>3. b \in Seq(Nat) /\ Len(b) = Len(q) /\ ASCII(b)
  <2>1. \A i \in 1..Len(q) : ToLower(q[i]) \in Nat /\ ToLower(q[i]) < 128
    BY <1>1, <1>2
  <2> QED
    BY <1>1, <2>1 DEF ASCII
<1>4. FuzzyMatch(q, t) <=> qi[Len(t)] = Len(Bytes(b))
  BY DEF FuzzyMatch
<1> HIDE DEF b
<1>5. Bytes(b) = b
  BY <1>3, AsciiBytes
<1>6. \E g : g = Step(g)
  BY <1>3, <1>5, ScanExists DEF Scans
<1>7. qi = Step(qi)
  <2> HIDE DEF Step
  <2> QED
    BY <1>6
<1>8. Scans(qi, b, t)
  BY <1>5, <1>7 DEF Scans
<1> HIDE DEF qi
<1> QED
  BY <1>3, <1>4, <1>5, <1>8 DEF b

LEMMA ScanGrows ==
  ASSUME NEW b \in Seq(Nat), NEW t \in Seq(Nat), NEW qi, Scans(qi, b, t)
  PROVE  \A j \in 0..Len(t) : \A i \in 0..j : qi[i] <= qi[j]
<1>1. Len(t) \in Nat /\ Len(b) \in Nat /\ \A i \in 0..Len(t) : qi[i] \in Nat
  BY ScanSteps
<1> DEFINE T == {j \in 0..Len(t) : \A i \in 0..j : qi[i] <= qi[j]}
<1>2. 0 \in T
  BY <1>1
<1>3. ASSUME NEW j \in 1..Len(t), j - 1 \in T
      PROVE  j \in T
  <2>1. qi[j - 1] <= qi[j]
    <3>1. qi[j] = qi[j - 1] \/ qi[j] = qi[j - 1] + 1
      BY ScanSteps
    <3>2. qi[j - 1] \in Nat
      BY <1>1
    <3> QED
      BY <3>1, <3>2
  <2>2. ASSUME NEW i \in 0..j
        PROVE  qi[i] <= qi[j]
    <3>1. CASE i = j
      BY <1>1, <3>1
    <3>2. CASE i # j
      <4>1. i \in 0..(j - 1) /\ qi[i] <= qi[j - 1]
        BY <1>1, <1>3, <3>2
      <4>2. qi[i] \in Nat /\ qi[j - 1] \in Nat /\ qi[j] \in Nat
        BY <1>1
      <4> QED
        BY <2>1, <4>1, <4>2
    <3> QED
      BY <3>1, <3>2
  <2> QED
    BY <1>1, <2>2
<1> HIDE DEF T
<1>4. \A j \in 0..Len(t) : j \in T
  BY <1>1, <1>2, <1>3, Induct
<1> QED
  BY <1>4 DEF T

\* The bytes of b occur at increasing places of t.
OccursAt(place, b, t) ==
  /\ place \in [1..Len(b) -> 1..Len(t)]
  /\ \A i, j \in 1..Len(b) : i < j => place[i] < place[j]
  /\ \A i \in 1..Len(b) : b[i] = ToLower(t[place[i]])

\* The scan finds no more than there is, ...
LEMMA ScanSound ==
  ASSUME NEW b \in Seq(Nat), NEW t \in Seq(Nat), NEW qi, Scans(qi, b, t), qi[Len(t)] = Len(b)
  PROVE  \E place : OccursAt(place, b, t)
<1>1. Len(t) \in Nat /\ Len(b) \in Nat /\ qi[0] = 0 /\ \A i \in 0..Len(t) : qi[i] \in Nat
  BY ScanSteps
<1> DEFINE Found(k, i) == qi[i] = k /\ b[k] = ToLower(t[i])
<1>2. ASSUME NEW k \in 1..Len(b)
      PROVE  \E i \in 1..Len(t) : Found(k, i)
  <2> DEFINE U == {i \in 0..Len(t) : qi[i] >= k}
  <2>1. U \in SUBSET Nat /\ U # {}
    <3>1. Len(t) \in U
      BY <1>1
    <3> QED
      BY <3>1
  <2> HIDE DEF U
  <2>2. PICK i \in U : \A j \in U : i <= j
    BY <2>1, Least
  <2>3. i \in 1..Len(t) /\ i - 1 \in 0..Len(t) /\ qi[i] >= k
    BY <1>1, <2>2 DEF U
  <2>4. ~(qi[i - 1] >= k)
    BY <2>2, <2>3 DEF U
  <2>5. /\ qi[i] = qi[i - 1] \/ qi[i] = qi[i - 1] + 1
        /\ qi[i] # qi[i - 1] => b[qi[i - 1] + 1] = ToLower(t[i])
    BY <2>3, ScanSteps
  <2>6. qi[i] \in Nat /\ qi[i - 1] \in Nat
    BY <1>1, <2>3
  <2>7. qi[i] = k /\ qi[i] # qi[i - 1] /\ qi[i - 1] + 1 = k
    BY <2>3, <2>4, <2>5, <2>6, SMTT(30)
  <2>8. b[qi[i - 1] + 1] = ToLower(t[i])
    BY <2>5, <2>7
  <2>9. b[k] = ToLower(t[i])
    BY <2>7, <2>8
  <2> QED
    BY <2>3, <2>7, <2>9
<1> DEFINE place == [k \in 1..Len(b) |-> CHOOSE i \in 1..Len(t) : Found(k, i)]
<1>3. \A k \in 1..Len(b) : place[k] \in 1..Len(t) /\ qi[place[k]] = k /\ b[k] = ToLower(t[place[k]])
  BY <1>2
<1>4. place \in [1..Len(b) -> 1..Len(t)]
  BY <1>3
<1> HIDE DEF place
<1>5. ASSUME NEW i \in 1..Len(b), NEW j \in 1..Len(b), i < j
      PROVE  place[i] < place[j]
  <2> SUFFICES ASSUME place[j] <= place[i]
               PROVE  FALSE
    <3>1. place[i] \in Nat /\ place[j] \in Nat
      BY <1>1, <1>3, SMTT(30)
    <3> QED
      BY <3>1
  <2>1. place[i] \in 0..Len(t) /\ place[j] \in 0..place[i]
    BY <1>1, <1>3, SMTT(30)
  <2>2. qi[place[j]] <= qi[place[i]]
    BY <2>1, ScanGrows
  <2>3. j <= i
    BY <1>3, <2>2
  <2> QED
    BY <1>5, <2>3
<1> QED
  BY <1>3, <1>4, <1>5 DEF OccursAt

\* ... and no less: the earliest match is never too late.
LEMMA ScanComplete ==
  ASSUME NEW b \in Seq(Nat), NEW t \in Seq(Nat), NEW qi, Scans(qi, b, t),
         NEW place, OccursAt(place, b, t)
  PROVE  qi[Len(t)] = Len(b)
<1>1. /\ Len(t) \in Nat /\ Len(b) \in Nat
      /\ \A i \in 0..Len(t) : qi[i] \in Nat /\ qi[i] <= Len(b)
  BY ScanSteps
<1>2. \A k \in 1..Len(b) : place[k] \in Nat /\ place[k] >= 1 /\ place[k] <= Len(t)
  <2>1. place \in [1..Len(b) -> 1..Len(t)]
    BY DEF OccursAt
  <2>2. \A k \in 1..Len(b) : place[k] \in 1..Len(t)
    BY <2>1
  <2> QED
    BY <1>1, <2>2
<1> DEFINE T == {k \in 0..Len(b) : k # 0 => qi[place[k]] >= k}
<1>3. 0 \in T
  BY <1>1
<1>4. ASSUME NEW k \in 1..Len(b), k - 1 \in T
      PROVE  k \in T
  <2>0. PICK x : x = place[k]
    OBVIOUS
  <2>1. x \in 1..Len(t) /\ x - 1 \in 0..Len(t)
    BY <1>1, <1>2, <2>0
  <2>2. k \in Nat /\ k >= 1 /\ k <= Len(b) /\ qi[x - 1] \in Nat /\ qi[x] \in Nat
    BY <1>1, <2>1
  <2>3. qi[x - 1] >= k - 1
    <3>1. CASE k = 1
      BY <2>2, <3>1
    <3>2. CASE k # 1
      <4>1. k - 1 \in 1..Len(b) /\ k - 1 < k
        BY <2>2, <3>2
      <4>2. place[k - 1] < x
        BY <2>0, <4>1 DEF OccursAt
      <4>3. place[k - 1] \in 0..(x - 1) /\ place[k - 1] \in 0..Len(t)
        BY <1>2, <2>1, <4>1, <4>2, SMTT(30)
      <4>4. qi[place[k - 1]] <= qi[x - 1]
        BY <2>1, <4>3, ScanGrows
      <4>5. qi[place[k - 1]] >= k - 1 /\ qi[place[k - 1]] \in Nat
        BY <1>1, <1>4, <4>1, <4>3
      <4> QED
        BY <2>2, <4>4, <4>5
    <3> QED
      BY <3>1, <3>2
  <2>4. b[k] = ToLower(t[x])
    BY <2>0 DEF OccursAt
  <2>5. qi[x] = IF qi[x - 1] < Len(b) /\ b[qi[x - 1] + 1] = ToLower(t[x])
                  THEN qi[x - 1] + 1 ELSE qi[x - 1]
    BY <2>1, ScanSteps
  <2>6. ASSUME qi[x - 1] = k - 1
        PROVE  qi[x] >= k
    <3>1. qi[x - 1] + 1 = k /\ qi[x - 1] < Len(b)
      BY <1>1, <2>2, <2>6
    <3>2. qi[x] = k
      BY <2>4, <2>5, <3>1
    <3> QED
      BY <2>2, <3>2
  <2>7. ASSUME qi[x - 1] # k - 1
        PROVE  qi[x] >= k
    <3>1. qi[x - 1] >= k
      BY <2>2, <2>3, <2>7
    <3>2. qi[x] = qi[x - 1] + 1 \/ qi[x] = qi[x - 1]
      BY <2>5
    <3> QED
      BY <2>2, <3>1, <3>2
  <2>8. qi[x] >= k
    BY <2>6, <2>7
  <2>9. k \in 0..Len(b)
    BY <2>2
  <2> QED
    BY <2>0, <2>8, <2>9
<1> HIDE DEF T
<1>5. \A k \in 0..Len(b) : k \in T
  BY <1>1, <1>3, <1>4, Induct
<1>6. qi[Len(t)] >= Len(b)
  <2>1. CASE Len(b) = 0
    BY <1>1, <2>1
  <2>2. CASE Len(b) # 0
    <3>1. Len(b) \in 1..Len(b) /\ Len(b) \in T
      BY <1>1, <1>5, <2>2
    <3>2. place[Len(b)] \in 0..Len(t) /\ Len(t) \in 0..Len(t) /\ qi[place[Len(b)]] >= Len(b)
      BY <1>1, <1>2, <2>2, <3>1 DEF T
    <3>3. qi[place[Len(b)]] <= qi[Len(t)]
      BY <3>2, ScanGrows
    <3> QED
      BY <1>1, <3>2, <3>3
  <2> QED
    BY <2>1, <2>2
<1>7. qi[Len(t)] \in Nat /\ qi[Len(t)] <= Len(b)
  BY <1>1
<1> QED
  BY <1>1, <1>6, <1>7

LEMMA FuzzyDecides ==
  ASSUME NEW q \in Seq(Nat), ASCII(q), NEW t \in Seq(Nat)
  PROVE  FuzzyMatch(q, t) <=> Subsequence(q, t)
<1> DEFINE b == [i \in DOMAIN q |-> ToLower(q[i])]
<1>1. DOMAIN q = 1..Len(q) /\ DOMAIN t = 1..Len(t)
  OBVIOUS
<1>2. \A i \in 1..Len(q) : b[i] = ToLower(q[i])
  BY <1>1
<1> HIDE DEF b
<1>3. PICK qi : /\ Scans(qi, b, t) /\ b \in Seq(Nat) /\ Len(b) = Len(q)
                /\ FuzzyMatch(q, t) <=> qi[Len(t)] = Len(b)
  BY FuzzyScan, ZenonT(30) DEF b
<1>4. qi[Len(t)] = Len(b) <=> \E place : OccursAt(place, b, t)
  BY <1>3, ScanSound, ScanComplete
<1>5. (\E place : OccursAt(place, b, t)) <=> Subsequence(q, t)
  <2>1. ASSUME NEW place
        PROVE  OccursAt(place, b, t) <=>
                 /\ place \in [DOMAIN q -> DOMAIN t]
                 /\ \A i, j \in DOMAIN q : i < j => place[i] < place[j]
                 /\ \A i \in DOMAIN q : ToLower(q[i]) = ToLower(t[place[i]])
    BY <1>1, <1>2, <1>3 DEF OccursAt
  <2> QED
    BY <2>1 DEF Subsequence
<1> QED
  BY <1>3, <1>4, <1>5

-----------------------------------------------------------------------------
\* Around.

Rooted(parent) == parent \in Seq(Nat) /\ \A i \in 1..Len(parent) : parent[i] < i

Climbs(up, parent, i) ==
  up = [j \in 0..i |-> IF j = 0 THEN {0} ELSE {j} \cup up[parent[j]]]

LEMMA ClimbExists ==
  ASSUME NEW parent, Rooted(parent), NEW i \in 0..Len(parent)
  PROVE  \E up : Climbs(up, parent, i)
<1>1. /\ Len(parent) \in Nat /\ i \in Nat
      /\ \A j \in 1..i : parent[j] \in 0..i /\ parent[j] < j
  <2>1. parent \in Seq(Nat)
    BY DEF Rooted
  <2>2. \A j \in 1..Len(parent) : parent[j] \in Nat /\ parent[j] < j
    BY <2>1 DEF Rooted
  <2> QED
    BY <2>1, <2>2
<1> DEFINE D == 0..i
           S == SUBSET Nat
           rank == [j \in D |-> j]
           prev == [j \in D |-> IF j = 0 THEN 0 ELSE parent[j]]
           base == {0}
           start == [j \in D |-> {0}]
           step == [j \in D |-> [X \in S |-> {j} \cup X]]
<1>2. rank \in [D -> 0..i] /\ prev \in [D -> D] /\ base \in SUBSET D /\ start \in [D -> S]
  BY <1>1
<1>3. step \in [D -> [S -> S]]
  BY <1>1
<1>4. \A j \in D \ base : rank[prev[j]] < rank[j]
  BY <1>1
<1>5. \A j \in D : /\ start[j] = {0}
                   /\ j \in base <=> j = 0
                   /\ j # 0 => prev[j] = parent[j]
                   /\ \A X \in S : step[j][X] = {j} \cup X
                   /\ prev[j] \in D
  BY <1>1
<1> HIDE DEF D, S, rank, prev, base, start, step
<1>6. HasSolution(D, S, prev, base, start, step)
  BY <1>1, <1>2, <1>3, <1>4, Recursion
<1>7. PICK g \in [D -> S] :
        \A j \in D : g[j] = IF j \in base THEN start[j] ELSE step[j][g[prev[j]]]
  BY <1>6 DEF HasSolution
<1>8. \A j \in D : g[j] = IF j = 0 THEN {0} ELSE {j} \cup g[parent[j]]
  BY <1>5, <1>7
<1> QED
  BY <1>7, <1>8 DEF Climbs, D

LEMMA ClimbsAgree ==
  ASSUME NEW parent, Rooted(parent), NEW i \in 0..Len(parent), NEW k \in 0..i,
         NEW up, Climbs(up, parent, i), NEW vp, Climbs(vp, parent, k)
  PROVE  up[k] = vp[k]
<1>1. /\ Len(parent) \in Nat /\ i \in Nat /\ k \in Nat
      /\ \A j \in 1..k : parent[j] \in Nat /\ parent[j] < j
  <2>1. parent \in Seq(Nat)
    BY DEF Rooted
  <2>2. \A j \in 1..Len(parent) : parent[j] \in Nat /\ parent[j] < j
    BY <2>1 DEF Rooted
  <2> QED
    BY <2>1, <2>2
<1> DEFINE U == {j \in 0..k : up[j] # vp[j]}
<1> SUFFICES ASSUME U # {}
             PROVE  FALSE
  BY <1>1
<1>2. U \in SUBSET Nat
  OBVIOUS
<1>3. PICK j \in U : \A m \in U : j <= m
  <2> HIDE DEF U
  <2> QED
    BY <1>2, Least
<1>4. j \in 0..k /\ up[j] # vp[j] /\ j \in 0..i
  BY <1>1, <1>3
<1>5. /\ up[j] = IF j = 0 THEN {0} ELSE {j} \cup up[parent[j]]
      /\ vp[j] = IF j = 0 THEN {0} ELSE {j} \cup vp[parent[j]]
  BY <1>4 DEF Climbs
<1>6. j \in 1..k /\ parent[j] \in 0..k /\ parent[j] < j /\ j \in Nat /\ parent[j] \in Nat
  BY <1>1, <1>4, <1>5
<1>7. parent[j] \notin U
  <2>1. ~(j <= parent[j])
    BY <1>6
  <2> QED
    BY <1>3, <2>1
<1> QED
  BY <1>4, <1>5, <1>6, <1>7

LEMMA AroundClimbs ==
  ASSUME NEW parent, Rooted(parent), NEW i \in 0..Len(parent)
  PROVE  \E up : Climbs(up, parent, i) /\ Around(parent, i) = up[i]
<1> DEFINE Step(g) == [j \in 0..i |-> IF j = 0 THEN {0} ELSE {j} \cup g[parent[j]]]
           up == CHOOSE g : g = Step(g)
<1>1. \E g : g = Step(g)
  BY ClimbExists DEF Climbs
<1>2. up = Step(up)
  <2> HIDE DEF Step
  <2> QED
    BY <1>1
<1>3. Around(parent, i) = up[i]
  BY DEF Around
<1> QED
  BY <1>2, <1>3 DEF Climbs

\* The symbols around i: itself and those around its parent.
LEMMA AroundParent ==
  ASSUME NEW parent, Rooted(parent)
  PROVE  /\ Around(parent, 0) = {0}
         /\ \A i \in 1..Len(parent) : Around(parent, i) = {i} \cup Around(parent, parent[i])
<1>1. Len(parent) \in Nat
  BY DEF Rooted
<1>2. Around(parent, 0) = {0}
  <2>1. PICK up : Climbs(up, parent, 0) /\ Around(parent, 0) = up[0]
    BY <1>1, AroundClimbs
  <2> QED
    BY <2>1 DEF Climbs
<1>3. ASSUME NEW i \in 1..Len(parent)
      PROVE  Around(parent, i) = {i} \cup Around(parent, parent[i])
  <2>1. i \in 0..Len(parent) /\ i # 0 /\ i \in 0..i
    BY <1>1
  <2>2. parent[i] \in 0..i /\ parent[i] \in 0..Len(parent)
    <3>1. parent[i] \in Nat /\ parent[i] < i
      BY DEF Rooted
    <3> QED
      BY <1>1, <3>1
  <2>3. PICK up : Climbs(up, parent, i) /\ Around(parent, i) = up[i]
    BY <2>1, AroundClimbs
  <2>4. PICK vp : Climbs(vp, parent, parent[i]) /\ Around(parent, parent[i]) = vp[parent[i]]
    BY <2>2, AroundClimbs
  <2>5. up[i] = {i} \cup up[parent[i]]
    BY <2>1, <2>3 DEF Climbs
  <2>6. up[parent[i]] = vp[parent[i]]
    BY <2>1, <2>2, <2>3, <2>4, ClimbsAgree
  <2> QED
    BY <2>3, <2>4, <2>5, <2>6
<1> QED
  BY <1>2, <1>3

LEMMA AroundFacts ==
  ASSUME NEW parent, Rooted(parent), NEW i \in 0..Len(parent)
  PROVE  /\ Around(parent, i) \subseteq 0..i
         /\ 0 \in Around(parent, i) /\ i \in Around(parent, i)
         /\ \A j \in Around(parent, i) :
              /\ Around(parent, j) \subseteq Around(parent, i)
              /\ j # i => \E e \in Around(parent, i) : e # 0 /\ parent[e] = j
<1> DEFINE Holds(k) ==
             /\ Around(parent, k) \subseteq 0..k
             /\ 0 \in Around(parent, k) /\ k \in Around(parent, k)
             /\ \A j \in Around(parent, k) :
                  /\ Around(parent, j) \subseteq Around(parent, k)
                  /\ j # k => \E e \in Around(parent, k) : e # 0 /\ parent[e] = j
           U == {k \in 0..Len(parent) : ~Holds(k)}
<1> SUFFICES ASSUME U # {}
             PROVE  FALSE
  OBVIOUS
<1>1. PICK k \in U : \A m \in U : k <= m
  <2>1. U \in SUBSET Nat
    OBVIOUS
  <2> HIDE DEF U
  <2> QED
    BY <2>1, Least
<1>2. Len(parent) \in Nat /\ k \in 0..Len(parent) /\ ~Holds(k)
  BY <1>1 DEF Rooted
<1>3. CASE k = 0
  <2>1. Holds(0)
    BY AroundParent
  <2> QED
    BY <1>2, <1>3, <2>1
<1>4. CASE k # 0
  <2>1. k \in 1..Len(parent) /\ k \in Nat
    BY <1>2, <1>4
  <2>2. parent[k] \in Nat /\ parent[k] < k
    BY <2>1 DEF Rooted
  <2>3. Around(parent, k) = {k} \cup Around(parent, parent[k])
    BY <2>1, AroundParent
  <2>4. Holds(parent[k])
    <3>1. parent[k] \in 0..Len(parent) /\ ~(k <= parent[k])
      BY <1>2, <2>1, <2>2
    <3> HIDE DEF Holds
    <3> QED
      BY <1>1, <3>1
  <2>5. Around(parent, k) \subseteq 0..k /\ 0 \in Around(parent, k) /\ k \in Around(parent, k)
    BY <2>1, <2>2, <2>3, <2>4
  <2>6. ASSUME NEW j \in Around(parent, k)
        PROVE  /\ Around(parent, j) \subseteq Around(parent, k)
               /\ j # k => \E e \in Around(parent, k) : e # 0 /\ parent[e] = j
    <3>1. CASE j = k
      BY <3>1
    <3>2. CASE j = parent[k]
      BY <1>4, <2>3, <3>2
    <3>3. CASE j # k /\ j # parent[k]
      BY <2>3, <2>4, <3>3
    <3> QED
      BY <3>1, <3>2, <3>3
  <2>7. Holds(k)
    BY <2>5, <2>6
  <2> QED
    BY <1>2, <2>7
<1> QED
  BY <1>3, <1>4

-----------------------------------------------------------------------------
\* InnermostSymbol and findContainingSymbol.

LEMMA MaxOf ==
  ASSUME NEW n \in Nat, NEW T \in SUBSET (0..n), T # {}
  PROVE  Max(T) \in T /\ \A c \in T : c <= Max(T)
<1> DEFINE U == {k \in Nat : n - k \in T}
<1>1. U \in SUBSET Nat /\ U # {}
  <2>1. PICK c \in T : TRUE
    OBVIOUS
  <2>2. n - c \in Nat /\ n - (n - c) = c
    BY <2>1
  <2> QED
    BY <2>1, <2>2
<1> HIDE DEF U
<1>2. PICK k \in U : \A m \in U : k <= m
  BY <1>1, Least
<1>3. n - k \in T /\ k \in Nat
  BY <1>2 DEF U
<1>4. ASSUME NEW c \in T
      PROVE  n - k >= c
  <2>1. c \in Nat /\ c <= n /\ n - c \in Nat /\ n - (n - c) = c
    OBVIOUS
  <2>2. n - c \in U
    BY <2>1 DEF U
  <2>3. k <= n - c
    BY <1>2, <2>2
  <2> QED
    BY <1>3, <2>1, <2>3
<1>5. \E x \in T : \A c \in T : x >= c
  BY <1>3, <1>4
<1>6. Max(T) \in T /\ \A c \in T : Max(T) >= c
  BY <1>5 DEF Max
<1> QED
  BY <1>6

LEMMA SamePositions ==
  ASSUME NEW p \in Positions, NEW r \in Ranges
  PROVE  /\ RangeContains(r, p) <=> Inside(p, r)
         /\ containsPos(r, p) <=> Inside(p, r)
<1>1. /\ p.line \in Int /\ p.char \in Int
      /\ r.start.line \in Int /\ r.start.char \in Int
      /\ r.end.line \in Int /\ r.end.char \in Int
  BY DEF Positions, Ranges
<1> QED
  BY <1>1 DEF RangeContains, containsPos, Inside, Precedes

LEMMA PrecedesOrder ==
  ASSUME NEW p \in Positions, NEW q \in Positions, NEW r \in Positions
  PROVE  /\ ~Precedes(p, q) /\ ~Precedes(q, r) => ~Precedes(p, r)
         /\ ~Precedes(p, q) /\ Precedes(p, r) => Precedes(q, r)
         /\ Precedes(p, q) /\ ~Precedes(r, q) => Precedes(p, r)
<1>1. /\ p.line \in Int /\ p.char \in Int /\ q.line \in Int /\ q.char \in Int
      /\ r.line \in Int /\ r.char \in Int
  BY DEF Positions
<1> QED
  BY <1>1 DEF Precedes

\* A document as documentSymbol returns it.
WellFormed(d) ==
  /\ Rooted(d.parent)
  /\ \A i \in 1..Len(d.parent) : d.range[i] \in Ranges
  /\ Nested(d)

Hits(d, p, s) == {c \in 1..Len(d.parent) : d.parent[c] = s /\ RangeContains(d.range[c], p)}

Descends(inner, d, p) ==
  inner = [s \in 0..Len(d.parent) |-> IF Hits(d, p, s) = {} THEN s
                                                           ELSE inner[Max(Hits(d, p, s))]]

LEMMA HitsBelow ==
  ASSUME NEW d, WellFormed(d), NEW p, NEW s \in 0..Len(d.parent), Hits(d, p, s) # {}
  PROVE  /\ Max(Hits(d, p, s)) \in Hits(d, p, s)
         /\ Max(Hits(d, p, s)) \in 1..Len(d.parent)
         /\ s < Max(Hits(d, p, s))
<1>1. Len(d.parent) \in Nat /\ Hits(d, p, s) \in SUBSET (0..Len(d.parent))
  BY DEF WellFormed, Rooted, Hits
<1>2. Max(Hits(d, p, s)) \in Hits(d, p, s)
  BY <1>1, MaxOf
<1> QED
  BY <1>2 DEF WellFormed, Rooted, Hits

LEMMA DescentExists ==
  ASSUME NEW d, WellFormed(d), NEW p
  PROVE  \E inner : Descends(inner, d, p)
<1> DEFINE n == Len(d.parent)
           D == 0..n
           Down(s) == Hits(d, p, s)
           rank == [s \in D |-> n - s]
           prev == [s \in D |-> IF Down(s) = {} THEN s ELSE Max(Down(s))]
           base == {s \in D : Down(s) = {}}
           start == [s \in D |-> s]
           step == [s \in D |-> [x \in D |-> x]]
<1>1. n \in Nat
  BY DEF WellFormed, Rooted
<1>2. \A s \in D : Down(s) # {} => Max(Down(s)) \in 1..n /\ s < Max(Down(s))
  BY HitsBelow
<1> HIDE DEF n, Down
<1>3. /\ rank \in [D -> 0..n] /\ prev \in [D -> D] /\ base \in SUBSET D
      /\ start \in [D -> D] /\ step \in [D -> [D -> D]]
  BY <1>1, <1>2
<1>4. \A s \in D \ base : rank[prev[s]] < rank[s]
  BY <1>1, <1>2
<1>5. \A s \in D : /\ start[s] = s
                   /\ s \in base <=> Down(s) = {}
                   /\ Down(s) # {} => prev[s] = Max(Down(s))
                   /\ \A x \in D : step[s][x] = x
                   /\ prev[s] \in D
  BY <1>1, <1>2
<1> HIDE DEF D, rank, prev, base, start, step
<1>6. HasSolution(D, D, prev, base, start, step)
  BY <1>1, <1>3, <1>4, Recursion
<1>7. PICK g \in [D -> D] :
        \A s \in D : g[s] = IF s \in base THEN start[s] ELSE step[s][g[prev[s]]]
  BY <1>6 DEF HasSolution
<1>8. \A s \in D : g[s] = IF Down(s) = {} THEN s ELSE g[Max(Down(s))]
  BY <1>5, <1>7
<1>9. g = [s \in D |-> IF Down(s) = {} THEN s ELSE g[Max(Down(s))]]
  BY <1>7, <1>8
<1> QED
  BY <1>9 DEF Descends, D, n, Down

LEMMA InnermostDescends ==
  ASSUME NEW d, WellFormed(d), NEW p
  PROVE  \E inner : Descends(inner, d, p) /\ InnermostSymbol(d, p) = inner[0]
<1> DEFINE Step(g) == [s \in 0..Len(d.parent) |->
                         IF Hits(d, p, s) = {} THEN s ELSE g[Max(Hits(d, p, s))]]
           inner == CHOOSE g : g = Step(g)
<1>1. \E g : g = Step(g)
  BY DescentExists DEF Descends
<1>2. inner = Step(inner)
  <2> HIDE DEF Step
  <2> QED
    BY <1>1
<1>3. InnermostSymbol(d, p) = inner[0]
  BY DEF InnermostSymbol, Hits
<1> QED
  BY <1>2, <1>3 DEF Descends

\* Every symbol around s contains p.
ContainedTo(d, p, s) == \A a \in Around(d.parent, s) : a # 0 => RangeContains(d.range[a], p)

\* Where the descent from s stops.
StopsAt(d, p, s, r) ==
  /\ r \in 0..Len(d.parent) /\ s <= r
  /\ Hits(d, p, r) = {}
  /\ ContainedTo(d, p, s) => ContainedTo(d, p, r)

LEMMA DescentStops ==
  ASSUME NEW d, WellFormed(d), NEW p, NEW inner, Descends(inner, d, p)
  PROVE  \A s \in 0..Len(d.parent) : StopsAt(d, p, s, inner[s])
<1> DEFINE U == {s \in 0..Len(d.parent) : ~StopsAt(d, p, s, inner[s])}
<1> SUFFICES ASSUME U # {}
             PROVE  FALSE
  OBVIOUS
<1>1. Len(d.parent) \in Nat
  BY DEF WellFormed, Rooted
<1>2. PICK s \in U : \A c \in U : c <= s
  <2>1. U \in SUBSET (0..Len(d.parent))
    OBVIOUS
  <2> HIDE DEF U
  <2> QED
    BY <1>1, <2>1, MaxOf
<1>3. s \in 0..Len(d.parent) /\ ~StopsAt(d, p, s, inner[s]) /\ s \in Nat
  BY <1>2
<1>4. inner[s] = IF Hits(d, p, s) = {} THEN s ELSE inner[Max(Hits(d, p, s))]
  BY <1>3 DEF Descends
<1>5. CASE Hits(d, p, s) = {}
  BY <1>3, <1>4, <1>5 DEF StopsAt
<1>6. CASE Hits(d, p, s) # {}
  <2>1. PICK m : m = Max(Hits(d, p, s))
    OBVIOUS
  <2>2. m \in Hits(d, p, s) /\ m \in 1..Len(d.parent) /\ s < m
    BY <1>3, <1>6, <2>1, HitsBelow
  <2>3. m \in 0..Len(d.parent) /\ m \in Nat
    BY <1>1, <2>2
  <2>4. StopsAt(d, p, m, inner[m])
    <3>1. ~(m <= s)
      BY <1>3, <2>2, <2>3
    <3> QED
      BY <1>2, <2>3, <3>1
  <2>5. d.parent[m] = s /\ RangeContains(d.range[m], p)
    BY <2>2 DEF Hits
  <2>6. Around(d.parent, m) = {m} \cup Around(d.parent, s)
    BY <2>2, <2>5, AroundParent DEF WellFormed
  <2>7. ContainedTo(d, p, s) => ContainedTo(d, p, m)
    BY <2>5, <2>6 DEF ContainedTo
  <2>8. s <= inner[m]
    BY <1>3, <2>2, <2>3, <2>4 DEF StopsAt
  <2> QED
    BY <1>3, <1>4, <1>6, <2>1, <2>4, <2>7, <2>8 DEF StopsAt
<1> QED
  BY <1>5, <1>6

LEMMA InnermostStops ==
  ASSUME NEW d, WellFormed(d), NEW p
  PROVE  /\ InnermostSymbol(d, p) \in 0..Len(d.parent)
         /\ Hits(d, p, InnermostSymbol(d, p)) = {}
         /\ ContainedTo(d, p, InnermostSymbol(d, p))
         /\ InnermostSymbol(d, p) = 0 => Hits(d, p, 0) = {}
         /\ Hits(d, p, 0) = {} => InnermostSymbol(d, p) = 0
<1>1. PICK inner : Descends(inner, d, p) /\ InnermostSymbol(d, p) = inner[0]
  BY InnermostDescends
<1>2. 0 \in 0..Len(d.parent)
  BY DEF WellFormed, Rooted
<1>3. StopsAt(d, p, 0, inner[0])
  BY <1>1, <1>2, DescentStops
<1>4. ContainedTo(d, p, 0)
  BY AroundParent DEF ContainedTo, WellFormed
<1>5. Hits(d, p, 0) = {} => inner[0] = 0
  BY <1>1, <1>2 DEF Descends
<1> QED
  BY <1>1, <1>3, <1>4, <1>5 DEF StopsAt

\* A symbol contains what a symbol below it contains.
LEMMA ParentContains ==
  ASSUME NEW d, WellFormed(d), NEW p \in Positions, NEW c \in 1..Len(d.parent),
         Inside(p, d.range[c])
  PROVE  /\ d.parent[c] \in 0..Len(d.parent) /\ d.parent[c] < c
         /\ d.parent[c] # 0 => d.parent[c] \in 1..Len(d.parent)
                               /\ Inside(p, d.range[d.parent[c]])
<1>1. Len(d.parent) \in Nat /\ DOMAIN d.parent = 1..Len(d.parent)
  BY DEF WellFormed, Rooted
<1>2. d.parent[c] \in Nat /\ d.parent[c] < c
  BY DEF WellFormed, Rooted
<1>3. ASSUME d.parent[c] # 0
      PROVE  d.parent[c] \in 1..Len(d.parent) /\ Inside(p, d.range[d.parent[c]])
  <2>1. d.parent[c] \in 1..Len(d.parent)
    BY <1>1, <1>2, <1>3
  <2> DEFINE r == d.range[c]
             q == d.range[d.parent[c]]
  <2>2. ~Precedes(r.start, q.start) /\ ~Precedes(q.end, r.end)
    BY <1>1, <1>3 DEF WellFormed, Nested
  <2>3. r \in Ranges /\ q \in Ranges
    BY <2>1 DEF WellFormed
  <2> HIDE DEF r, q
  <2>4. r.start \in Positions /\ r.end \in Positions /\ q.start \in Positions /\ q.end \in Positions
    BY <2>3 DEF Ranges
  <2>5. ~Precedes(p, r.start) /\ Precedes(p, r.end)
    BY DEF Inside, r
  <2>6. ~Precedes(p, q.start)
    BY <2>2, <2>4, <2>5, PrecedesOrder
  <2>7. Precedes(p, q.end)
    BY <2>2, <2>4, <2>5, PrecedesOrder
  <2> QED
    BY <2>1, <2>6, <2>7 DEF Inside, q
<1> QED
  BY <1>1, <1>2, <1>3

\* Of disjoint siblings only one contains p.
LEMMA OneSibling ==
  ASSUME NEW d, WellFormed(d), Disjoint(d), NEW p \in Positions,
         NEW c \in 1..Len(d.parent), NEW e \in 1..Len(d.parent), d.parent[c] = d.parent[e],
         Inside(p, d.range[c]), Inside(p, d.range[e])
  PROVE  c = e
<1> SUFFICES ASSUME c # e
             PROVE  FALSE
  OBVIOUS
<1> DEFINE r == d.range[c]
           q == d.range[e]
<1>1. DOMAIN d.parent = 1..Len(d.parent)
  BY DEF WellFormed, Rooted
<1>2. ~Precedes(r.start, q.end) \/ ~Precedes(q.start, r.end)
  BY <1>1 DEF Disjoint
<1>3. r \in Ranges /\ q \in Ranges
  BY DEF WellFormed
<1> HIDE DEF r, q
<1>4. r.start \in Positions /\ r.end \in Positions /\ q.start \in Positions /\ q.end \in Positions
  BY <1>3 DEF Ranges
<1>5. ~Precedes(p, r.start) /\ Precedes(p, r.end) /\ ~Precedes(p, q.start) /\ Precedes(p, q.end)
  BY DEF Inside, r, q
<1>6. Precedes(r.start, q.end) /\ Precedes(q.start, r.end)
  BY <1>4, <1>5, PrecedesOrder
<1> QED
  BY <1>2, <1>6

\* With disjoint siblings, what contains p is around the symbol the descent stops at.
LEMMA AllAround ==
  ASSUME NEW d, WellFormed(d), Disjoint(d), NEW p \in Positions,
         NEW c \in 1..Len(d.parent), Inside(p, d.range[c])
  PROVE  c \in Around(d.parent, InnermostSymbol(d, p))
<1> DEFINE around == Around(d.parent, InnermostSymbol(d, p))
           U == {k \in 1..Len(d.parent) : Inside(p, d.range[k]) /\ k \notin around}
<1> SUFFICES ASSUME U # {}
             PROVE  FALSE
  OBVIOUS
<1>1. Rooted(d.parent) /\ Len(d.parent) \in Nat
  BY DEF WellFormed, Rooted
<1>2. PICK r \in 0..Len(d.parent) : r = InnermostSymbol(d, p)
  BY InnermostStops
<1>3. Hits(d, p, r) = {} /\ ContainedTo(d, p, r)
  BY <1>2, InnermostStops
<1>4. /\ around \subseteq 0..Len(d.parent) /\ 0 \in around
      /\ \A j \in around : j # r => \E e \in around : e # 0 /\ d.parent[e] = j
  <2>1. around \subseteq 0..r
    BY <1>1, <1>2, AroundFacts
  <2>2. 0..r \subseteq 0..Len(d.parent)
    BY <1>1
  <2> QED
    BY <1>1, <1>2, <2>1, <2>2, AroundFacts
<1>5. PICK k \in U : \A m \in U : k <= m
  <2>1. U \in SUBSET Nat
    OBVIOUS
  <2> HIDE DEF U
  <2> QED
    BY <2>1, Least
<1>6. k \in 1..Len(d.parent) /\ Inside(p, d.range[k]) /\ k \notin around
  BY <1>5
<1>7. /\ d.parent[k] \in 0..Len(d.parent) /\ d.parent[k] < k
      /\ d.parent[k] # 0 => d.parent[k] \in 1..Len(d.parent)
                            /\ Inside(p, d.range[d.parent[k]])
  BY <1>6, ParentContains
<1>8. d.parent[k] \in around
  <2>1. ~(k <= d.parent[k])
    BY <1>1, <1>6, <1>7
  <2> QED
    BY <1>4, <1>5, <1>7, <2>1
<1> HIDE DEF around, U
<1>9. d.range[k] \in Ranges /\ RangeContains(d.range[k], p)
  BY <1>6, SamePositions DEF WellFormed
<1>10. d.parent[k] # r
  BY <1>3, <1>6, <1>9 DEF Hits
<1>11. PICK e \in around : e # 0 /\ d.parent[e] = d.parent[k]
  BY <1>4, <1>8, <1>10
<1>12. e \in 1..Len(d.parent)
  BY <1>1, <1>4, <1>11
<1>13. Inside(p, d.range[e])
  <2>1. RangeContains(d.range[e], p)
    BY <1>2, <1>3, <1>11 DEF ContainedTo, around
  <2>2. d.range[e] \in Ranges
    BY <1>12 DEF WellFormed
  <2> QED
    BY <2>1, <2>2, SamePositions
<1>14. e = k
  BY <1>6, <1>11, <1>12, <1>13, OneSibling
<1> QED
  BY <1>6, <1>11, <1>14

-----------------------------------------------------------------------------
SymbolsInv ==
  /\ WellFormed(doc)
  /\ pos \in Positions
  /\ query \in Seq(Nat) /\ target \in Seq(Nat)

LEMMA DocumentsWellFormed == \A d \in Documents \cup {NoSymbols} : WellFormed(d)
<1>1. ASSUME NEW n \in Nat, NEW d, d.parent \in [1..n -> 0..n], d.range \in [1..n -> Ranges],
             \A i \in 1..n : d.parent[i] < i, Nested(d)
      PROVE  WellFormed(d)
  <2>1. d.parent \in Seq(Nat) /\ Len(d.parent) = n
    BY <1>1
  <2> QED
    BY <1>1, <2>1 DEF WellFormed, Rooted
<1>2. ASSUME NEW d \in Documents
      PROVE  WellFormed(d)
  <2>1. PICK n \in 0..MaxSymbols : d \in [parent : Trees(n), range : [1..n -> Ranges]]
    BY <1>2 DEF Documents
  <2>2. n \in Nat /\ Nested(d)
    BY <1>2, SymbolsAssumption DEF Documents
  <2>3. /\ d.parent \in [1..n -> 0..n] /\ d.range \in [1..n -> Ranges]
        /\ \A i \in 1..n : d.parent[i] < i
    BY <2>1 DEF Trees
  <2> QED
    BY <1>1, <2>2, <2>3
<1>3. WellFormed(NoSymbols)
  <2>1. /\ NoSymbols.parent \in [1..0 -> 0..0] /\ NoSymbols.range \in [1..0 -> Ranges]
        /\ DOMAIN NoSymbols.parent = {}
    BY DEF NoSymbols
  <2>2. Nested(NoSymbols)
    BY <2>1 DEF Nested
  <2> QED
    BY <1>1, <2>1, <2>2
<1> QED
  BY <1>2, <1>3

LEMMA SymbolsInvariance == Spec => []SymbolsInv
<1>1. Init => SymbolsInv
  <2> SUFFICES ASSUME Init
               PROVE  SymbolsInv
    OBVIOUS
  <2>1. \A n \in Nat : BoundedSeq(Runes, n) \subseteq Seq(Nat)
    <3>1. ASSUME NEW n \in Nat, NEW q \in BoundedSeq(Runes, n)
          PROVE  q \in Seq(Nat)
      <4>1. PICK m \in 0..n : q \in [1..m -> Runes]
        BY <3>1, Zenon DEF BoundedSeq, SeqOf
      <4> QED
        <5>1. m \in Nat /\ Runes \subseteq Nat
          BY <3>1, SymbolsAssumption
        <5>2. q \in [1..m -> Nat]
          BY <4>1, <5>1
        <5> QED
          BY <5>1, <5>2
    <3> QED
      BY <3>1
  <2>2. MaxQuery \in Nat /\ MaxTarget \in Nat /\ 0 \in 0..MaxLine /\ 0 \in 0..MaxChar
    BY SymbolsAssumption
  <2>3. Origin \in Positions
    BY <2>2 DEF Origin, Positions
  <2>4. doc \in Documents \cup {NoSymbols} /\ pos \in Positions
    BY <2>3 DEF Init
  <2>5. query \in Seq(Nat) /\ target \in Seq(Nat)
    <3>1. /\ BoundedSeq(Runes, MaxQuery) \subseteq Seq(Nat)
          /\ BoundedSeq(Runes, MaxTarget) \subseteq Seq(Nat)
      BY <2>1, <2>2
    <3>2. query \in BoundedSeq(Runes, MaxQuery) \cup {<<>>}
      BY DEF Init
    <3>3. target \in BoundedSeq(Runes, MaxTarget) \cup {<<>>}
      BY DEF Init
    <3>4. <<>> \in Seq(Nat)
      OBVIOUS
    <3> QED
      BY <3>1, <3>2, <3>3, <3>4, Zenon
  <2> QED
    BY <2>4, <2>5, DocumentsWellFormed DEF SymbolsInv
<1>2. SymbolsInv /\ [Next]_vars => SymbolsInv'
  BY DEF Next, vars, SymbolsInv
<1> QED
  BY <1>1, <1>2, PTL DEF Spec

\* What contains pos and is not below anything is a hit of the root.
LEMMA RootHit ==
  ASSUME WellFormed(doc), pos \in Positions
  PROVE  Hits(doc, pos, 0) = {} <=> Containing = {}
<1>1. DOMAIN doc.parent = 1..Len(doc.parent) /\ Len(doc.parent) \in Nat
  BY DEF WellFormed, Rooted
<1>2. \A c \in 1..Len(doc.parent) : RangeContains(doc.range[c], pos) <=> Inside(pos, doc.range[c])
  BY SamePositions DEF WellFormed
<1>3. ASSUME Containing # {}
      PROVE  Hits(doc, pos, 0) # {}
  <2>1. Containing \in SUBSET Nat
    BY <1>1 DEF Containing
  <2>2. PICK c \in Containing : \A e \in Containing : c <= e
    BY <1>3, <2>1, Least
  <2>3. c \in 1..Len(doc.parent) /\ Inside(pos, doc.range[c])
    BY <1>1, <2>2 DEF Containing
  <2>4. /\ doc.parent[c] \in 0..Len(doc.parent) /\ doc.parent[c] < c
        /\ doc.parent[c] # 0 => doc.parent[c] \in 1..Len(doc.parent)
                                /\ Inside(pos, doc.range[doc.parent[c]])
    BY <2>3, ParentContains
  <2>5. doc.parent[c] = 0
    <3>1. doc.parent[c] \notin Containing
      BY <2>1, <2>2, <2>4
    <3> QED
      BY <1>1, <2>4, <3>1 DEF Containing
  <2> QED
    BY <1>2, <2>3, <2>5 DEF Hits
<1>4. ASSUME Hits(doc, pos, 0) # {}
      PROVE  Containing # {}
  BY <1>1, <1>2, <1>4 DEF Hits, Containing
<1> QED
  BY <1>3, <1>4

\* Every reference is attributed to the innermost symbol around it, for any document.
THEOREM InnermostIsDeepestHolds == Spec => []InnermostIsDeepest
<1>1. SymbolsInv => InnermostIsDeepest
  <2> SUFFICES ASSUME SymbolsInv
               PROVE  InnermostIsDeepest
    OBVIOUS
  <2>1. WellFormed(doc) /\ pos \in Positions
    BY DEF SymbolsInv
  <2>2. Rooted(doc.parent) /\ DOMAIN doc.parent = 1..Len(doc.parent) /\ Len(doc.parent) \in Nat
    BY <2>1 DEF WellFormed, Rooted
  <2>3. \A c \in 1..Len(doc.parent) : RangeContains(doc.range[c], pos) <=> Inside(pos, doc.range[c])
    BY <2>1, SamePositions DEF WellFormed
  <2>4. PICK s \in 0..Len(doc.parent) : s = InnermostSymbol(doc, pos)
    BY <2>1, InnermostStops
  <2>5. /\ Hits(doc, pos, s) = {} /\ ContainedTo(doc, pos, s)
        /\ s = 0 <=> Hits(doc, pos, 0) = {}
    BY <2>1, <2>4, InnermostStops
  <2>6. Around(doc.parent, s) \subseteq 0..s
    BY <2>2, <2>4, AroundFacts
  <2>7. s = 0 <=> Containing = {}
    BY <2>1, <2>5, RootHit
  <2>8. Around(doc.parent, s) \ {0} \subseteq Containing
    <3>1. ASSUME NEW a \in Around(doc.parent, s), a # 0
          PROVE  a \in Containing
      <4>1. a \in 1..Len(doc.parent)
        BY <2>2, <2>6, <3>1
      <4>2. RangeContains(doc.range[a], pos)
        BY <2>5, <3>1 DEF ContainedTo
      <4> QED
        BY <2>2, <2>3, <4>1, <4>2 DEF Containing
    <3> QED
      BY <3>1
  <2>9. \A c \in Containing : doc.parent[c] # s
    BY <2>2, <2>3, <2>5 DEF Hits, Containing
  <2>10. ASSUME Disjoint(doc), NEW c \in Containing
         PROVE  Depth(c) <= Depth(s)
    <3>1. c \in 1..Len(doc.parent) /\ Inside(pos, doc.range[c])
      BY <2>2 DEF Containing
    <3>2. c \in Around(doc.parent, s)
      BY <2>1, <2>4, <2>10, <3>1, AllAround
    <3>3. Around(doc.parent, c) \subseteq Around(doc.parent, s)
      BY <2>2, <2>4, <3>2, AroundFacts
    <3>4. IsFiniteSet(Around(doc.parent, s))
      <4>1. s \in Int /\ 0 \in Int
        BY <2>2, <2>4
      <4>2. IsFiniteSet(0..s)
        BY <4>1, FS_Interval
      <4> QED
        BY <2>6, <4>2, FS_Subset
    <3> QED
      BY <3>3, <3>4, FS_Subset DEF Depth
  <2> QED
    BY <2>4, <2>7, <2>8, <2>9, <2>10 DEF InnermostIsDeepest
<1> QED
  BY <1>1, SymbolsInvariance, PTL

\* The graph of find_references and one-shot analysis name the same top-level symbol.
THEOREM SameTopLevelSymbolHolds == Spec => []SameTopLevelSymbol
<1>1. SymbolsInv => SameTopLevelSymbol
  <2> SUFFICES ASSUME SymbolsInv, Disjoint(doc)
               PROVE  LET s == InnermostSymbol(doc, pos)
                          top == findContainingSymbol(doc, pos)
                      IN (top = 0 <=> s = 0) /\ top \in Around(doc.parent, s)
    BY DEF SameTopLevelSymbol
  <2>1. WellFormed(doc) /\ pos \in Positions
    BY DEF SymbolsInv
  <2>2. Rooted(doc.parent) /\ DOMAIN doc.parent = 1..Len(doc.parent) /\ Len(doc.parent) \in Nat
    BY <2>1 DEF WellFormed, Rooted
  <2>3. \A c \in 1..Len(doc.parent) :
          /\ RangeContains(doc.range[c], pos) <=> Inside(pos, doc.range[c])
          /\ containsPos(doc.range[c], pos) <=> Inside(pos, doc.range[c])
    BY <2>1, SamePositions DEF WellFormed
  <2>4. PICK s \in 0..Len(doc.parent) : s = InnermostSymbol(doc, pos)
    BY <2>1, InnermostStops
  <2>5. PICK hits : hits = Hits(doc, pos, 0)
    OBVIOUS
  <2>6. hits = {i \in DOMAIN doc.parent : doc.parent[i] = 0 /\ containsPos(doc.range[i], pos)}
    BY <2>2, <2>3, <2>5 DEF Hits
  <2>7. s = 0 <=> hits = {}
    BY <2>1, <2>4, <2>5, InnermostStops
  <2>8. PICK top : top = findContainingSymbol(doc, pos)
    OBVIOUS
  <2> DEFINE least == {i \in hits : \A j \in hits : LinesOf(doc.range[i]) <= LinesOf(doc.range[j])}
  <2>9. top = IF hits = {} THEN 0 ELSE Min(least)
    BY <2>6, <2>8 DEF findContainingSymbol
  <2>10. CASE hits = {}
    BY <2>2, <2>4, <2>7, <2>8, <2>9, <2>10, AroundFacts
  <2>11. CASE hits # {}
    <3>1. PICK c : c \in hits
      BY <2>11
    <3>2. c \in 1..Len(doc.parent) /\ Inside(pos, doc.range[c]) /\ doc.parent[c] = 0
      BY <2>3, <2>5, <3>1 DEF Hits
    <3>3. \A e \in hits : e = c
      BY <2>1, <2>3, <2>5, <3>2, OneSibling DEF Hits
    <3>4. LinesOf(doc.range[c]) <= LinesOf(doc.range[c])
      <4>1. doc.range[c] \in Ranges
        BY <2>1, <3>2 DEF WellFormed
      <4>2. LinesOf(doc.range[c]) \in Int
        BY <4>1 DEF Ranges, Positions, LinesOf
      <4> QED
        BY <4>2
    <3>5. least = {c}
      BY <3>1, <3>3, <3>4
    <3> HIDE DEF least
    <3>6. Min(least) = c
      <4>1. c \in Nat
        BY <2>2, <3>2
      <4> QED
        BY <3>5, <4>1 DEF Min
    <3>7. c \in Around(doc.parent, s)
      BY <2>1, <2>4, <3>2, AllAround
    <3> QED
      BY <2>2, <2>4, <2>7, <2>8, <2>9, <2>11, <3>2, <3>6, <3>7
  <2> QED
    BY <2>10, <2>11
<1> QED
  BY <1>1, SymbolsInvariance, PTL

\* FuzzyMatch accepts an ASCII query exactly when its runes occur in the name in order, for
\* queries and names of any length.
THEOREM FuzzyIsSubsequenceHolds == Spec => []FuzzyIsSubsequence
<1>1. SymbolsInv => FuzzyIsSubsequence
  BY FuzzyDecides DEF SymbolsInv, FuzzyIsSubsequence
<1> QED
  BY <1>1, SymbolsInvariance, PTL

-----------------------------------------------------------------------------
\* Startup.

Listed == [root : Roots \cup {NoRoot}, excludes : Excludes]

UsableEntries == [root : Roots, excludes : Excludes]

Registrations == [Roots -> Excludes \cup {NoExcludes, Unregistered}]

\* Every usable entry of f is in cfg.
KeepsUsable(cfg, f, n) == \A i \in 1..n : Usable(f[i]) => \E k \in 1..Len(cfg) : cfg[k] = f[i]

LEMMA AppendKeeps ==
  ASSUME NEW S, NEW s \in Seq(S), NEW x \in S
  PROVE  /\ Append(s, x) \in Seq(S) /\ Len(Append(s, x)) = Len(s) + 1
         /\ Append(s, x)[Len(s) + 1] = x
         /\ \A k \in 1..Len(s) : Append(s, x)[k] = s[k]
  OBVIOUS

\* Load keeps the usable entries, and only those.
LEMMA KeptEntries ==
  ASSUME NEW f \in Seq(Listed)
  PROVE  Kept(f) \in Seq(UsableEntries) /\ KeepsUsable(Kept(f), f, Len(f))
<1> DEFINE n == Len(f)
           S == Seq(UsableEntries)
           Step(g) == [i \in 0..n |-> IF i = 0 THEN <<>>
                                      ELSE IF Usable(f[i]) THEN Append(g[i - 1], f[i])
                                                           ELSE g[i - 1]]
           kept == CHOOSE g : g = Step(g)
           step == [i \in 0..n |-> [x \in S |->
                      IF i # 0 /\ Usable(f[i]) THEN Append(x, f[i]) ELSE x]]
<1>1. n \in Nat /\ \A i \in 1..n : f[i] \in Listed
  OBVIOUS
<1>2. \A i \in 1..n : Usable(f[i]) => f[i] \in UsableEntries
  BY <1>1 DEF Usable, Listed, UsableEntries
<1>3. /\ step \in [0..n -> [S -> S]]
      /\ \A i \in 1..n, x \in S :
           step[i][x] = IF Usable(f[i]) THEN Append(x, f[i]) ELSE x
  <2>1. ASSUME NEW i \in 0..n, NEW x \in S, i # 0 /\ Usable(f[i])
        PROVE  Append(x, f[i]) \in S
    <3>1. f[i] \in UsableEntries
      BY <1>1, <1>2, <2>1
    <3> QED
      BY <3>1, AppendKeeps
  <2>2. \A i \in 1..n : i \in 0..n /\ i # 0
    BY <1>1
  <2> HIDE DEF n, S
  <2> QED
    BY <2>1, <2>2
<1>4. <<>> \in S
  OBVIOUS
<1>5. HasRun(n, S, <<>>, step)
  <2> HIDE DEF n, S, step
  <2> QED
    BY <1>1, <1>3, <1>4, Loop
<1>6. PICK g \in [0..n -> S] : g[0] = <<>> /\ \A i \in 1..n : g[i] = step[i][g[i - 1]]
  BY <1>5 DEF HasRun
<1>7. g = Step(g)
  <2>1. ASSUME NEW i \in 1..n
        PROVE  g[i] = IF Usable(f[i]) THEN Append(g[i - 1], f[i]) ELSE g[i - 1]
    <3>1. i - 1 \in 0..n
      BY <1>1
    <3>2. g[i - 1] \in S
      BY <1>6, <3>1
    <3> HIDE DEF n, S, step
    <3> QED
      BY <1>3, <1>6, <3>2
  <2>2. \A i \in 0..n : i = 0 \/ i \in 1..n
    BY <1>1
  <2> HIDE DEF n, S, step
  <2> QED
    BY <1>6, <2>1, <2>2
<1>8. kept = Step(kept)
  <2> HIDE DEF Step
  <2> QED
    BY <1>7
<1>9. Kept(f) = kept[n]
  BY DEF Kept
<1>10. \A i \in 1..n : i - 1 \in 0..n /\ i \in 0..n /\ i # 0
  BY <1>1
<1>11. kept[0] = <<>>
  <2>1. 0 \in 0..n
    BY <1>1
  <2>2. kept[0] = Step(kept)[0]
    BY <1>8
  <2> HIDE DEF kept, n
  <2> QED
    BY <2>1, <2>2, Zenon
<1>12. \A i \in 1..n : kept[i] = IF Usable(f[i]) THEN Append(kept[i - 1], f[i]) ELSE kept[i - 1]
  BY <1>8, <1>10
<1> DEFINE T == {i \in 0..n : kept[i] \in Seq(UsableEntries) /\ KeepsUsable(kept[i], f, i)}
<1> HIDE DEF kept, S
<1>13. 0 \in T
  <2>1. KeepsUsable(<<>>, f, 0)
    BY DEF KeepsUsable
  <2>2. <<>> \in Seq(UsableEntries) /\ 0 \in 0..n
    BY <1>1
  <2> QED
    BY <1>11, <2>1, <2>2
<1>14. ASSUME NEW i \in 1..n, i - 1 \in T
       PROVE  i \in T
  <2>1. kept[i - 1] \in Seq(UsableEntries) /\ KeepsUsable(kept[i - 1], f, i - 1)
    BY <1>14
  <2>2. \A j \in 1..i : j = i \/ j \in 1..(i - 1)
    BY <1>1
  <2>3. CASE Usable(f[i])
    <3>1. kept[i] = Append(kept[i - 1], f[i]) /\ f[i] \in UsableEntries
      BY <1>2, <1>12, <2>3
    <3>2. PICK x \in Seq(UsableEntries) : x = kept[i - 1]
      BY <2>1
    <3>3. /\ kept[i] \in Seq(UsableEntries) /\ Len(kept[i]) = Len(x) + 1
          /\ kept[i][Len(x) + 1] = f[i]
          /\ \A k \in 1..Len(x) : kept[i][k] = x[k]
      BY <3>1, <3>2, AppendKeeps
    <3>4. /\ Len(x) + 1 \in 1..Len(kept[i])
          /\ \A k \in 1..Len(x) : k \in 1..Len(kept[i])
      BY <3>2, <3>3
    <3>5. KeepsUsable(kept[i], f, i)
      BY <2>1, <2>2, <3>2, <3>3, <3>4 DEF KeepsUsable
    <3> QED
      BY <1>10, <3>3, <3>5
  <2>4. CASE ~Usable(f[i])
    <3>1. kept[i] = kept[i - 1]
      BY <1>12, <2>4
    <3>2. KeepsUsable(kept[i], f, i)
      BY <2>1, <2>2, <2>4, <3>1 DEF KeepsUsable
    <3> QED
      BY <1>10, <2>1, <3>1, <3>2
  <2> QED
    BY <2>3, <2>4
<1>15. n \in T
  <2> HIDE DEF n, T
  <2>1. \A i \in 0..n : i \in T
    BY <1>1, <1>13, <1>14, Induct
  <2> QED
    BY <1>1, <2>1
<1> QED
  BY <1>9, <1>15

\* What AddProject does to a registration.
LEMMA AddProjectFacts ==
  ASSUME NEW reg \in Registrations, NEW r \in Roots, NEW e \in Excludes \cup {NoExcludes},
         NEW q \in Roots
  PROVE  /\ AddProject(reg, r, e) \in Registrations
         /\ q # r \/ reg[q] # Unregistered \/ disk[q] # "supported" =>
              AddProject(reg, r, e)[q] = reg[q]
         /\ reg[r] = Unregistered /\ disk[r] = "supported" => AddProject(reg, r, e)[r] = e
  BY DEF AddProject, Registrations

\* The registrations after the first n entries of cfg: a project that is registered stays
\* as it is, one that is not takes the excludes of its first entry.
FirstEntry(cfg, r, k) == cfg[k].root = r /\ \A j \in 1..(k - 1) : cfg[j].root # r

Applies(reg, cfg, n) ==
  \A r \in Roots :
    /\ registered[r] # Unregistered \/ disk[r] # "supported" => reg[r] = registered[r]
    /\ registered[r] = Unregistered /\ disk[r] = "supported" =>
         \/ reg[r] = Unregistered /\ \A j \in 1..n : cfg[j].root # r
         \/ \E k \in 1..n : FirstEntry(cfg, r, k) /\ reg[r] = cfg[k].excludes

LEMMA AppliedEntries ==
  ASSUME StartupAssumption, registered \in Registrations, NEW cfg \in Seq(UsableEntries)
  PROVE  Applied(cfg) \in Registrations /\ Applies(Applied(cfg), cfg, Len(cfg))
<1> DEFINE n == Len(cfg)
           Step(g) == [i \in 0..n |->
                         IF i = 0 THEN registered
                         ELSE AddProject(g[i - 1], cfg[i].root, cfg[i].excludes)]
           reg == CHOOSE g : g = Step(g)
           step == [i \in 0..n |-> [x \in Registrations |->
                      IF i # 0 THEN AddProject(x, cfg[i].root, cfg[i].excludes) ELSE x]]
<1>1. /\ n \in Nat
      /\ \A i \in 1..n : cfg[i].root \in Roots /\ cfg[i].excludes \in Excludes
  <2>1. n \in Nat /\ \A i \in 1..n : cfg[i] \in UsableEntries
    OBVIOUS
  <2>2. \A x \in UsableEntries : x.root \in Roots /\ x.excludes \in Excludes
    BY DEF UsableEntries
  <2> QED
    BY <2>1, <2>2
<1>2. \A i \in 1..n : i \in 0..n /\ i - 1 \in 0..n /\ i # 0
  BY <1>1
<1>3. \A i \in 1..n, x \in Registrations :
        AddProject(x, cfg[i].root, cfg[i].excludes) \in Registrations
  BY <1>1 DEF AddProject, Registrations
<1>4. /\ step \in [0..n -> [Registrations -> Registrations]]
      /\ \A i \in 1..n, x \in Registrations :
           step[i][x] = AddProject(x, cfg[i].root, cfg[i].excludes)
  <2>1. \A i \in 0..n : i # 0 => i \in 1..n
    BY <1>1
  <2> HIDE DEF n
  <2> QED
    BY <1>2, <1>3, <2>1
<1>5. HasRun(n, Registrations, registered, step)
  <2> HIDE DEF n, step
  <2> QED
    BY <1>1, <1>4, Loop
<1>6. PICK g \in [0..n -> Registrations] :
        g[0] = registered /\ \A i \in 1..n : g[i] = step[i][g[i - 1]]
  BY <1>5 DEF HasRun
<1>7. g = Step(g)
  <2>1. ASSUME NEW i \in 1..n
        PROVE  g[i] = AddProject(g[i - 1], cfg[i].root, cfg[i].excludes)
    <3>1. g[i - 1] \in Registrations
      BY <1>2, <1>6
    <3> HIDE DEF n, step
    <3> QED
      BY <1>4, <1>6, <3>1
  <2>2. \A i \in 0..n : i = 0 \/ i \in 1..n
    BY <1>1
  <2> HIDE DEF n, step
  <2> QED
    BY <1>6, <2>1, <2>2
<1>8. reg = Step(reg)
  <2> HIDE DEF Step
  <2> QED
    BY <1>7
<1>9. Applied(cfg) = reg[n]
  BY DEF Applied
<1>10. reg[0] = registered
  <2>1. 0 \in 0..n
    BY <1>1
  <2>2. reg[0] = Step(reg)[0]
    BY <1>8
  <2> HIDE DEF reg, n
  <2> QED
    BY <2>1, <2>2, Zenon
<1>11. \A i \in 1..n : reg[i] = AddProject(reg[i - 1], cfg[i].root, cfg[i].excludes)
  BY <1>2, <1>8
<1> DEFINE T == {i \in 0..n : reg[i] \in Registrations /\ Applies(reg[i], cfg, i)}
<1> HIDE DEF reg
<1>12. 0 \in T
  <2>1. Applies(registered, cfg, 0)
    BY DEF Applies
  <2> QED
    BY <1>1, <1>10, <2>1
<1>13. ASSUME NEW i \in 1..n, i - 1 \in T
       PROVE  i \in T
  <2>1. PICK old : old = reg[i - 1]
    OBVIOUS
  <2>2. PICK r0 \in Roots : r0 = cfg[i].root
    BY <1>1
  <2>3. PICK e0 \in Excludes : e0 = cfg[i].excludes
    BY <1>1
  <2>4. old \in Registrations /\ Applies(old, cfg, i - 1)
    BY <1>13, <2>1
  <2>5. reg[i] = AddProject(old, r0, e0)
    BY <1>11, <2>1, <2>2, <2>3
  <2>6. PICK new \in Registrations : new = reg[i]
    BY <2>4, <2>5, AddProjectFacts
  <2>7. ASSUME NEW q \in Roots
        PROVE  /\ q # r0 \/ old[q] # Unregistered \/ disk[q] # "supported" => new[q] = old[q]
               /\ q = r0 /\ old[q] = Unregistered /\ disk[q] = "supported" => new[q] = e0
    BY <2>4, <2>5, <2>6, AddProjectFacts
  <2>8. ASSUME NEW r \in Roots
        PROVE  /\ registered[r] # Unregistered \/ disk[r] # "supported" => new[r] = registered[r]
               /\ registered[r] = Unregistered /\ disk[r] = "supported" =>
                    \/ new[r] = Unregistered /\ \A j \in 1..i : cfg[j].root # r
                    \/ \E k \in 1..i : FirstEntry(cfg, r, k) /\ new[r] = cfg[k].excludes
    <3>1. CASE registered[r] # Unregistered \/ disk[r] # "supported"
      BY <2>4, <2>7, <3>1 DEF Applies
    <3>2. CASE registered[r] = Unregistered /\ disk[r] = "supported"
      <4>1. \A j \in 1..i : j = i \/ j \in 1..(i - 1)
        BY <1>1
      <4>2. CASE \E k \in 1..(i - 1) : FirstEntry(cfg, r, k) /\ old[r] = cfg[k].excludes
        <5>1. PICK k \in 1..(i - 1) : FirstEntry(cfg, r, k) /\ old[r] = cfg[k].excludes
          BY <4>2
        <5>2. k \in 1..i /\ k \in 1..n
          BY <1>1
        <5>3. old[r] # Unregistered
          BY <1>1, <5>1, <5>2, StartupAssumption
        <5>4. new[r] = cfg[k].excludes
          BY <2>7, <5>1, <5>3
        <5> QED
          BY <3>2, <5>1, <5>2, <5>4
      <4>3. CASE old[r] = Unregistered /\ \A j \in 1..(i - 1) : cfg[j].root # r
        <5>1. CASE r = r0
          <6>1. new[r] = cfg[i].excludes
            BY <2>3, <2>7, <3>2, <4>3, <5>1
          <6>2. FirstEntry(cfg, r, i)
            BY <2>2, <4>3, <5>1 DEF FirstEntry
          <6>3. i \in 1..i
            BY <1>1
          <6> QED
            BY <3>2, <6>1, <6>2, <6>3
        <5>2. CASE r # r0
          BY <2>2, <2>7, <3>2, <4>1, <4>3, <5>2
        <5> QED
          BY <5>1, <5>2
      <4> QED
        BY <2>4, <3>2, <4>2, <4>3 DEF Applies
    <3> QED
      BY <3>1, <3>2
  <2>9. Applies(new, cfg, i)
    BY <2>8 DEF Applies
  <2> QED
    BY <1>2, <2>6, <2>9
<1>14. n \in T
  <2> HIDE DEF n, T
  <2>1. \A i \in 0..n : i \in T
    BY <1>1, <1>12, <1>13, Induct
  <2> QED
    BY <1>1, <2>1
<1> QED
  BY <1>9, <1>14

\* A handler that answers after Applied names every entry it was given as a project or a
\* failure.
LEMMA AppliedAnswers ==
  ASSUME StartupAssumption, registered \in Registrations, NEW cfg \in Seq(UsableEntries),
         NEW i \in 1..Len(cfg)
  PROVE  cfg[i].root \in List(Applied(cfg)) \cup FailedEntries(cfg, Applied(cfg))
<1>1. cfg[i] \in UsableEntries /\ DOMAIN cfg = 1..Len(cfg)
  OBVIOUS
<1>2. cfg[i].root \in Roots
  BY <1>1 DEF UsableEntries
<1>3. PICK reg \in Registrations : reg = Applied(cfg) /\ Applies(reg, cfg, Len(cfg))
  BY AppliedEntries
<1>4. reg[cfg[i].root] = Unregistered => disk[cfg[i].root] # "supported"
  <2>1. \A k \in 1..Len(cfg) : cfg[k].excludes # Unregistered
    <3>1. \A k \in 1..Len(cfg) : cfg[k] \in UsableEntries
      OBVIOUS
    <3>2. \A x \in UsableEntries : x.excludes # Unregistered
      BY StartupAssumption DEF UsableEntries
    <3> QED
      BY <3>1, <3>2
  <2> QED
    BY <1>2, <1>3, <2>1 DEF Applies
<1>5. CASE reg[cfg[i].root] = Unregistered
  BY <1>1, <1>3, <1>4, <1>5 DEF FailedEntries, Fails
<1>6. CASE reg[cfg[i].root] # Unregistered
  BY <1>2, <1>3, <1>6 DEF List
<1> QED
  BY <1>5, <1>6

\* A project that Applied registers has the excludes of matchingProject.
LEMMA AppliedMatches ==
  ASSUME StartupAssumption, registered \in Registrations, NEW cfg \in Seq(UsableEntries),
         NEW r \in Roots, Applied(cfg)[r] # registered[r]
  PROVE  registered[r] = Unregistered /\ Applied(cfg)[r] = matchingProject(cfg, r)
<1>1. DOMAIN cfg = 1..Len(cfg) /\ Len(cfg) \in Nat
  OBVIOUS
<1>2. PICK reg \in Registrations : reg = Applied(cfg) /\ Applies(reg, cfg, Len(cfg))
  BY AppliedEntries
<1>3. registered[r] = Unregistered /\ disk[r] = "supported" /\ reg[r] # Unregistered
  BY <1>2 DEF Applies
<1>4. PICK k \in 1..Len(cfg) : FirstEntry(cfg, r, k) /\ reg[r] = cfg[k].excludes
  BY <1>2, <1>3 DEF Applies
<1>5. PICK hits : hits = {i \in DOMAIN cfg : cfg[i].root = r}
  OBVIOUS
<1>6. k \in hits /\ hits # {} /\ \A i \in hits : k <= i
  BY <1>1, <1>4, <1>5 DEF FirstEntry
<1>7. hits \in SUBSET Nat
  BY <1>1, <1>5
<1>8. Min(hits) = k
  <2>1. \A x \in hits : (\A y \in hits : x <= y) => x = k
    BY <1>6, <1>7
  <2>2. k \in hits /\ \A y \in hits : k <= y
    BY <1>6
  <2> QED
    BY <2>1, <2>2, Zenon DEF Min
<1> QED
  BY <1>2, <1>3, <1>4, <1>5, <1>6, <1>8 DEF matchingProject

\* What Load finds in a file.
Loads(cfg, warn, f) ==
  /\ f = NoConfig => cfg = NoConfig /\ warn = {}
  /\ f = BrokenConfig => cfg = NoConfig /\ warn = {0}
  /\ f \in Seq(Listed) =>
       /\ cfg \in Seq(UsableEntries)
       /\ \A i \in 1..Len(f) : i \in warn \/ \E k \in 1..Len(cfg) : cfg[k] = f[i]

Contents == Seq(Listed) \cup {NoConfig, BrokenConfig}

LEMMA LoadFacts ==
  ASSUME StartupAssumption, NEW f \in Contents
  PROVE  Loads(Load(f).cfg, Load(f).warn, f)
<1>1. NoConfig # BrokenConfig /\ NoConfig \notin Seq(Listed) /\ BrokenConfig \notin Seq(Listed)
  BY StartupAssumption DEF Listed
<1>2. CASE f = NoConfig
  BY <1>1, <1>2 DEF Load, Loads
<1>3. CASE f = BrokenConfig
  BY <1>1, <1>3 DEF Load, Loads
<1>4. CASE f \in Seq(Listed)
  <2>1. Load(f).cfg = Kept(f) /\ Load(f).warn = Warnings(f)
    BY <1>1, <1>4 DEF Load
  <2>2. Kept(f) \in Seq(UsableEntries) /\ KeepsUsable(Kept(f), f, Len(f))
    BY <1>4, KeptEntries
  <2>3. DOMAIN f = 1..Len(f)
    BY <1>4
  <2> QED
    BY <1>1, <1>4, <2>1, <2>2, <2>3 DEF Loads, KeepsUsable, Warnings
<1> QED
  BY <1>2, <1>3, <1>4 DEF Contents

-----------------------------------------------------------------------------
\* What the adapter holds is what Load made of the file it holds.
StartupInv ==
  /\ registered \in Registrations
  /\ file \in Contents /\ loaded \in Contents
  /\ Loads(startupCfg, startupWarn, loaded)

LEMMA NoConfigIsNoFile == StartupAssumption => NoConfig \notin Seq(UsableEntries)
<1>1. \A x \in UsableEntries : x \in Listed
  BY DEF UsableEntries, Listed
<1>2. \A cfg \in Seq(UsableEntries) : cfg \in Seq(Listed)
  <2>1. ASSUME NEW cfg \in Seq(UsableEntries)
        PROVE  cfg \in Seq(Listed)
    <3>1. Len(cfg) \in Nat /\ cfg \in [1..Len(cfg) -> Listed]
      BY <1>1
    <3> QED
      BY <3>1
  <2> QED
    BY <2>1
<1> QED
  BY <1>2 DEF StartupAssumption, Listed

LEMMA EmptyOrEntries ==
  ASSUME StartupAssumption, NEW f \in Contents, NEW cfg, NEW warn, Loads(cfg, warn, f)
  PROVE  cfg = NoConfig \/ cfg \in Seq(UsableEntries)
  BY DEF Loads, Contents

LEMMA AutoAdds ==
  ASSUME StartupAssumption, registered \in Registrations
  PROVE  /\ AddProject(registered, Cwd, NoExcludes) \in Registrations
         /\ \A r \in Roots : AddProject(registered, Cwd, NoExcludes)[r] # registered[r] =>
              /\ registered[r] = Unregistered
              /\ AddProject(registered, Cwd, NoExcludes)[r] = NoExcludes
  BY DEF StartupAssumption, AddProject, Registrations

LEMMA StartupInvariance == StartupSpec => []StartupInv
<1>1. StartupInit => StartupInv
  <2> SUFFICES ASSUME StartupInit
               PROVE  StartupInv
    OBVIOUS
  <2>1. file \in Contents /\ loaded = file
    BY StartupAssumption DEF StartupInit, Contents, Listed
  <2>2. Loads(startupCfg, startupWarn, loaded)
    BY <2>1, StartupAssumption, LoadFacts DEF StartupInit
  <2>3. registered \in Registrations
    BY DEF StartupInit, Registrations
  <2> QED
    BY <2>1, <2>2, <2>3 DEF StartupInv
<1>2. StartupInv /\ [StartupNext]_startupVars => StartupInv'
  <2> SUFFICES ASSUME StartupInv, [StartupNext]_startupVars
               PROVE  StartupInv'
    OBVIOUS
  <2>1. startupCfg = NoConfig \/ startupCfg \in Seq(UsableEntries)
    BY StartupAssumption, EmptyOrEntries DEF StartupInv
  <2>2. CASE InitializeFromConfig
    <3>1. registered' \in Registrations
      BY <2>1, <2>2, StartupAssumption, AppliedEntries
      DEF StartupInv, InitializeFromConfig, Apply, Respond
    <3> QED
      BY <2>2, <3>1 DEF StartupInv, InitializeFromConfig
  <2>3. CASE AutoAddCwd
    BY <2>3, StartupAssumption, AutoAdds DEF StartupInv, AutoAddCwd, Respond
  <2>4. CASE ReloadConfig
    <3>1. Loads(startupCfg', startupWarn', file)
      BY <2>4, StartupAssumption, LoadFacts DEF StartupInv, ReloadConfig
    <3>2. startupCfg' = NoConfig \/ startupCfg' \in Seq(UsableEntries)
      BY <3>1, StartupAssumption, EmptyOrEntries DEF StartupInv
    <3>3. registered' \in Registrations
      BY <2>4, <3>2, StartupAssumption, AppliedEntries
      DEF StartupInv, ReloadConfig, Apply, Respond
    <3> QED
      BY <2>4, <3>1, <3>3 DEF StartupInv, ReloadConfig
  <2>5. CASE \E r \in Roots, e \in Excludes : AddProjectTool(r, e)
    <3>1. registered' \in Registrations
      BY <2>5 DEF StartupInv, AddProjectTool, AddProject, Registrations
    <3> QED
      BY <2>5, <3>1 DEF StartupInv, AddProjectTool
  <2>6. CASE EditFile
    BY <2>6, StartupAssumption DEF StartupInv, EditFile, Contents, Listed
  <2>7. CASE ChangeDisk
    BY <2>7 DEF StartupInv, ChangeDisk
  <2>8. CASE UNCHANGED startupVars
    BY <2>8 DEF StartupInv, startupVars
  <2> QED
    BY <2>2, <2>3, <2>4, <2>5, <2>6, <2>7, <2>8 DEF StartupNext
<1> QED
  BY <1>1, <1>2, PTL DEF StartupSpec

\* initialize and reload_config answer for every entry of the file they worked from.
THEOREM EveryEntryAnsweredHolds == StartupSpec => []EveryEntryAnswered
<1>1. StartupInit => EveryEntryAnswered
  BY DEF StartupInit, EveryEntryAnswered
<1>2. ASSUME StartupInv, NEW to, NEW f \in Contents, NEW cfg, NEW warn, Loads(cfg, warn, f),
             cfg # NoConfig, Apply(to, cfg, warn)
      PROVE  /\ f # BrokenConfig /\ reply'.dropped = warn
             /\ f \notin {NoConfig, BrokenConfig} =>
                  \A i \in DOMAIN f :
                    i \in warn \/ f[i].root \in reply'.projects \cup reply'.failed
  <2>1. f \in Seq(Listed) /\ cfg \in Seq(UsableEntries)
    BY <1>2 DEF Loads, Contents
  <2>2. /\ reply'.dropped = warn
        /\ reply'.projects = List(Applied(cfg))
        /\ reply'.failed = FailedEntries(cfg, Applied(cfg))
    BY <1>2 DEF Apply, Respond
  <2>3. \A k \in 1..Len(cfg) : cfg[k].root \in reply'.projects \cup reply'.failed
    BY <1>2, <2>1, <2>2, StartupAssumption, AppliedAnswers DEF StartupInv
  <2>4. DOMAIN f = 1..Len(f)
    BY <2>1
  <2> QED
    BY <1>2, <2>1, <2>2, <2>3, <2>4, StartupAssumption DEF Loads, Listed
<1>3. StartupInv /\ EveryEntryAnswered /\ [StartupNext]_startupVars => EveryEntryAnswered'
  <2> SUFFICES ASSUME StartupInv, EveryEntryAnswered, [StartupNext]_startupVars
               PROVE  EveryEntryAnswered'
    OBVIOUS
  <2>1. CASE InitializeFromConfig
    BY <1>2, <2>1 DEF StartupInv, InitializeFromConfig, EveryEntryAnswered
  <2>2. CASE AutoAddCwd
    <3>1. loaded' = loaded /\ reply'.dropped = startupWarn /\ startupCfg = NoConfig
      BY <2>2 DEF AutoAddCwd, Respond
    <3>2. loaded \in {NoConfig, BrokenConfig} /\ (loaded = BrokenConfig => 0 \in startupWarn)
      BY <3>1, StartupAssumption, NoConfigIsNoFile DEF StartupInv, Loads, Contents
    <3> QED
      BY <3>1, <3>2 DEF EveryEntryAnswered
  <2>3. CASE ReloadConfig
    <3>1. Loads(startupCfg', startupWarn', file) /\ loaded' = file
      BY <2>3, StartupAssumption, LoadFacts DEF StartupInv, ReloadConfig
    <3>2. CASE startupCfg' # NoConfig
      BY <1>2, <2>3, <3>1, <3>2 DEF StartupInv, ReloadConfig, EveryEntryAnswered
    <3>3. CASE startupCfg' = NoConfig
      <4>1. reply'.dropped = startupWarn'
        BY <2>3, <3>3 DEF ReloadConfig, Respond
      <4>2. file \in {NoConfig, BrokenConfig} /\ (file = BrokenConfig => 0 \in startupWarn')
        BY <3>1, <3>3, StartupAssumption, NoConfigIsNoFile DEF StartupInv, Loads, Contents
      <4> QED
        BY <3>1, <4>1, <4>2 DEF EveryEntryAnswered
    <3> QED
      BY <3>2, <3>3
  <2>4. CASE \E r \in Roots, e \in Excludes : AddProjectTool(r, e)
    BY <2>4 DEF AddProjectTool, EveryEntryAnswered
  <2>5. CASE EditFile
    BY <2>5 DEF EditFile, EveryEntryAnswered
  <2>6. CASE ChangeDisk
    BY <2>6 DEF ChangeDisk, EveryEntryAnswered
  <2>7. CASE UNCHANGED startupVars
    BY <2>7 DEF startupVars, EveryEntryAnswered
  <2> QED
    BY <2>1, <2>2, <2>3, <2>4, <2>5, <2>6, <2>7 DEF StartupNext
<1> QED
  BY <1>1, <1>3, StartupInvariance, PTL DEF StartupSpec

\* The excludes of a registration are those the one-shot analysis would use, and stay.
THEOREM SameExcludesHolds == StartupSpec => SameExcludes
<1> DEFINE Settles ==
      \A r \in Roots :
        registered'[r] # registered[r] =>
          /\ registered[r] = Unregistered
          /\ reply'.to # "add_project" =>
               registered'[r] = IF startupCfg' = NoConfig THEN NoExcludes
                                ELSE matchingProject(startupCfg', r)
<1>1. StartupInv /\ StartupInv' /\ [StartupNext]_startupVars => [Settles]_startupVars
  <2> SUFFICES ASSUME StartupInv, StartupInv', StartupNext
               PROVE  Settles
    OBVIOUS
  <2>0. startupCfg' = NoConfig \/ startupCfg' \in Seq(UsableEntries)
    BY StartupAssumption, EmptyOrEntries DEF StartupInv
  <2>1. CASE InitializeFromConfig
    <3>1. startupCfg' # NoConfig /\ registered' = Applied(startupCfg')
      BY <2>1 DEF InitializeFromConfig, Apply, Respond
    <3> QED
      BY <2>0, <3>1, StartupAssumption, AppliedMatches DEF StartupInv
  <2>2. CASE AutoAddCwd
    BY <2>2, StartupAssumption, AutoAdds DEF StartupInv, AutoAddCwd, Respond
  <2>3. CASE ReloadConfig
    <3>1. CASE startupCfg' = NoConfig
      BY <2>3, <3>1 DEF ReloadConfig, Respond
    <3>2. CASE startupCfg' # NoConfig
      <4>1. registered' = Applied(startupCfg')
        BY <2>3, <3>2 DEF ReloadConfig, Apply, Respond
      <4> QED
        BY <2>0, <3>2, <4>1, StartupAssumption, AppliedMatches DEF StartupInv
    <3> QED
      BY <3>1, <3>2
  <2>4. CASE \E r \in Roots, e \in Excludes : AddProjectTool(r, e)
    BY <2>4 DEF StartupInv, Registrations, AddProjectTool, AddProject
  <2>5. CASE EditFile
    BY <2>5 DEF EditFile
  <2>6. CASE ChangeDisk
    BY <2>6 DEF ChangeDisk
  <2> QED
    BY <2>1, <2>2, <2>3, <2>4, <2>5, <2>6 DEF StartupNext
<1> QED
  BY <1>1, StartupInvariance, PTL DEF StartupSpec, SameExcludes

-----------------------------------------------------------------------------
\* SourceTree.

USE NamesAssumption

-----------------------------------------------------------------------------
\* A path has at least one name, and the way to it begins with its first name and
\* ends with the path itself.
LEMMA WayToAFile ==
  ASSUME TreeInit
  PROVE  /\ path \in Seq(Dirs \cup Files) /\ Len(path) \in Nat \ {0}
         /\ path \in Entries
         /\ SubSeq(path, 1, 1) \in Entries
         /\ born \in 0 .. Len(path) - 1
<1>1. PICK dirs \in BoundedSeq(Dirs, MaxDirs), f \in Files : path = Append(dirs, f)
  BY DEF TreeInit, Paths
<1>2. PICK m \in 0..MaxDirs : dirs \in [1..m -> Dirs]
  BY <1>1 DEF BoundedSeq, SeqOf
<1>3. dirs \in Seq(Dirs \cup Files)
  BY <1>2
<1>4. path \in Seq(Dirs \cup Files) /\ Len(path) = Len(dirs) + 1 /\ Len(dirs) \in Nat
  BY <1>1, <1>3
<1>5. SubSeq(path, 1, Len(path)) = path
  BY <1>4
<1>6. 1 \in 1..Len(path) /\ Len(path) \in 1..Len(path)
  BY <1>4
<1> QED
  BY <1>4, <1>5, <1>6 DEF Entries, Below, TreeInit

\* Everything below an entry that a pattern of the kind p/** matches is matched.
LEMMA BelowCovers ==
  ASSUME path \in Seq(Dirs \cup Files), NEW e \in Entries,
         NEW p \in Patterns, p.kind = "below", PathMatch(p, e)
  PROVE  PathMatch(p, path)
<1>1. PICK k \in 1..Len(path) : e = SubSeq(path, 1, k)
  BY DEF Entries, Below
<1>2. IsPrefix(p.at, e)
  BY DEF PathMatch
<1>3. p.at \in Seq(Dirs \cup Files) /\ Len(p.at) \in Nat /\ Len(path) \in Nat
  BY DEF Patterns
<1>4. e \in Seq(Dirs \cup Files) /\ Len(e) = k /\ \A i \in 1..k : e[i] = path[i]
  BY <1>1, <1>3
<1>5. Len(p.at) <= k /\ SubSeq(p.at, 1, Len(p.at)) = SubSeq(e, 1, Len(p.at))
  BY <1>2, <1>4 DEF IsPrefix
<1>6. SubSeq(e, 1, Len(p.at)) = SubSeq(path, 1, Len(p.at))
  <2> DEFINE n == Len(p.at)
  <2>1. n \in Nat /\ n <= k /\ k <= Len(path)
    BY <1>1, <1>3, <1>5
  <2> HIDE DEF n
  <2>2. \A i \in 1..n : e[i] = path[i]
    BY <1>4, <2>1
  <2>3. SubSeq(e, 1, n) = [i \in 1..n |-> e[i]] /\ SubSeq(path, 1, n) = [i \in 1..n |-> path[i]]
    BY <1>4, <2>1
  <2> QED
    BY <2>2, <2>3 DEF n
<1>7. IsPrefix(p.at, path)
  BY <1>1, <1>3, <1>5, <1>6 DEF IsPrefix
<1> QED
  BY <1>7 DEF PathMatch

\* A session's excludes are among the watcher's.
LEMMA SessionBelowWatch ==
  ASSUME TreeInit
  PROVE  SessionExcludes \subseteq WatchExcludes
BY DEF TreeInit, SessionExcludes, WatchExcludes

LEMMA ExcludesArePatterns ==
  ASSUME TreeInit
  PROVE  SessionExcludes \subseteq Patterns
BY DEF TreeInit, SessionExcludes

-----------------------------------------------------------------------------
\* The preload, find_symbols, the analysis and the event loop agree on the files of a
\* project, whichever of its directories were made after the watch began.
THEOREM OneSourceTreeHolds == TreeInit => OneSourceTree
<1> SUFFICES ASSUME TreeInit
             PROVE  OneSourceTree
  OBVIOUS
<1>1. /\ path \in Entries /\ Len(path) \in Nat \ {0}
      /\ born \in 0 .. Len(path) - 1
  BY WayToAFile
<1>2. Entries = Below(born) \cup (Below(Len(path) - 1) \ Below(born)) \cup {path}
  <2>1. Entries = Below(Len(path) - 1) \cup {path}
    <3>1. 1..Len(path) = (1 .. Len(path) - 1) \cup {Len(path)}
      BY <1>1
    <3>2. SubSeq(path, 1, Len(path)) = path
      BY WayToAFile
    <3> QED
      BY <3>1, <3>2 DEF Entries, Below
  <2>2. Below(born) \subseteq Below(Len(path) - 1)
    <3>1. 1..born \subseteq 1 .. Len(path) - 1
      BY <1>1
    <3> QED
      BY <3>1 DEF Below
  <2> QED
    BY <2>1, <2>2
<1>3. FollowedByEvents => WalkSourceFiles
  <2> SUFFICES ASSUME FollowedByEvents
               PROVE  WalkSourceFiles
    OBVIOUS
  <2>1. \A e \in Entries : ~Dotted(e) /\ ~IsExcluded(e, WatchExcludes)
    BY <1>2 DEF FollowedByEvents, Reported, Watched, WalkDirectories, Reached, allowed
  <2>2. \A e \in Entries : ~IsExcluded(e, SessionExcludes)
    BY <2>1, SessionBelowWatch DEF IsExcluded
  <2> QED
    BY <2>1, <2>2 DEF FollowedByEvents, Reported, Watched, WalkDirectories, Reached, matches,
       WalkSourceFiles
<1>4. ASSUME WalkSourceFiles, ~Of(WatchExcludes \ SessionExcludes)
      PROVE  FollowedByEvents
  <2>1. \A e \in Entries : ~Dotted(e) /\ ~IsExcluded(e, SessionExcludes)
    BY <1>4 DEF WalkSourceFiles, Reached
  <2>2. \A e \in Entries : ~IsExcluded(e, WatchExcludes)
    BY <1>4, <2>1 DEF Of, IsExcluded
  <2> QED
    BY <1>2, <1>4, <2>1, <2>2 DEF FollowedByEvents, Reported, Watched, WalkDirectories,
       Reached, allowed, matches, WalkSourceFiles
<1> QED
  BY <1>3, <1>4 DEF OneSourceTree, findFiles, WalkSourceFiles

\* find_references never drops a file that find_symbols lists, and what it sees
\* beyond those is one of four exceptions, for directories of any depth.
THEOREM ReferencesSeeSourcesHolds == TreeInit => ReferencesSeeSources
<1> SUFFICES ASSUME TreeInit
             PROVE  ReferencesSeeSources
  OBVIOUS
<1>1. ASSUME WalkSourceFiles
      PROVE  FollowedByReferences
  <2>1. \A e \in Entries : ~Dotted(e) /\ ~IsExcluded(e, SessionExcludes)
    BY <1>1 DEF WalkSourceFiles, Reached
  <2>2. Last(SubSeq(path, 1, 1)) = path[1]
    BY WayToAFile DEF Last
  <2>3. path[1] \notin DotNames
    BY <2>1, <2>2, WayToAFile DEF Dotted
  <2> QED
    BY <2>1, <2>3, WayToAFile DEF FollowedByReferences, RelPathInRoot
<1>2. ASSUME FollowedByReferences, ~WalkSourceFiles, ~dotRoot, MatchesAnyExt(lang),
             \A e \in Entries : ~Dotted(e)
      PROVE  \E p \in SessionExcludes :
               p.kind # "below" /\ \E e \in Entries \ {path} : PathMatch(p, e)
  <2>1. PICK e \in Entries : IsExcluded(e, SessionExcludes)
    BY <1>2 DEF WalkSourceFiles, Reached
  <2>2. PICK p \in SessionExcludes : PathMatch(p, e)
    BY <2>1 DEF IsExcluded
  <2>3. ~PathMatch(p, path)
    BY <1>2, <2>2 DEF FollowedByReferences, IsExcluded
  <2>4. e # path
    BY <2>2, <2>3
  <2>5. p.kind # "below"
    BY <2>2, <2>3, BelowCovers, ExcludesArePatterns, WayToAFile
  <2> QED
    BY <2>2, <2>4, <2>5
<1> QED
  BY <1>1, <1>2 DEF ReferencesSeeSources

HIDE NamesAssumption

-----------------------------------------------------------------------------
\* StderrTail.

USE CapacityAssumption

\* Until it has wrapped, the ring is the history so far. After that, the slots
\* below the position are the youngest lines and those from it on the oldest.
RingHoldsHistory ==
  IF full
    THEN /\ Len(history) >= Capacity
         /\ \A i \in Slots :
              /\ i < at  => slots[i] = history[Len(history) - at + i + 1]
              /\ i >= at => slots[i] = history[Len(history) - at - Capacity + i + 1]
    ELSE /\ at = Len(history)
         /\ \A i \in Slots : i < at => slots[i] = history[i + 1]

TailInv == TailTypeOK /\ RingHoldsHistory

\* The position after at, without the remainder.
LEMMA NextPosition ==
  ASSUME NEW p \in Slots
  PROVE  (p + 1) % Capacity = IF p + 1 = Capacity THEN 0 ELSE p + 1
<1>1. CASE p + 1 = Capacity
  BY <1>1 DEF Slots
<1>2. CASE p + 1 # Capacity
  <2>1. p + 1 \in 0 .. Capacity - 1
    BY <1>2 DEF Slots
  <2> QED
    BY <1>2, <2>1
<1> QED
  BY <1>1, <1>2

\* An empty ring holds the empty history.
LEMMA TailInvInit == TailInit => TailInv
<1> SUFFICES ASSUME TailInit
             PROVE  TailInv
  OBVIOUS
<1>1. TailTypeOK
  <2>1. at \in Slots
    BY DEF TailInit, Slots
  <2>2. slots \in [Slots -> Lines \cup {NoLine}]
    BY DEF TailInit
  <2>3. full \in BOOLEAN
    BY DEF TailInit
  <2>4. history \in Seq(Lines)
    BY DEF TailInit
  <2> QED
    BY <2>1, <2>2, <2>3, <2>4 DEF TailTypeOK
<1>2. at = 0 /\ ~full /\ Len(history) = 0
  BY DEF TailInit
<1>3. \A i \in Slots : ~(i < at)
  BY <1>2 DEF Slots
<1> QED
  BY <1>1, <1>2, <1>3 DEF TailInv, RingHoldsHistory

\* Adding a line keeps the invariant, whether or not the ring wraps.
LEMMA TailInvAdd ==
  ASSUME TailInv, NEW line \in Lines, Add(line)
  PROVE  TailInv'
<1> DEFINE next == IF at + 1 = Capacity THEN 0 ELSE at + 1
<1>1. (at + 1) % Capacity = next
  BY NextPosition DEF TailInv, TailTypeOK
<1>2. /\ slots' = [slots EXCEPT ![at] = line]
      /\ at' = next
      /\ full' = (full \/ next = 0)
      /\ history' = Append(history, line)
  BY <1>1 DEF Add, Wrapped
<1>3. TailTypeOK'
  BY <1>2 DEF TailInv, TailTypeOK, Slots
<1>4. /\ Len(history') = Len(history) + 1
      /\ history'[Len(history) + 1] = line
      /\ \A k \in 1..Len(history) : history'[k] = history[k]
  BY <1>2 DEF TailInv, TailTypeOK
<1>5. \A i \in Slots : slots'[i] = IF i = at THEN line ELSE slots[i]
  BY <1>2 DEF TailInv, TailTypeOK
<1>6. at \in Nat /\ Len(history) \in Nat /\ at < Capacity
  BY DEF TailInv, TailTypeOK, Slots
<1>7. CASE full
  <2>1. full' /\ Len(history') >= Capacity
    <3>1. full'
      BY <1>2, <1>7
    <3>2. Len(history) >= Capacity
      BY <1>7 DEF TailInv, RingHoldsHistory
    <3> QED
      BY <1>4, <1>6, <3>1, <3>2
  <2>2. ASSUME NEW i \in Slots
        PROVE  /\ i < at' => slots'[i] = history'[Len(history') - at' + i + 1]
               /\ i >= at' => slots'[i] = history'[Len(history') - at' - Capacity + i + 1]
    <3> DEFINE n == Len(history)
    <3>1. n \in Nat /\ n >= Capacity /\ i \in 0 .. Capacity - 1 /\ Len(history') = n + 1
      BY <1>4, <1>6, <1>7 DEF TailInv, RingHoldsHistory, Slots
    <3>2. /\ i < at => slots[i] = history[n - at + i + 1]
          /\ i > at => slots[i] = history[n - at - Capacity + i + 1]
      BY <1>6, <1>7, <3>1 DEF TailInv, RingHoldsHistory
    <3>3. /\ i < at => slots'[i] = history'[n - at + i + 1]
          /\ i > at => slots'[i] = history'[n - at - Capacity + i + 1]
          /\ i = at => slots'[i] = history'[n + 1]
      <4>1. i < at => n - at + i + 1 \in 1..n
        BY <1>6, <3>1
      <4>2. i > at => n - at - Capacity + i + 1 \in 1..n
        BY <1>6, <3>1
      <4>3. \A k \in 1..n : history'[k] = history[k]
        BY <1>4
      <4>4. i # at => slots'[i] = slots[i]
        BY <1>5
      <4>5. CASE i < at
        BY <1>6, <3>1, <3>2, <4>1, <4>3, <4>4, <4>5
      <4>6. CASE i > at
        BY <1>6, <3>1, <3>2, <4>2, <4>3, <4>4, <4>6
      <4>7. i = at => slots'[i] = history'[n + 1]
        BY <1>4, <1>5
      <4> QED
        BY <1>6, <3>1, <4>5, <4>6, <4>7
    <3>4. slots'[i] = IF i <= at THEN history'[n - at + i + 1]
                                ELSE history'[n - at - Capacity + i + 1]
      <4>1. i = at => n - at + i + 1 = n + 1
        BY <1>6, <3>1
      <4>2. i < at \/ i = at \/ i > at
        BY <1>6, <3>1
      <4>3. i <= at <=> i < at \/ i = at
        BY <1>6, <3>1
      <4>4. i > at => ~(i < at \/ i = at)
        BY <1>6, <3>1
      <4> QED
        BY <3>3, <4>1, <4>2, <4>3, <4>4
    <3>5. CASE at + 1 = Capacity
      <4>1. at' = 0 /\ i <= at /\ i >= at' /\ ~(i < at')
        BY <1>2, <1>6, <3>1, <3>5
      <4>2. Len(history') - at' - Capacity + i + 1 = n - at + i + 1
        BY <1>6, <3>1, <3>5, <4>1
      <4> QED
        BY <3>4, <4>1, <4>2
    <3>6. CASE at + 1 # Capacity
      <4>1. at' = at + 1 /\ (i < at' <=> i <= at) /\ (i >= at' <=> ~(i <= at))
        BY <1>2, <1>6, <3>1, <3>6
      <4>2. Len(history') - at' + i + 1 = n - at + i + 1
        BY <1>6, <3>1, <4>1
      <4>3. Len(history') - at' - Capacity + i + 1 = n - at - Capacity + i + 1
        BY <1>6, <3>1, <4>1
      <4> QED
        BY <3>4, <4>1, <4>2, <4>3
    <3> QED
      BY <3>5, <3>6
  <2> QED
    BY <1>3, <2>1, <2>2 DEF TailInv, RingHoldsHistory
<1>8. CASE ~full
  <2>1. CASE at + 1 = Capacity
    <3>1. full' /\ at' = 0 /\ Len(history') = Capacity
      BY <1>2, <1>4, <1>6, <1>8, <2>1 DEF TailInv, RingHoldsHistory
    <3>2. \A i \in Slots : slots'[i] = history'[i + 1]
      <4>1. /\ at = Len(history)
            /\ \A i \in Slots : i < at => slots[i] = history[i + 1]
        BY <1>6, <1>8 DEF TailInv, RingHoldsHistory
      <4>2. ASSUME NEW i \in Slots, i < at
            PROVE  slots'[i] = history'[i + 1]
        <5>1. i # at /\ i + 1 \in 1..Len(history)
          BY <1>6, <4>1, <4>2 DEF Slots
        <5> QED
          BY <1>4, <1>5, <4>1, <4>2, <5>1
      <4>3. at \in Slots => slots'[at] = history'[at + 1]
        BY <1>4, <1>5, <4>1
      <4>4. \A i \in Slots : i < at \/ i = at
        BY <1>6, <2>1, CapacityAssumption DEF Slots
      <4> QED
        BY <4>2, <4>3, <4>4
    <3> QED
      BY <1>3, <3>1, <3>2 DEF TailInv, RingHoldsHistory, Slots
  <2>2. CASE at + 1 # Capacity
    <3>1. ~full' /\ at' = at + 1 /\ at' = Len(history')
      <4>1. at' = at + 1 /\ at' # 0
        BY <1>2, <1>6, <2>2
      <4>2. ~full'
        BY <1>2, <1>8, <4>1
      <4>3. at = Len(history)
        BY <1>8 DEF TailInv, RingHoldsHistory
      <4> QED
        BY <1>4, <4>1, <4>2, <4>3
    <3>2. \A i \in Slots : i < at' => slots'[i] = history'[i + 1]
      <4>1. /\ at = Len(history)
            /\ \A i \in Slots : i < at => slots[i] = history[i + 1]
        BY <1>6, <1>8 DEF TailInv, RingHoldsHistory
      <4>2. ASSUME NEW i \in Slots, i < at
            PROVE  slots'[i] = history'[i + 1]
        <5>1. i # at /\ i + 1 \in 1..Len(history)
          BY <1>6, <4>1, <4>2 DEF Slots
        <5> QED
          BY <1>4, <1>5, <4>1, <4>2, <5>1
      <4>3. at \in Slots => slots'[at] = history'[at + 1]
        BY <1>4, <1>5, <4>1
      <4>4. \A i \in Slots : i < at' => i < at \/ i = at
        BY <1>6, <3>1, CapacityAssumption DEF Slots
      <4> QED
        BY <4>2, <4>3, <4>4
    <3> QED
      BY <1>3, <3>1, <3>2 DEF TailInv, RingHoldsHistory
  <2> QED
    BY <2>1, <2>2
<1> QED
  BY <1>7, <1>8

\* The invariant gives the property: both are the same Capacity lines.
LEMMA TailInvSuffices == TailInv => TailIsLastLines
<1> SUFFICES ASSUME TailInv
             PROVE  Snapshot = LastLines(history, Capacity)
  BY DEF TailIsLastLines
<1> DEFINE n == Len(history)
<1>1. n \in Nat /\ at \in Nat /\ at < Capacity /\ history \in Seq(Lines)
  BY DEF TailInv, TailTypeOK, Slots
<1>2. history = [i \in 1..n |-> history[i]]
  BY <1>1
<1>3. CASE ~full
  <2>1. at = n /\ Snapshot = [i \in 1..n |-> slots[i - 1]]
    BY <1>3 DEF Snapshot, TailInv, RingHoldsHistory
  <2>2. \A i \in 1..n : slots[i - 1] = history[i]
    BY <1>1, <1>3, <2>1 DEF TailInv, RingHoldsHistory, Slots
  <2> QED
    BY <1>1, <1>2, <2>1, <2>2 DEF LastLines
<1>4. CASE full
  <2>1. n >= Capacity
    BY <1>4 DEF TailInv, RingHoldsHistory
  <2>2. ASSUME NEW i \in 1..Capacity
        PROVE  Snapshot[i] = history[n - Capacity + i]
    <3>1. CASE i <= Capacity - at
      <4>1. /\ at + i - 1 \in Slots
            /\ at + i - 1 >= at
            /\ n - at - Capacity + (at + i - 1) + 1 = n - Capacity + i
        BY <1>1, <3>1 DEF Slots
      <4>2. Snapshot[i] = slots[at + i - 1]
        BY <1>4, <3>1 DEF Snapshot
      <4> QED
        BY <1>4, <4>1, <4>2 DEF TailInv, RingHoldsHistory
    <3>2. CASE ~(i <= Capacity - at)
      <4>1. /\ at + i - 1 - Capacity \in Slots
            /\ at + i - 1 - Capacity < at
            /\ n - at + (at + i - 1 - Capacity) + 1 = n - Capacity + i
        BY <1>1, <3>2 DEF Slots
      <4>2. Snapshot[i] = slots[at + i - 1 - Capacity]
        BY <1>4, <3>2 DEF Snapshot
      <4> QED
        BY <1>4, <4>1, <4>2 DEF TailInv, RingHoldsHistory
    <3> QED
      BY <3>1, <3>2
  <2>3. Snapshot = [i \in 1..Capacity |-> Snapshot[i]]
    BY <1>4 DEF Snapshot
  <2>4. LastLines(history, Capacity) = [i \in 1..Capacity |-> history[n - Capacity + i]]
    <3>1. CASE n = Capacity
      BY <1>1, <1>2, <3>1 DEF LastLines
    <3>2. CASE n > Capacity
      BY <1>1, <3>2 DEF LastLines
    <3> QED
      BY <1>1, <2>1, <3>1, <3>2
  <2> QED
    BY <2>2, <2>3, <2>4
<1> QED
  BY <1>3, <1>4

\* Whatever a server writes, the ring keeps its last Capacity lines in order.
THEOREM TailKeepsLastLines == TailSpec => [](TailTypeOK /\ TailIsLastLines)
<1>1. ASSUME TailInv, [TailNext]_tailVars
      PROVE  TailInv'
  <2>1. CASE TailNext
    BY <1>1, <2>1, TailInvAdd DEF TailNext
  <2>2. CASE UNCHANGED tailVars
    BY <1>1, <2>2 DEF TailInv, TailTypeOK, RingHoldsHistory, tailVars, Slots
  <2> QED
    BY <1>1, <2>1, <2>2
<1>2. TailInv => TailTypeOK /\ TailIsLastLines
  BY TailInvSuffices DEF TailInv
<1> QED
  BY TailInvInit, <1>1, <1>2, PTL DEF TailSpec
=============================================================================
