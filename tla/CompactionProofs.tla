---------------------------- MODULE CompactionProofs ----------------------------
(****************************************************************************)
(* What holds of the memory of a conversation for any sizes, budgets and    *)
(* lengths: the turns that have left the prompt are the oldest ones, each   *)
(* is in exactly one memo and every memo is still read; a question leaves   *)
(* only behind a floor of answers; a result is pruned only when it was      *)
(* complete and enough newer ones are.  Nothing is assumed of what a turn   *)
(* weighs: the sums are never opened.                                       *)
(****************************************************************************)
EXTENDS Compaction, FiniteSetTheorems, SequenceTheorems, WellFoundedInduction, TLAPS

\* A memo is raw, and its sources are conversation turns that have left the prompt.
MemoInv ==
    /\ Summaries \subseteq Raw
    /\ \A s \in Summaries : \A i \in turns[s].sources :
          i \in Conversation /\ turns[i].compacted

\* A turn that has left the prompt is a source of one memo and of no other.
SourceInv ==
    \A i \in Conversation : turns[i].compacted =>
       \E s \in Summaries : /\ i \in turns[s].sources
                            /\ \A q \in Summaries : i \in turns[q].sources => q = s

\* The turns that have left the prompt are the oldest ones.
PrefixInv == \A i, j \in Conversation : i < j /\ turns[j].compacted => turns[i].compacted

Later(i) == {j \in Conversation : j > i}

\* Each of them left behind a floor of newer turns.
FloorInv ==
    \A i \in Conversation : turns[i].compacted => Cardinality(Later(i)) >= HardFloor

\* What is being summarised may leave: it is raw, the oldest, and behind the floor.
ChosenInv ==
    /\ pc # "summarise" => chosen = {}
    /\ \A i \in chosen :
          /\ \A j \in Active : j < i => j \in chosen
          /\ Cardinality(Later(i)) >= HardFloor

NewerResults(r) == {s \in Runs : Earlier(r, s) /\ RunAt(s).status = "completed"}
Stale(r) == RunAt(r).status = "completed" /\ Cardinality(NewerResults(r)) >= RecentRuns

\* A result that was pruned while its turn stayed, or is about to be, is stale.
PruneInv ==
    /\ \A r \in todo : Stale(r)
    /\ \A r \in Runs : RunAt(r).compacted /\ ~turns[r[1]].compacted => Stale(r)

IInv ==
    /\ TypeOK /\ MemoInv /\ SourceInv /\ PrefixInv /\ FloorInv /\ ChosenInv /\ PruneInv

--------------------------------------------------------------------------------
(* Sequences, by induction over their length                                    *)

\* A set of naturals that is not empty has a least element.
LEMMA LeastElement ==
    ASSUME NEW S, S \subseteq Nat, S # {}
    PROVE  \E x \in S : \A y \in S : x <= y
<1>1. \E x \in S : \A y \in S : ~ (<<y, x>> \in OpToRel(<, Nat))
  BY NatLessThanWellFounded, WFMin, Zenon
<1>2. PICK x \in S : \A y \in S : ~ (<<y, x>> \in OpToRel(<, Nat))
  BY <1>1
<1>3. \A y \in S : <<y, x>> \in Nat \X Nat
  OBVIOUS
<1>4. \A y \in S : ~(y < x)
  BY <1>2, <1>3 DEF OpToRel
<1> QED BY <1>4

\* Induction, with the naturals that satisfy the claim as a set.
LEMMA Induction ==
    ASSUME NEW S, 0 \in S, \A n \in Nat : n \in S => n + 1 \in S
    PROVE  \A n \in Nat : n \in S
<1> SUFFICES ASSUME Nat \ S # {} PROVE FALSE
  OBVIOUS
<1>1. PICK x \in Nat \ S : \A y \in Nat \ S : x <= y
  BY LeastElement
<1>2. x # 0 /\ x - 1 \in Nat
  BY <1>1
<1>3. x - 1 \in S
  BY <1>1, <1>2
<1> QED BY <1>1, <1>2, <1>3

\* FlattenSeq computes what its definition says, length by length.
LEMMA FlattenSteps ==
    ASSUME NEW T, NEW s \in Seq(Seq(T)), s # <<>>
    PROVE  \E f : /\ FlattenSeq(s) = f[Len(s)] /\ f[1] = s[1]
                  /\ \A n \in 1 .. Len(s) : n + 1 \in 1 .. Len(s) => f[n+1] = f[n] \o s[n+1]
<1> DEFINE Of(n, f) == f = [i \in 1 .. n |-> IF i = 1 THEN s[i] ELSE f[i-1] \o s[i]]
           L == Len(s)
           Reached == {n \in Nat : \E f : Of(n, f)}
           G == CHOOSE g : Of(L, g)
<1>1. L \in Nat /\ L # 0
  BY LenProperties, EmptySeq
<1>2. \A n \in Nat : n \in Reached
  <2>1. 0 \in Reached
    <3>1. Of(0, <<>>)
      <4>1. 1 .. 0 = {}
        OBVIOUS
      <4> QED BY <4>1
    <3> QED BY <3>1
  <2>2. ASSUME NEW n \in Nat, n \in Reached
        PROVE  n + 1 \in Reached
    <3>1. PICK f : Of(n, f)
      BY <2>2
    <3> DEFINE g == [i \in 1 .. n+1 |-> IF i \in 1 .. n THEN f[i]
                                        ELSE IF i = 1 THEN s[i] ELSE f[i-1] \o s[i]]
    <3>2. \A i \in 1 .. n : g[i] = f[i]
      OBVIOUS
    <3>3. \A i \in 1 .. n+1 : i - 1 \in 1 .. n \/ i = 1
      OBVIOUS
    <3>4. \A i \in 1 .. n+1 : g[i] = IF i = 1 THEN s[i] ELSE g[i-1] \o s[i]
      <4> SUFFICES ASSUME NEW i \in 1 .. n+1
                   PROVE  g[i] = IF i = 1 THEN s[i] ELSE g[i-1] \o s[i]
        OBVIOUS
      <4>1. g[i] = IF i = 1 THEN s[i] ELSE f[i-1] \o s[i]
        BY <3>1
      <4>2. CASE i = 1
        BY <4>1, <4>2
      <4>3. CASE i # 1
        <5>1. g[i-1] = f[i-1]
          BY <3>2, <3>3, <4>3
        <5> HIDE DEF g
        <5> QED BY <5>1, <4>1, <4>3
      <4> QED BY <4>2, <4>3
    <3>5. Of(n+1, g)
      <4>1. g = [i \in 1 .. n+1 |-> g[i]]
        OBVIOUS
      <4> HIDE DEF g
      <4> QED BY <4>1, <3>4
    <3> HIDE DEF g, Of
    <3>6. n + 1 \in Nat
      OBVIOUS
    <3> QED BY <3>5, <3>6
  <2> HIDE DEF Reached
  <2> QED BY <2>1, <2>2, Induction
<1>3. Of(L, G)
  <2>1. \E g : Of(L, g)
    BY <1>1, <1>2
  <2> HIDE DEF Of
  <2> QED BY <2>1
<1>4. FlattenSeq(s) = G[L]
  BY <1>1 DEF FlattenSeq
<1> HIDE DEF G
<1>5. G[1] = s[1]
  <2>1. 1 \in 1 .. L
    BY <1>1
  <2>2. G[1] = IF 1 = 1 THEN s[1] ELSE G[1-1] \o s[1]
    BY <2>1, <1>3
  <2> QED BY <2>2
<1>6. ASSUME NEW n \in 1 .. L, n + 1 \in 1 .. L
      PROVE  G[n+1] = G[n] \o s[n+1]
  <2>1. G[n+1] = IF n+1 = 1 THEN s[n+1] ELSE G[(n+1)-1] \o s[n+1]
    BY <1>6, <1>3
  <2>2. (n+1) - 1 = n /\ n + 1 # 1
    OBVIOUS
  <2> QED BY <2>1, <2>2
<1> QED BY <1>4, <1>5, <1>6

\* What a step appends is found behind what was there.
LEMMA Concat ==
    ASSUME NEW T, NEW s \in Seq(T), NEW t \in Seq(T)
    PROVE  /\ s \o t \in Seq(T) /\ Len(s \o t) = Len(s) + Len(t)
           /\ \A i \in 1 .. Len(s) : (s \o t)[i] = s[i]
           /\ \A i \in 1 .. Len(t) : (s \o t)[Len(s) + i] = t[i]
           /\ Len(s) \in Nat /\ Len(t) \in Nat
OBVIOUS

\* The lengths of the prefixes: where each of the sequences begins.
IsOffsets(o, s, n, flat) ==
    /\ o \in [0 .. n -> Nat] /\ o[0] = 0 /\ Len(flat) = o[n]
    /\ \A i \in 1 .. n :
          /\ o[i] = o[i-1] + Len(s[i])
          /\ \A j \in 1 .. Len(s[i]) : flat[o[i-1] + j] = s[i][j]
    /\ \A k \in 1 .. o[n] : \E i \in 1 .. n : k - o[i-1] \in 1 .. Len(s[i])
    /\ \A i, j \in 0 .. n : i <= j => o[i] <= o[j]

\* Of a single sequence.
LEMMA OffsetsOfOne ==
    ASSUME NEW T, NEW s, s[1] \in Seq(T)
    PROVE  \E o : IsOffsets(o, s, 1, s[1])
<1> DEFINE o == [i \in 0 .. 1 |-> IF i = 0 THEN 0 ELSE Len(s[1])]
<1>1. Len(s[1]) \in Nat /\ 1 .. 1 = {1} /\ 1 - 1 = 0
  BY LenProperties
<1>2. o \in [0 .. 1 -> Nat] /\ o[0] = 0 /\ o[1] = Len(s[1])
  BY <1>1
<1> HIDE DEF o
<1>3. IsOffsets(o, s, 1, s[1])
  BY <1>1, <1>2 DEF IsOffsets
<1> QED BY <1>3

\* Of one sequence more.
LEMMA OffsetsStep ==
    ASSUME NEW T, NEW s, NEW n \in Nat, n >= 1, NEW flat \in Seq(T), s[n+1] \in Seq(T),
           \A i \in 1 .. n : s[i] \in Seq(T),
           NEW o, IsOffsets(o, s, n, flat)
    PROVE  \E q : IsOffsets(q, s, n+1, flat \o s[n+1])
<1> DEFINE q == [i \in 0 .. n+1 |-> IF i = n+1 THEN o[n] + Len(s[n+1]) ELSE o[i]]
           both == flat \o s[n+1]
<1>1. /\ both \in Seq(T) /\ Len(both) = Len(flat) + Len(s[n+1])
      /\ \A i \in 1 .. Len(flat) : both[i] = flat[i]
      /\ \A i \in 1 .. Len(s[n+1]) : both[Len(flat) + i] = s[n+1][i]
      /\ Len(flat) \in Nat /\ Len(s[n+1]) \in Nat
  BY Concat
<1>2. /\ o \in [0 .. n -> Nat] /\ o[0] = 0 /\ Len(flat) = o[n]
      /\ \A i \in 1 .. n :
            /\ o[i] = o[i-1] + Len(s[i])
            /\ \A j \in 1 .. Len(s[i]) : flat[o[i-1] + j] = s[i][j]
      /\ \A k \in 1 .. o[n] : \E i \in 1 .. n : k - o[i-1] \in 1 .. Len(s[i])
      /\ \A i, j \in 0 .. n : i <= j => o[i] <= o[j]
  BY DEF IsOffsets
<1>3. /\ q \in [0 .. n+1 -> Nat] /\ q[0] = 0 /\ q[n+1] = o[n] + Len(s[n+1])
      /\ \A i \in 0 .. n : q[i] = o[i] /\ o[i] \in Nat
      /\ \A i \in 1 .. n : q[i] = o[i] /\ q[i-1] = o[i-1] /\ o[i-1] \in Nat /\ o[i] \in Nat
      /\ (n+1) - 1 = n /\ q[n] = o[n] /\ o[n] \in Nat
  BY <1>1, <1>2
<1>4. \A i \in 1 .. n : Len(s[i]) \in Nat
  BY LenProperties
<1> HIDE DEF q, both
<1>5. ASSUME NEW i \in 1 .. n+1
      PROVE  /\ q[i] = q[i-1] + Len(s[i])
             /\ \A j \in 1 .. Len(s[i]) : both[q[i-1] + j] = s[i][j]
  <2>1. CASE i = n+1
    <3>1. q[i-1] = o[n] /\ q[i] = o[n] + Len(s[i]) /\ s[i] = s[n+1]
      BY <2>1, <1>3
    <3>2. \A j \in 1 .. Len(s[n+1]) : both[o[n] + j] = s[n+1][j]
      BY <1>1, <1>2
    <3> QED BY <3>1, <3>2, <1>1, <1>3, <2>1
  <2>2. CASE i \in 1 .. n
    <3>1. /\ q[i] = q[i-1] + Len(s[i]) /\ q[i-1] \in Nat /\ Len(s[i]) \in Nat
          /\ \A j \in 1 .. Len(s[i]) : flat[q[i-1] + j] = s[i][j]
      BY <2>2, <1>2, <1>3, <1>4
    <3>2. q[i] <= o[n]
      <4>1. i \in 0 .. n /\ n \in 0 .. n /\ i <= n
        BY <2>2
      <4> QED BY <4>1, <1>2, <1>3
    <3>3. ASSUME NEW j \in 1 .. Len(s[i])
          PROVE  both[q[i-1] + j] = s[i][j]
      <4>1. q[i-1] + j \in 1 .. Len(flat)
        <5>1. Len(flat) = o[n] /\ Len(flat) \in Nat
          BY <1>1, <1>2
        <5>2. q[i-1] \in Nat /\ Len(s[i]) \in Nat /\ q[i-1] + Len(s[i]) <= Len(flat)
          BY <3>1, <3>2, <5>1
        <5> QED BY <5>1, <5>2, <3>3
      <4> QED BY <4>1, <1>1, <3>1
    <3> QED BY <3>1, <3>3
  <2> QED BY <2>1, <2>2
<1>6. ASSUME NEW k \in 1 .. q[n+1]
      PROVE  \E i \in 1 .. n+1 : k - q[i-1] \in 1 .. Len(s[i])
  <2>1. CASE k \in 1 .. o[n]
    <3>1. PICK i \in 1 .. n : k - o[i-1] \in 1 .. Len(s[i])
      BY <2>1, <1>2
    <3>2. k - q[i-1] \in 1 .. Len(s[i]) /\ i \in 1 .. n+1
      BY <3>1, <1>3
    <3> QED BY <3>2
  <2>2. CASE k \notin 1 .. o[n]
    <3>1. k - q[(n+1)-1] \in 1 .. Len(s[n+1])
      <4>1. q[n+1] = o[n] + Len(s[n+1]) /\ o[n] \in Nat /\ Len(s[n+1]) \in Nat
        BY <1>1, <1>3
      <4>2. k \in Nat /\ k >= 1 /\ k <= o[n] + Len(s[n+1]) /\ k > o[n]
        BY <2>2, <4>1, <1>6
      <4>3. k - o[n] \in 1 .. Len(s[n+1])
        BY <4>1, <4>2
      <4> QED BY <4>3, <1>3
    <3>2. n + 1 \in 1 .. n+1
      OBVIOUS
    <3> QED BY <3>1, <3>2
  <2> QED BY <2>1, <2>2
<1>7. IsOffsets(q, s, n+1, both)
  <2>1. Len(both) = q[n+1]
    BY <1>1, <1>2, <1>3
  <2>2. ASSUME NEW i \in 0 .. n+1, NEW j \in 0 .. n+1, i <= j
        PROVE  q[i] <= q[j]
    <3>1. CASE j \in 0 .. n
      <4>1. i \in 0 .. n
        BY <3>1, <2>2
      <4> QED BY <3>1, <4>1, <2>2, <1>2, <1>3
    <3>2. CASE j = n+1 /\ i \in 0 .. n
      <4>1. o[i] <= o[n] /\ n \in 0 .. n
        <5>1. n \in 0 .. n /\ i <= n
          BY <3>2
        <5> QED BY <5>1, <3>2, <1>2
      <4>2. q[i] = o[i] /\ q[j] = o[n] + Len(s[n+1]) /\ o[i] \in Nat /\ o[n] \in Nat
        BY <3>2, <1>3
      <4> QED BY <4>1, <4>2, <1>1
    <3>3. CASE i = n+1 /\ j = n+1
      <4>1. q[i] \in Nat
        BY <1>3, <3>3
      <4> QED BY <3>3, <4>1
    <3> QED BY <3>1, <3>2, <3>3, <2>2
  <2> QED BY <2>1, <2>2, <1>3, <1>5, <1>6 DEF IsOffsets
<1> QED BY <1>7 DEF both

\* Where the elements of the sequences are in the flattened one.
LEMMA FlattenOffsets ==
    ASSUME NEW T, NEW s \in Seq(Seq(T))
    PROVE  FlattenSeq(s) \in Seq(T) /\ \E o : IsOffsets(o, s, Len(s), FlattenSeq(s))
<1>1. CASE s = <<>>
  <2>1. FlattenSeq(s) = <<>> /\ Len(s) = 0 /\ <<>> \in Seq(T) /\ Len(<<>>) = 0
    BY <1>1 DEF FlattenSeq
  <2> DEFINE o == [i \in 0 .. 0 |-> 0]
  <2>2. o \in [0 .. 0 -> Nat] /\ o[0] = 0 /\ 1 .. 0 = {}
    OBVIOUS
  <2> HIDE DEF o
  <2>3. IsOffsets(o, s, 0, <<>>)
    BY <2>1, <2>2 DEF IsOffsets
  <2> QED BY <2>1, <2>3
<1>2. CASE s # <<>>
  <2>1. Len(s) \in Nat /\ Len(s) >= 1 /\ \A i \in 1 .. Len(s) : s[i] \in Seq(T)
    BY <1>2, EmptySeq, LenProperties, ElementOfSeq
  <2> DEFINE L == Len(s)
  <2>2. PICK f : /\ FlattenSeq(s) = f[L] /\ f[1] = s[1]
                 /\ \A n \in 1 .. L : n + 1 \in 1 .. L => f[n+1] = f[n] \o s[n+1]
    BY <1>2, FlattenSteps
  <2> DEFINE Good(n) == f[n] \in Seq(T) /\ \E o : IsOffsets(o, s, n, f[n])
             S == {n \in Nat : n + 1 <= L => Good(n+1)}
  <2> HIDE DEF L
  <2>3. L \in Nat /\ L >= 1 /\ \A i \in 1 .. L : s[i] \in Seq(T)
    BY <2>1 DEF L
  <2>4. Good(1)
    <3>1. 1 \in 1 .. L
      BY <2>3
    <3>2. f[1] = s[1] /\ s[1] \in Seq(T)
      BY <2>2, <2>3, <3>1
    <3> QED BY <3>2, OffsetsOfOne
  <2>5. ASSUME NEW n \in Nat, n >= 1, n + 1 <= L, Good(n)
        PROVE  Good(n+1)
    <3>1. n \in 1 .. L /\ n + 1 \in 1 .. L /\ \A i \in 1 .. n : i \in 1 .. L
      BY <2>3, <2>5
    <3>2. f[n+1] = f[n] \o s[n+1]
      BY <2>2, <3>1
    <3>3. s[n+1] \in Seq(T) /\ f[n] \in Seq(T) /\ \A i \in 1 .. n : s[i] \in Seq(T)
      BY <2>3, <2>5, <3>1
    <3>4. f[n] \o s[n+1] \in Seq(T)
      BY <3>3, Concat
    <3>5. \E o : IsOffsets(o, s, n, f[n])
      BY <2>5
    <3>6. \E o : IsOffsets(o, s, n+1, f[n] \o s[n+1])
      BY <3>3, <3>5, <2>5, OffsetsStep
    <3> QED BY <3>2, <3>4, <3>6
  <2> HIDE DEF Good
  <2>6. \A n \in Nat : n \in S
    <3>1. 0 \in S
      BY <2>4
    <3>2. ASSUME NEW n \in Nat, n \in S
          PROVE  n + 1 \in S
      <4>1. CASE (n + 1) + 1 <= L
        <5>1. Good(n+1)
          BY <3>2, <4>1, <2>3
        <5>2. Good((n+1)+1)
          BY <5>1, <2>5, <4>1
        <5> QED BY <5>2
      <4>2. CASE ~((n + 1) + 1 <= L)
        BY <4>2
      <4> QED BY <4>1, <4>2
    <3> HIDE DEF S
    <3> QED BY <3>1, <3>2, Induction
  <2>7. Good(L)
    <3>1. L - 1 \in Nat /\ (L - 1) + 1 = L
      BY <2>3
    <3>2. L - 1 \in S
      BY <2>6, <3>1
    <3>3. (L - 1) + 1 <= L => Good((L - 1) + 1)
      BY <3>2
    <3> QED BY <3>1, <3>3, <2>3
  <2> QED BY <2>7, <2>2 DEF Good, L
<1> QED BY <1>1, <1>2

\* Every element of a sequence is in the flattened one, and no other is.
LEMMA FlattenElements ==
    ASSUME NEW T, NEW s \in Seq(Seq(T))
    PROVE  /\ \A i \in 1 .. Len(s) : \A j \in 1 .. Len(s[i]) :
                 \E k \in 1 .. Len(FlattenSeq(s)) : FlattenSeq(s)[k] = s[i][j]
           /\ \A k \in 1 .. Len(FlattenSeq(s)) :
                 \E i \in 1 .. Len(s) : \E j \in 1 .. Len(s[i]) : FlattenSeq(s)[k] = s[i][j]
<1> DEFINE F == FlattenSeq(s)
           L == Len(s)
<1>1. /\ F \in Seq(T) /\ L \in Nat /\ \A i \in 1 .. L : Len(s[i]) \in Nat
      /\ \E o : IsOffsets(o, s, L, F)
  BY FlattenOffsets, LenProperties, ElementOfSeq
<1> HIDE DEF F, L
<1>2. PICK o : IsOffsets(o, s, L, F)
  BY <1>1
<1>3. /\ o \in [0 .. L -> Nat] /\ Len(F) = o[L]
      /\ \A i \in 1 .. L :
            /\ o[i] = o[i-1] + Len(s[i])
            /\ \A j \in 1 .. Len(s[i]) : F[o[i-1] + j] = s[i][j]
      /\ \A k \in 1 .. o[L] : \E i \in 1 .. L : k - o[i-1] \in 1 .. Len(s[i])
      /\ \A i, j \in 0 .. L : i <= j => o[i] <= o[j]
  BY <1>2 DEF IsOffsets
<1>4. \A i \in 1 .. L : i - 1 \in 0 .. L /\ i \in 0 .. L /\ L \in 0 .. L /\ i <= L
  BY <1>1
<1>5. \A i \in 1 .. L : o[i-1] \in Nat /\ o[i] \in Nat /\ o[i] <= o[L] /\ o[L] \in Nat
  BY <1>3, <1>4
<1>6. ASSUME NEW i \in 1 .. L, NEW j \in 1 .. Len(s[i])
      PROVE  \E k \in 1 .. Len(F) : F[k] = s[i][j]
  <2>1. F[o[i-1] + j] = s[i][j] /\ o[i] = o[i-1] + Len(s[i])
    BY <1>3
  <2>2. o[i-1] + j \in 1 .. Len(F)
    <3>1. o[i-1] \in Nat /\ o[L] \in Nat /\ o[i-1] + Len(s[i]) <= o[L]
      BY <1>5, <2>1
    <3>2. Len(s[i]) \in Nat /\ Len(F) = o[L]
      BY <1>1, <1>3
    <3> QED BY <3>1, <3>2
  <2> QED BY <2>1, <2>2
<1>7. ASSUME NEW k \in 1 .. Len(F)
      PROVE  \E i \in 1 .. L : \E j \in 1 .. Len(s[i]) : F[k] = s[i][j]
  <2>1. PICK i \in 1 .. L : k - o[i-1] \in 1 .. Len(s[i])
    BY <1>3
  <2>2. F[o[i-1] + (k - o[i-1])] = s[i][k - o[i-1]]
    BY <1>3, <2>1
  <2>3. o[i-1] + (k - o[i-1]) = k
    BY <1>5
  <2> QED BY <2>1, <2>2, <2>3
<1> QED BY <1>6, <1>7 DEF F, L

\* The last element is the last one of the last sequence that has any.
LEMMA FlattenLast ==
    ASSUME NEW T, NEW s \in Seq(Seq(T)), NEW i \in 1 .. Len(s), s[i] # <<>>,
           \A j \in i+1 .. Len(s) : s[j] = <<>>
    PROVE  /\ Len(FlattenSeq(s)) >= 1
           /\ FlattenSeq(s)[Len(FlattenSeq(s))] = s[i][Len(s[i])]
<1> DEFINE F == FlattenSeq(s)
           L == Len(s)
<1>1. /\ F \in Seq(T) /\ L \in Nat /\ \A j \in 1 .. L : Len(s[j]) \in Nat
      /\ \E o : IsOffsets(o, s, L, F)
  BY FlattenOffsets, LenProperties, ElementOfSeq
<1>2. Len(s[i]) >= 1 /\ Len(s[i]) \in Nat
  BY EmptySeq, LenProperties, ElementOfSeq
<1>3. \A j \in 1 .. L : j > i => Len(s[j]) = 0
  OBVIOUS
<1>4. i \in 1 .. L
  OBVIOUS
<1> HIDE DEF F, L
<1>5. PICK o : IsOffsets(o, s, L, F)
  BY <1>1
<1>6. /\ o \in [0 .. L -> Nat] /\ Len(F) = o[L]
      /\ \A j \in 1 .. L :
            /\ o[j] = o[j-1] + Len(s[j])
            /\ \A k \in 1 .. Len(s[j]) : F[o[j-1] + k] = s[j][k]
      /\ \A k \in 1 .. o[L] : \E j \in 1 .. L : k - o[j-1] \in 1 .. Len(s[j])
      /\ \A j, k \in 0 .. L : j <= k => o[j] <= o[k]
  BY <1>5 DEF IsOffsets
<1>7. i - 1 \in 0 .. L /\ i \in 0 .. L /\ L \in 0 .. L /\ i <= L /\ i - 1 \in Nat
  BY <1>1, <1>4
<1>8. /\ o[i-1] \in Nat /\ o[i] \in Nat /\ o[L] \in Nat
      /\ o[i] <= o[L] /\ o[i] = o[i-1] + Len(s[i])
  BY <1>4, <1>6, <1>7
<1>9. o[L] \in 1 .. o[L]
  BY <1>2, <1>8
<1>10. PICK m \in 1 .. L : o[L] - o[m-1] \in 1 .. Len(s[m])
  BY <1>6, <1>9
<1>11. m \in 0 .. L /\ m - 1 \in 0 .. L
  BY <1>1
<1>12. o[m-1] \in Nat /\ o[m] \in Nat /\ o[m] = o[m-1] + Len(s[m]) /\ Len(s[m]) \in Nat
  BY <1>1, <1>6, <1>11
<1>13. o[m] >= o[L] /\ Len(s[m]) >= 1
  <2>1. o[L] - o[m-1] >= 1 /\ o[L] - o[m-1] <= Len(s[m])
    BY <1>8, <1>10, <1>12
  <2>2. o[L] \in Nat /\ o[m-1] \in Nat /\ Len(s[m]) \in Nat /\ o[m] = o[m-1] + Len(s[m])
    BY <1>8, <1>12
  <2> QED BY <2>1, <2>2
<1>14. m <= i
  BY <1>3, <1>4, <1>13
<1>15. m = i
  <2>1. CASE m <= i - 1
    <3>1. o[m] <= o[i-1]
      BY <1>6, <1>7, <1>11, <2>1
    <3>2. o[i-1] + Len(s[i]) <= o[L] /\ o[L] <= o[m]
      BY <1>8, <1>13
    <3>3. o[i-1] \in Nat /\ o[L] \in Nat /\ o[m] \in Nat
      BY <1>8, <1>12
    <3> QED BY <3>1, <3>2, <3>3, <1>2
  <2> QED BY <2>1, <1>4, <1>14
<1>16. o[L] = o[i]
  BY <1>8, <1>12, <1>13, <1>15
<1>17. F[o[i-1] + Len(s[i])] = s[i][Len(s[i])]
  <2>1. Len(s[i]) \in 1 .. Len(s[i])
    BY <1>2
  <2> QED BY <1>4, <1>6, <2>1
<1> QED BY <1>6, <1>8, <1>9, <1>16, <1>17 DEF F

--------------------------------------------------------------------------------
(* Rows and counts                                                              *)

\* The sizes, one by one.
LEMMA Sizes ==
    /\ SummarySize \in Nat /\ Window \in Nat /\ MinBudget \in Nat
    /\ MaxIterations \in Nat /\ MaxIterations >= 1 /\ MaxCalls \in Nat
    /\ HardFloor \in Nat /\ RecentRuns \in Nat
BY SizesAssumption

\* Where the turns are, and what the rows hold.
LEMMA Rows ==
    TypeOK =>
      /\ Len(turns) \in Nat /\ DOMAIN turns = 1 .. Len(turns)
      /\ \A i \in DOMAIN turns : turns[i] \in TurnRow /\ turns[i].runs \in Seq(ToolRun)
      /\ Active \subseteq Conversation /\ Conversation \subseteq DOMAIN turns
<1> SUFFICES ASSUME TypeOK
             PROVE  /\ Len(turns) \in Nat /\ DOMAIN turns = 1 .. Len(turns)
                    /\ \A i \in DOMAIN turns : turns[i] \in TurnRow /\ turns[i].runs \in Seq(ToolRun)
                    /\ Active \subseteq Conversation /\ Conversation \subseteq DOMAIN turns
  OBVIOUS
<1>1. turns \in Seq(TurnRow)
  BY DEF TypeOK
<1>2. Len(turns) \in Nat /\ DOMAIN turns = 1 .. Len(turns)
  BY <1>1, LenProperties
<1>3. \A i \in DOMAIN turns : turns[i] \in TurnRow
  BY <1>1, <1>2, ElementOfSeq
<1>4. \A t \in TurnRow : t.runs \in Seq(ToolRun)
  BY DEF TurnRow
<1>5. Active \subseteq Conversation /\ Conversation \subseteq DOMAIN turns
  BY DEF Active, Raw, Conversation, Summaries
<1> QED BY <1>2, <1>3, <1>4, <1>5

Counted ==
    /\ IsFiniteSet(Conversation) /\ IsFiniteSet(Runs)
    /\ \A i : IsFiniteSet(Later(i)) /\ Cardinality(Later(i)) \in Nat
    /\ \A r : IsFiniteSet(NewerResults(r)) /\ Cardinality(NewerResults(r)) \in Nat

\* What is counted is finite.
LEMMA TurnsFinite == TypeOK => Counted
<1> SUFFICES ASSUME TypeOK PROVE Counted
  OBVIOUS
<1>1. IsFiniteSet(DOMAIN turns)
  BY Rows, FS_Interval
<1>2. IsFiniteSet(Conversation)
  BY <1>1, Rows, FS_Subset
<1>3. IsFiniteSet((DOMAIN turns) \X (1 .. MaxCalls))
  <2>1. MaxCalls \in Int
    BY SizesAssumption
  <2>2. IsFiniteSet(1 .. MaxCalls)
    BY <2>1, FS_Interval
  <2> QED BY <1>1, <2>2, FS_Product
<1>4. IsFiniteSet(Runs)
  BY <1>3, FS_Subset DEF Runs
<1>5. \A i : IsFiniteSet(Later(i)) /\ Cardinality(Later(i)) \in Nat
  BY <1>2, FS_Subset, FS_CardinalityType DEF Later
<1>6. \A r : IsFiniteSet(NewerResults(r)) /\ Cardinality(NewerResults(r)) \in Nat
  BY <1>4, FS_Subset, FS_CardinalityType DEF NewerResults
<1> QED BY <1>2, <1>4, <1>5, <1>6 DEF Counted

\* And it stays so.
LEMMA TurnsFiniteNext == TypeOK' => Counted'
BY TurnsFinite, PTL

\* The transcript only grows: roles, memos and the outcome of runs are for good.
Grown ==
    /\ DOMAIN turns \subseteq DOMAIN turns'
    /\ \A i \in DOMAIN turns :
          /\ turns'[i].role = turns[i].role /\ turns'[i].sources = turns[i].sources
          /\ DOMAIN turns'[i].runs = DOMAIN turns[i].runs
          /\ \A j \in DOMAIN turns[i].runs : turns'[i].runs[j].status = turns[i].runs[j].status

\* What lies behind a floor, or is stale, stays so.
LEMMA GrownKeeps ==
    ASSUME TypeOK, TypeOK', Grown
    PROVE  /\ Conversation \subseteq Conversation' /\ Summaries \subseteq Summaries'
           /\ \A i \in DOMAIN turns : i \in Conversation' => i \in Conversation
           /\ Runs \subseteq Runs'
           /\ \A i : Cardinality(Later(i)) <= Cardinality(Later(i)')
           /\ \A r \in Runs : Stale(r) => Stale(r)'
<1>1. /\ Conversation \subseteq Conversation' /\ Summaries \subseteq Summaries'
      /\ \A i \in DOMAIN turns : i \in Conversation' => i \in Conversation
  BY DEF Grown, Conversation, Summaries
<1>2. Runs \subseteq Runs'
  BY DEF Grown, Runs
<1>3. \A r \in Runs : RunAt(r)'.status = RunAt(r).status
  BY DEF Grown, Runs, RunAt
<1>4. \A i : Later(i) \subseteq Later(i)'
  BY <1>1 DEF Later
<1>5. \A i : IsFiniteSet(Later(i)')
  BY TurnsFiniteNext DEF Counted
<1>6. \A i : Cardinality(Later(i)) <= Cardinality(Later(i)')
  BY <1>4, <1>5, FS_Subset
<1>7. \A r : NewerResults(r) \subseteq NewerResults(r)'
  BY <1>2, <1>3 DEF NewerResults, Earlier
<1>8. \A r : IsFiniteSet(NewerResults(r)') /\ Cardinality(NewerResults(r)') \in Nat
  BY TurnsFiniteNext DEF Counted
<1>9. \A r : Cardinality(NewerResults(r)) <= Cardinality(NewerResults(r)')
  BY <1>7, <1>8, FS_Subset
<1>10. \A r \in Runs : Stale(r) => Stale(r)'
  <2> SUFFICES ASSUME NEW r \in Runs, Stale(r) PROVE Stale(r)'
    OBVIOUS
  <2>1. Cardinality(NewerResults(r)) >= RecentRuns /\ Cardinality(NewerResults(r)) \in Nat
    BY TurnsFinite DEF Counted, Stale
  <2>2. Cardinality(NewerResults(r)') >= RecentRuns
    BY <2>1, <1>8, <1>9, SizesAssumption
  <2>3. RunAt(r)'.status = "completed"
    BY <1>3 DEF Stale
  <2> QED BY <2>2, <2>3 DEF Stale
<1> QED BY <1>1, <1>2, <1>6, <1>10

\* What the pruning selects is stale.
LEMMA StaleRunsStale == TypeOK => \A r \in StaleRuns : r \in Runs /\ Stale(r)
<1> SUFFICES ASSUME TypeOK, NEW r \in StaleRuns PROVE r \in Runs /\ Stale(r)
  OBVIOUS
<1> DEFINE raw == {s \in Runs : ~RunAt(s).compacted /\ RunAt(s).status = "completed"}
           newer == {s \in raw : Earlier(r, s)}
<1>1. r \in raw /\ Cardinality(newer) >= RecentRuns
  BY DEF StaleRuns
<1>2. newer \subseteq NewerResults(r)
  BY DEF NewerResults
<1>3. Cardinality(newer) <= Cardinality(NewerResults(r)) /\ Cardinality(newer) \in Nat
  BY <1>2, TurnsFinite, FS_Subset, FS_CardinalityType DEF Counted
<1>4. Cardinality(NewerResults(r)) \in Nat
  BY TurnsFinite DEF Counted
<1>5. Cardinality(NewerResults(r)) >= RecentRuns
  <2> HIDE DEF newer
  <2> QED BY <1>1, <1>3, <1>4, SizesAssumption
<1> QED BY <1>1, <1>5 DEF Stale

\* What the compaction selects is the oldest part of the prompt, behind the floor.
LEMMA SourceTurnsOldest ==
    ASSUME TypeOK
    PROVE  /\ SourceTurns \subseteq Active
           /\ \A i \in SourceTurns : /\ \A j \in Active : j < i => j \in SourceTurns
                                     /\ Cardinality(Later(i)) >= HardFloor
<1>1. SourceTurns \subseteq Active
  BY DEF SourceTurns
<1>2. ASSUME NEW i \in SourceTurns, NEW j \in Active, j < i PROVE j \in SourceTurns
  <2>1. i \in Nat /\ j \in Nat
    BY <1>1, Rows
  <2>2. From(i) \subseteq From(j)
    <3> SUFFICES ASSUME NEW k \in Active, k >= i PROVE k >= j
      BY DEF From
    <3>1. k \in Nat
      BY Rows
    <3> QED BY <1>2, <2>1, <3>1
  <2> QED BY <2>2 DEF SourceTurns
<1>3. ASSUME NEW i \in SourceTurns PROVE Cardinality(Later(i)) >= HardFloor
  <2>1. PICK k \in From(i) : ~Keep(k)
    BY DEF SourceTurns
  <2>2. /\ i \in Active /\ k \in Active /\ i \in Nat /\ k \in Nat /\ k >= i
        /\ Active \subseteq Nat /\ Active \subseteq Conversation
    BY <1>1, <2>1, Rows DEF From
  <2>3. IsFiniteSet(Active)
    BY <2>2, TurnsFinite, FS_Subset DEF Counted
  <2>4. /\ IsFiniteSet(From(k)) /\ IsFiniteSet(From(k) \ {k}) /\ k \in From(k)
        /\ Cardinality(From(k)) \in Nat
    BY <2>2, <2>3, FS_Subset, FS_CardinalityType DEF From
  <2>5. Cardinality(From(k)) > HardFloor
    BY <2>1, <2>4, SizesAssumption DEF Keep
  <2>6. Cardinality(From(k) \ {k}) = Cardinality(From(k)) - 1
    BY <2>4, FS_RemoveElement
  <2>7. From(k) \ {k} \subseteq Later(i)
    <3> SUFFICES ASSUME NEW j \in Active, j >= k, j # k PROVE j \in Conversation /\ j > i
      BY DEF From, Later
    <3> QED BY <2>2
  <2>8. Cardinality(From(k) \ {k}) <= Cardinality(Later(i)) /\ Cardinality(Later(i)) \in Nat
    BY <2>7, TurnsFinite, FS_Subset DEF Counted
  <2> QED BY <2>4, <2>5, <2>6, <2>8, SizesAssumption
<1> QED BY <1>1, <1>2, <1>3

--------------------------------------------------------------------------------
(* Types                                                                        *)

\* An answer's tool runs are a sequence of runs, none of them pruned.
LEMMA RepliesType ==
    ASSUME NEW runs \in Replies
    PROVE  runs \in Seq(ToolRun) /\ \A j \in DOMAIN runs : ~runs[j].compacted
<1>1. CASE runs = <<>>
  BY <1>1
<1>2. ASSUME NEW n \in 1 .. MaxCalls,
             runs \in [1 .. n -> {[status |-> "completed", size |-> z, compacted |-> FALSE]
                                    : z \in ResultSizes}
                          \cup {[status |-> "failed", size |-> 0, compacted |-> FALSE]}]
      PROVE  runs \in Seq(ToolRun) /\ \A j \in DOMAIN runs : ~runs[j].compacted
  <2>1. DOMAIN runs = 1 .. n /\ n \in Nat
    BY <1>2, SizesAssumption
  <2>2. \A j \in 1 .. n : runs[j] \in ToolRun /\ ~runs[j].compacted
    <3> SUFFICES ASSUME NEW j \in 1 .. n PROVE runs[j] \in ToolRun /\ ~runs[j].compacted
      OBVIOUS
    <3>1. PICK z \in Nat : \/ runs[j] = [status |-> "completed", size |-> z, compacted |-> FALSE]
                          \/ runs[j] = [status |-> "failed", size |-> z, compacted |-> FALSE]
      BY <1>2, SizesAssumption
    <3>2. /\ [status |-> "completed", size |-> z, compacted |-> FALSE] \in ToolRun
          /\ [status |-> "failed", size |-> z, compacted |-> FALSE] \in ToolRun
      BY DEF ToolRun
    <3>3. /\ ~[status |-> "completed", size |-> z, compacted |-> FALSE].compacted
          /\ ~[status |-> "failed", size |-> z, compacted |-> FALSE].compacted
      OBVIOUS
    <3> QED BY <3>1, <3>2, <3>3
  <2>3. runs \in [1 .. n -> ToolRun]
    BY <1>2, <2>2
  <2> QED BY <2>1, <2>2, <2>3, SeqDef
<1> QED BY <1>1, <1>2 DEF Replies

\* The rows a run adds to a conversation.
Fresh(t) ==
    /\ t \in TurnRow /\ t.role # "summary" /\ ~t.compacted
    /\ \A j \in DOMAIN t.runs : ~t.runs[j].compacted

\* The rows that a run appends are fresh ones.
LEMMA FreshRows ==
    /\ Fresh(Turn("user", 1, <<>>, {})) /\ Fresh(EmptyTurn)
    /\ \A runs \in Replies : Fresh(Turn("assistant", IF runs = <<>> THEN 1 ELSE 0, runs, {}))
<1>1. <<>> \in Seq(ToolRun) /\ DOMAIN <<>> = {}
  OBVIOUS
<1>2. Fresh(Turn("user", 1, <<>>, {})) /\ Fresh(EmptyTurn)
  BY <1>1 DEF Fresh, Turn, EmptyTurn, TurnRow, Roles
<1>3. ASSUME NEW runs \in Replies
      PROVE  Fresh(Turn("assistant", IF runs = <<>> THEN 1 ELSE 0, runs, {}))
  <2>1. (IF runs = <<>> THEN 1 ELSE 0) \in Nat
    OBVIOUS
  <2> DEFINE z == IF runs = <<>> THEN 1 ELSE 0
  <2> HIDE DEF z
  <2> QED BY <2>1, RepliesType DEF Fresh, Turn, TurnRow, Roles, z
<1> QED BY <1>2, <1>3

\* Where the conversation is after another row.
LEMMA Appended ==
    ASSUME TypeOK, NEW t \in TurnRow, turns' = Append(turns, t)
    PROVE  /\ turns' \in Seq(TurnRow) /\ DOMAIN turns' = DOMAIN turns \cup {Len(turns) + 1}
           /\ Len(turns) + 1 \notin DOMAIN turns
           /\ \A i \in DOMAIN turns : turns'[i] = turns[i] /\ i < Len(turns) + 1 /\ i \in Nat
           /\ turns'[Len(turns) + 1] = t
<1>1. turns \in Seq(TurnRow)
  BY DEF TypeOK
<1>2. /\ turns' \in Seq(TurnRow) /\ Len(turns') = Len(turns) + 1
      /\ \A i \in 1 .. Len(turns) : turns'[i] = turns[i]
      /\ turns'[Len(turns) + 1] = t
  BY <1>1, AppendProperties
<1> QED BY <1>1, <1>2

--------------------------------------------------------------------------------
(* The run: another row of the conversation                                     *)

\* A fresh row at the end of the conversation changes nothing before it.
LEMMA AppendKeeps ==
    ASSUME IInv, NEW t, Fresh(t), turns' = Append(turns, t), UNCHANGED work,
           pc \in {"idle", "call"}, pc' \in {"idle", "compact"},
           force' \in BOOLEAN, used' \in BOOLEAN, iterations' \in 0 .. MaxIterations
    PROVE  IInv'
<1> USE DEF IInv
<1> DEFINE n == Len(turns) + 1
<1>0. /\ t \in TurnRow /\ t.role # "summary" /\ ~t.compacted
      /\ \A j \in DOMAIN t.runs : ~t.runs[j].compacted
  BY DEF Fresh
<1>1. /\ turns' \in Seq(TurnRow) /\ DOMAIN turns' = DOMAIN turns \cup {n} /\ n \notin DOMAIN turns
      /\ \A i \in DOMAIN turns : turns'[i] = turns[i] /\ i < n /\ i \in Nat
      /\ turns'[n] = t
  BY <1>0, Appended
<1> HIDE DEF n
<1>2. UNCHANGED <<todo, chosen, budget>> /\ chosen = {}
  BY DEF ChosenInv, work
<1>3. Grown
  BY <1>1 DEF Grown
<1>4. TypeOK'
  <2>1. Runs \subseteq Runs'
    BY <1>1 DEF Runs
  <2> QED BY <1>1, <1>2, <2>1 DEF TypeOK
<1>5. /\ Conversation' = Conversation \cup {n} /\ Summaries' = Summaries
      /\ Summaries \subseteq DOMAIN turns /\ Conversation \subseteq DOMAIN turns
  BY <1>0, <1>1 DEF Conversation, Summaries
<1>6. MemoInv'
  BY <1>1, <1>5 DEF MemoInv, Raw
<1>7. SourceInv'
  BY <1>0, <1>1, <1>5 DEF SourceInv
<1>8. PrefixInv'
  BY <1>0, <1>1, <1>5 DEF PrefixInv
<1>9. FloorInv'
  <2> SUFFICES ASSUME NEW i \in Conversation', turns'[i].compacted
               PROVE  Cardinality(Later(i)') >= HardFloor
    BY DEF FloorInv
  <2>1. i \in Conversation /\ turns[i].compacted
    BY <1>0, <1>1, <1>5
  <2>2. /\ Cardinality(Later(i)) >= HardFloor
        /\ Cardinality(Later(i)) \in Nat /\ Cardinality(Later(i)') \in Nat
    BY <2>1, <1>4, TurnsFinite, TurnsFiniteNext DEF FloorInv, Counted
  <2>3. Cardinality(Later(i)) <= Cardinality(Later(i)')
    BY <1>3, <1>4, GrownKeeps
  <2> QED BY <2>2, <2>3, SizesAssumption
<1>10. ChosenInv'
  BY <1>2 DEF ChosenInv
<1>11. PruneInv'
  <2>1. \A r \in Runs' : r[1] = n \/ r \in Runs
    BY <1>1 DEF Runs
  <2>2. \A r \in Runs : RunAt(r)' = RunAt(r) /\ turns'[r[1]] = turns[r[1]]
    BY <1>1 DEF Runs, RunAt
  <2>3. \A r \in Runs' : r[1] = n => ~RunAt(r)'.compacted
    BY <1>0, <1>1 DEF Runs, RunAt
  <2>4. \A r \in Runs : Stale(r) => Stale(r)'
    BY <1>3, <1>4, GrownKeeps
  <2>5. todo \subseteq Runs
    BY DEF TypeOK
  <2> QED BY <1>2, <2>1, <2>2, <2>3, <2>4, <2>5 DEF PruneInv
<1> QED BY <1>4, <1>6, <1>7, <1>8, <1>9, <1>10, <1>11

\* The turns are only read.
LEMMA ReadKeeps ==
    ASSUME IInv, UNCHANGED turns, TypeOK', todo' \subseteq todo \cup StaleRuns,
           \/ chosen' = {}
           \/ chosen' = SourceTurns /\ pc' = "summarise"
           \/ UNCHANGED <<chosen, pc>>
    PROVE  IInv'
<1> USE DEF IInv
<1>1. \A i : Later(i)' = Later(i)
  BY DEF Later, Conversation, Summaries
<1>2. /\ Active' = Active /\ Runs' = Runs /\ \A r : RunAt(r)' = RunAt(r) /\ (Stale(r)' <=> Stale(r))
  BY DEF Active, Raw, Runs, RunAt, Stale, NewerResults
<1>3. MemoInv' /\ SourceInv' /\ PrefixInv'
  BY DEF MemoInv, SourceInv, PrefixInv, Summaries, Conversation, Raw
<1>4. FloorInv'
  BY <1>1 DEF FloorInv, Conversation, Summaries
<1>5. ChosenInv'
  <2>1. CASE chosen' = {}
    BY <2>1 DEF ChosenInv
  <2>2. CASE chosen' = SourceTurns /\ pc' = "summarise"
    BY <2>2, <1>1, <1>2, SourceTurnsOldest DEF ChosenInv
  <2>3. CASE UNCHANGED <<chosen, pc>>
    BY <2>3, <1>1, <1>2 DEF ChosenInv
  <2> QED BY <2>1, <2>2, <2>3
<1>6. PruneInv'
  BY <1>2, StaleRunsStale DEF PruneInv
<1> QED BY <1>3, <1>4, <1>5, <1>6

\* A run goes on to its next iteration, or ends.
LEMMA NextIterationType ==
    ASSUME TypeOK, NEW f \in BOOLEAN, NEW u \in BOOLEAN, NextIteration(f, u) \/ Leave
    PROVE  /\ pc' \in {"idle", "compact"} /\ force' \in BOOLEAN /\ used' \in BOOLEAN
           /\ iterations' \in 0 .. MaxIterations
<1>1. iterations \in Nat /\ iterations <= MaxIterations /\ 0 \in 0 .. MaxIterations
  BY Sizes DEF TypeOK
<1>2. CASE Leave
  BY <1>1, <1>2 DEF Leave
<1>3. CASE ~Leave
  <2>1. iterations < MaxIterations /\ iterations' = iterations + 1
    BY <1>3 DEF NextIteration
  <2>2. iterations' \in 0 .. MaxIterations
    BY <1>1, <2>1, Sizes
  <2>3. pc' = "compact" /\ force' = f /\ used' = u
    BY <1>3 DEF NextIteration
  <2> QED BY <2>2, <2>3
<1> QED BY <1>2, <1>3

\* The steps that append a row: the question, and each attempt at an answer.
LEMMA RunKeeps ==
    ASSUME IInv, Post \/ Answer \/ Overflow \/ Break
    PROVE  IInv'
<1> USE DEF IInv
<1>0. force \in BOOLEAN /\ used \in BOOLEAN
  BY DEF TypeOK
<1>1. CASE Post
  BY <1>1, <1>0, AppendKeeps, FreshRows, SizesAssumption DEF Post, Append1
<1>2. CASE Answer
  <2>1. PICK runs \in Replies : Reply(runs) /\ (NextIteration(force, used) \/ Leave)
    BY <1>2 DEF Answer
  <2> QED BY <1>0, <1>2, <2>1, AppendKeeps, FreshRows, NextIterationType DEF Answer, Reply,
       Append1
<1>3. CASE Overflow
  BY <1>0, <1>3, AppendKeeps, FreshRows, NextIterationType DEF Overflow, Append1
<1>4. CASE Break
  <2>1. PICK t : Fresh(t) /\ turns' = Append(turns, t)
    BY <1>4, FreshRows DEF Break, Reply, Append1
  <2> QED BY <1>0, <1>4, <2>1, AppendKeeps, NextIterationType DEF Break
<1> QED BY <1>1, <1>2, <1>3, <1>4

\* An abandoned run leaves the transcript as it is.
LEMMA AbandonKeeps ==
    ASSUME IInv, Abandon
    PROVE  IInv'
<1> USE DEF IInv
<1>1. TypeOK'
  <2>1. 0 \in 0 .. MaxIterations
    BY Sizes
  <2> QED BY <2>1 DEF Abandon, Leave, TypeOK, Active, Raw, Runs
<1> QED BY <1>1, ReadKeeps DEF Abandon

--------------------------------------------------------------------------------
(* compact_if_needed                                                            *)

\* The retention budget is a size.
LEMMA BudgetType ==
    ASSUME NEW b \in Nat PROVE Atleast(b) \in Nat
BY SizesAssumption DEF Atleast

\* What the steps that only read the transcript leave behind.
LEMMA ReadsType ==
    ASSUME TypeOK, UNCHANGED <<turns, used, iterations>>, force' \in BOOLEAN, budget' \in Nat,
           pc' \in {"idle", "compact", "prune", "select", "summarise", "record", "trim", "call"},
           todo' \subseteq todo \cup StaleRuns, chosen' \subseteq Active
    PROVE  TypeOK'
<1>1. Runs' = Runs /\ Active' = Active
  BY DEF Runs, Active, Raw
<1>2. todo' \subseteq Runs
  BY StaleRunsStale DEF TypeOK
<1> QED BY <1>1, <1>2 DEF TypeOK

\* The compaction ends, with or without having done anything.
LEMMA DoneKeeps ==
    ASSUME IInv, Done, UNCHANGED <<turns, used, iterations>>
    PROVE  IInv'
<1> USE DEF IInv
<1>1. TypeOK'
  BY ReadsType DEF Done
<1> QED BY <1>1, ReadKeeps DEF Done

\* The first check: nothing to do, or what to prune.
LEMMA CheckKeeps ==
    ASSUME IInv, Check
    PROVE  IInv'
<1> USE DEF IInv
<1>1. CASE Done
  BY <1>1, DoneKeeps DEF Check
<1>2. CASE ~Done
  <2>0. /\ pc = "compact" /\ UNCHANGED <<turns, used, iterations, chosen, force>>
        /\ budget' = Atleast(IF force THEN Window \div 4 ELSE Window \div 2)
        /\ pc' \in {"prune", "select"} /\ todo' \subseteq StaleRuns
    BY <1>2 DEF Check
  <2>1. Window \div 4 \in Nat /\ Window \div 2 \in Nat
    BY SizesAssumption
  <2>2. budget' \in Nat
    BY <2>0, <2>1, BudgetType
  <2>3. chosen = {} /\ force \in BOOLEAN
    BY <2>0 DEF ChosenInv, TypeOK
  <2>4. TypeOK'
    BY <2>0, <2>2, <2>3, ReadsType
  <2> QED BY <2>0, <2>3, <2>4, ReadKeeps
<1> QED BY <1>1, <1>2

\* After the pruning: enough, or on to the summary.
LEMMA PrunedKeeps ==
    ASSUME IInv, Pruned
    PROVE  IInv'
<1> USE DEF IInv
<1>1. CASE Done
  BY <1>1, DoneKeeps DEF Pruned
<1>2. CASE ~Done
  <2>0. /\ pc = "prune" /\ pc' = "select"
        /\ UNCHANGED <<turns, used, iterations, todo, chosen, budget, force>>
    BY <1>2 DEF Pruned, work
  <2>1. chosen = {} /\ force \in BOOLEAN /\ budget \in Nat
    BY <2>0 DEF ChosenInv, TypeOK
  <2>2. TypeOK'
    BY <2>0, <2>1, ReadsType
  <2> QED BY <2>0, <2>1, <2>2, ReadKeeps
<1> QED BY <1>1, <1>2

\* The turns to summarise are the oldest of the prompt.
LEMMA SelectKeeps ==
    ASSUME IInv, Select
    PROVE  IInv'
<1> USE DEF IInv
<1>1. CASE Done
  BY <1>1, DoneKeeps DEF Select
<1>2. CASE ~Done
  <2>0. /\ UNCHANGED <<turns, used, iterations, todo, budget, force>> /\ pc' = "summarise"
        /\ chosen' = SourceTurns
    BY <1>2 DEF Select
  <2>1. force \in BOOLEAN /\ budget \in Nat /\ SourceTurns \subseteq Active
    BY SourceTurnsOldest DEF TypeOK
  <2>2. TypeOK'
    BY <2>0, <2>1, ReadsType
  <2> QED BY <2>0, <2>2, ReadKeeps
<1> QED BY <1>1, <1>2

\* The last pruning, after a memo.
LEMMA TrimKeeps ==
    ASSUME IInv, Trim
    PROVE  IInv'
<1> USE DEF IInv
<1>1. CASE pc = "trim" /\ Done /\ UNCHANGED <<turns, used, iterations>>
  BY <1>1, DoneKeeps
<1>2. CASE /\ pc = "record" /\ todo' = StaleRuns /\ pc' = "trim"
           /\ UNCHANGED <<turns, chosen, budget, run>>
  <2>0. UNCHANGED <<used, iterations, force>> /\ chosen = {}
    BY <1>2 DEF run, ChosenInv
  <2>1. force \in BOOLEAN /\ budget \in Nat
    BY DEF TypeOK
  <2>2. TypeOK'
    BY <1>2, <2>0, <2>1, ReadsType
  <2> QED BY <1>2, <2>0, <2>2, ReadKeeps
<1> QED BY <1>1, <1>2 DEF Trim

\* One result is marked; turns, memos and the outcomes stay.
LEMMA MarkRunKeeps ==
    ASSUME IInv, MarkRun
    PROVE  IInv'
<1> USE DEF IInv
<1>1. PICK r \in todo : /\ turns' = [turns EXCEPT ![r[1]].runs[r[2]].compacted = TRUE]
                        /\ todo' = todo \ {r}
  BY DEF MarkRun
<1>2. /\ pc \in {"prune", "trim"} /\ UNCHANGED <<pc, chosen, budget, force, used, iterations>>
      /\ chosen = {}
  BY DEF MarkRun, run, ChosenInv
<1>3. /\ r \in Runs /\ Stale(r)
  BY DEF TypeOK, PruneInv
<1> DEFINE m == r[1]
           k == r[2]
<1>4. m \in DOMAIN turns /\ k \in DOMAIN turns[m].runs
  BY <1>3 DEF Runs
<1>5. turns[m] \in TurnRow /\ turns[m].runs \in Seq(ToolRun) /\ turns \in Seq(TurnRow)
  BY <1>4, Rows DEF TypeOK
<1> DEFINE marked == [turns[m].runs EXCEPT ![k] = [@ EXCEPT !.compacted = TRUE]]
<1>6. /\ marked \in Seq(ToolRun) /\ DOMAIN marked = DOMAIN turns[m].runs
      /\ \A j \in DOMAIN marked : marked[j].status = turns[m].runs[j].status
      /\ \A j \in DOMAIN marked : j # k => marked[j] = turns[m].runs[j]
  <2>1. turns[m].runs[k] \in ToolRun
    BY <1>4, <1>5
  <2>2. [turns[m].runs[k] EXCEPT !.compacted = TRUE] \in ToolRun
    BY <2>1 DEF ToolRun
  <2>3. [turns[m].runs[k] EXCEPT !.compacted = TRUE].status = turns[m].runs[k].status
    BY <2>1 DEF ToolRun
  <2>4. marked \in Seq(ToolRun) /\ DOMAIN marked = DOMAIN turns[m].runs
    BY <1>4, <1>5, <2>2, ExceptSeq
  <2> QED BY <1>4, <1>5, <2>3, <2>4
<1> DEFINE row == [turns[m] EXCEPT !.runs = marked]
<1>7. turns' = [turns EXCEPT ![m] = row]
  BY <1>1, <1>4
<1> HIDE DEF marked
<1>8. /\ row \in TurnRow /\ row.runs = marked /\ row.role = turns[m].role
      /\ row.sources = turns[m].sources /\ (row.compacted <=> turns[m].compacted)
  BY <1>5, <1>6 DEF TurnRow
<1> HIDE DEF row
<1>9. /\ turns' \in Seq(TurnRow) /\ DOMAIN turns' = DOMAIN turns /\ turns'[m] = row
      /\ \A i \in DOMAIN turns : i # m => turns'[i] = turns[i]
  BY <1>4, <1>5, <1>7, <1>8, ExceptSeq
<1>10. Grown
  BY <1>6, <1>8, <1>9 DEF Grown
<1>11. \A i \in DOMAIN turns : turns'[i].compacted <=> turns[i].compacted
  BY <1>8, <1>9
<1>12. /\ Conversation' = Conversation /\ Summaries' = Summaries
       /\ Conversation \subseteq DOMAIN turns /\ Summaries \subseteq DOMAIN turns
  BY <1>9, <1>10 DEF Grown, Conversation, Summaries
<1>13. Runs' = Runs
  BY <1>9, <1>10 DEF Grown, Runs
<1>14. TypeOK'
  BY <1>1, <1>2, <1>9, <1>13 DEF TypeOK
<1>15. MemoInv' /\ SourceInv' /\ PrefixInv'
  <2>1. \A i \in DOMAIN turns : turns'[i].sources = turns[i].sources
    BY <1>10 DEF Grown
  <2>2. MemoInv'
    BY <1>9, <1>11, <1>12, <2>1 DEF MemoInv, Raw
  <2>3. SourceInv'
    BY <1>11, <1>12, <2>1 DEF SourceInv
  <2>4. PrefixInv'
    BY <1>11, <1>12 DEF PrefixInv
  <2> QED BY <2>2, <2>3, <2>4
<1>16. FloorInv'
  BY <1>11, <1>12 DEF FloorInv, Later
<1>17. ChosenInv'
  BY <1>2 DEF ChosenInv
<1>18. PruneInv'
  <2>1. \A q \in Runs : Stale(q) => Stale(q)'
    BY <1>10, <1>14, GrownKeeps
  <2>2. \A q \in Runs : q = r \/ (RunAt(q)' = RunAt(q))
    <3> SUFFICES ASSUME NEW q \in Runs, q # r PROVE RunAt(q)' = RunAt(q)
      OBVIOUS
    <3>1. /\ q = <<q[1], q[2]>> /\ r = <<m, k>>
          /\ q[1] \in DOMAIN turns /\ q[2] \in DOMAIN turns[q[1]].runs
      BY <1>3 DEF Runs
    <3> QED BY <3>1, <1>6, <1>8, <1>9 DEF RunAt
  <2>3. todo \subseteq Runs /\ \A q \in Runs : q[1] \in DOMAIN turns
    BY DEF TypeOK, Runs
  <2> QED BY <1>1, <1>3, <1>11, <1>13, <2>1, <2>2, <2>3 DEF PruneInv
<1> QED BY <1>14, <1>15, <1>16, <1>17, <1>18

\* A row that has been compacted is one that is compacted.
LEMMA CompactedRow ==
    ASSUME TypeOK, NEW i \in DOMAIN turns
    PROVE  /\ Compacted(i) \in TurnRow /\ Compacted(i).compacted
           /\ Compacted(i).role = turns[i].role /\ Compacted(i).sources = turns[i].sources
           /\ DOMAIN Compacted(i).runs = DOMAIN turns[i].runs
           /\ \A j \in DOMAIN turns[i].runs : Compacted(i).runs[j].status = turns[i].runs[j].status
<1> DEFINE old == turns[i].runs
           marked == [j \in DOMAIN old |-> CompactedRun(old[j])]
<1>1. turns[i] \in TurnRow /\ old \in Seq(ToolRun)
  BY Rows
<1>2. \A x \in ToolRun : CompactedRun(x) \in ToolRun /\ CompactedRun(x).status = x.status
  BY DEF ToolRun, CompactedRun
<1>3. \A j \in DOMAIN old : marked[j] \in ToolRun /\ marked[j].status = old[j].status
  <2>1. \A j \in DOMAIN old : old[j] \in ToolRun
    BY <1>1
  <2> QED BY <1>2, <2>1
<1>4. DOMAIN marked = DOMAIN old /\ marked \in Seq(ToolRun)
  <2>1. DOMAIN old = 1 .. Len(old) /\ Len(old) \in Nat
    BY <1>1
  <2>2. marked \in [1 .. Len(old) -> ToolRun]
    BY <1>3, <2>1
  <2> QED BY <2>1, <2>2, SeqDef
<1>5. Compacted(i) = [turns[i] EXCEPT !.compacted = TRUE, !.runs = marked]
  BY <1>1 DEF Compacted
<1> HIDE DEF marked
<1> QED BY <1>1, <1>3, <1>4, <1>5 DEF TurnRow

\* The memo takes over its sources.
LEMMA RecordKeeps ==
    ASSUME IInv, RecordCompaction
    PROVE  IInv'
<1> USE DEF IInv
<1> DEFINE n == Len(turns) + 1
           rows == [i \in DOMAIN turns |-> IF i \in chosen THEN Compacted(i) ELSE turns[i]]
<1>1. /\ pc = "summarise" /\ pc' = "record" /\ chosen' = {} /\ turns' = Append(rows, Memo)
      /\ UNCHANGED <<todo, budget, force, used, iterations>>
  BY DEF RecordCompaction, run
<1>2. /\ chosen \subseteq Active /\ chosen \subseteq Conversation /\ chosen \subseteq DOMAIN turns
      /\ Len(turns) \in Nat /\ DOMAIN turns = 1 .. Len(turns)
      /\ \A i \in chosen : ~turns[i].compacted
  BY Rows DEF TypeOK, Active, Raw
<1>3. \A i \in DOMAIN turns :
         /\ rows[i] \in TurnRow /\ rows[i].role = turns[i].role
         /\ rows[i].sources = turns[i].sources
         /\ DOMAIN rows[i].runs = DOMAIN turns[i].runs
         /\ \A j \in DOMAIN turns[i].runs : rows[i].runs[j].status = turns[i].runs[j].status
         /\ i \in chosen => rows[i].compacted
         /\ i \notin chosen => rows[i] = turns[i]
  BY CompactedRow, Rows
<1>4. rows \in Seq(TurnRow) /\ Len(rows) = Len(turns) /\ DOMAIN rows = DOMAIN turns
  <2>1. rows \in [1 .. Len(turns) -> TurnRow]
    BY <1>2, <1>3
  <2> HIDE DEF rows
  <2> QED BY <1>2, <2>1, SeqDef
<1> HIDE DEF rows
<1>5. Memo \in TurnRow /\ Memo.role = "summary" /\ ~Memo.compacted /\ Memo.sources = chosen
      /\ Memo.runs = <<>>
  <2>1. <<>> \in Seq(ToolRun) /\ chosen \in SUBSET Nat
    BY <1>2
  <2> QED BY <2>1, SizesAssumption DEF Memo, Turn, TurnRow, Roles
<1>6. /\ turns' \in Seq(TurnRow) /\ DOMAIN turns' = DOMAIN turns \cup {n} /\ n \notin DOMAIN turns
      /\ \A i \in DOMAIN turns : turns'[i] = rows[i] /\ i < n /\ i \in Nat
      /\ turns'[n] = Memo /\ n \in Nat
  <2>1. /\ turns' \in Seq(TurnRow) /\ Len(turns') = Len(rows) + 1
        /\ \A i \in 1 .. Len(rows) : turns'[i] = rows[i]
        /\ turns'[Len(rows) + 1] = Memo
    BY <1>1, <1>4, <1>5, AppendProperties
  <2> QED BY <1>2, <1>4, <2>1
<1> HIDE DEF n
<1>7. Grown
  BY <1>3, <1>6 DEF Grown
<1>8. \A i \in DOMAIN turns : turns'[i].compacted <=> (turns[i].compacted \/ i \in chosen)
  BY <1>3, <1>6
<1>9. /\ Conversation' = Conversation /\ Summaries' = Summaries \cup {n}
      /\ Conversation \subseteq DOMAIN turns /\ Summaries \subseteq DOMAIN turns
      /\ Conversation \cap Summaries = {}
  BY <1>5, <1>6, <1>7 DEF Grown, Conversation, Summaries
<1>10. \A s \in Summaries : turns'[s].sources = turns[s].sources
  BY <1>7, <1>9 DEF Grown
<1>11. TypeOK'
  <2>1. Runs \subseteq Runs'
    BY <1>6, <1>7 DEF Runs, Grown
  <2> QED BY <1>1, <1>6, <2>1 DEF TypeOK
<1>12. MemoInv'
  <2>1. Summaries' \subseteq Raw'
    BY <1>2, <1>5, <1>6, <1>8, <1>9 DEF MemoInv, Raw
  <2>2. ASSUME NEW s \in Summaries', NEW i \in turns'[s].sources
        PROVE  i \in Conversation' /\ turns'[i].compacted
    <3>1. CASE s = n
      BY <3>1, <2>2, <1>2, <1>5, <1>6, <1>8, <1>9
    <3>2. CASE s # n
      BY <3>2, <2>2, <1>8, <1>9, <1>10 DEF MemoInv
    <3> QED BY <3>1, <3>2
  <2> QED BY <2>1, <2>2 DEF MemoInv
<1>13. SourceInv'
  <2> SUFFICES ASSUME NEW i \in Conversation', turns'[i].compacted
               PROVE  \E s \in Summaries' : /\ i \in turns'[s].sources
                                            /\ \A q \in Summaries' : i \in turns'[q].sources => q = s
    BY DEF SourceInv
  <2>1. CASE i \in chosen
    <3>1. \A q \in Summaries : i \notin turns[q].sources
      BY <2>1, <1>2 DEF MemoInv
    <3> QED BY <2>1, <3>1, <1>5, <1>6, <1>9, <1>10
  <2>2. CASE i \notin chosen
    <3>1. PICK s \in Summaries : /\ i \in turns[s].sources
                                 /\ \A q \in Summaries : i \in turns[q].sources => q = s
      BY <2>2, <1>8, <1>9 DEF SourceInv
    <3> QED BY <2>2, <3>1, <1>5, <1>6, <1>9, <1>10
  <2> QED BY <2>1, <2>2
<1>14. PrefixInv'
  <2> SUFFICES ASSUME NEW i \in Conversation, NEW j \in Conversation, i < j, turns'[j].compacted
               PROVE  turns'[i].compacted
    BY <1>9 DEF PrefixInv
  <2>1. CASE turns[j].compacted
    BY <2>1, <1>8, <1>9 DEF PrefixInv
  <2>2. CASE j \in chosen /\ ~turns[i].compacted
    <3>1. i \in Active
      BY <2>2 DEF Active, Raw, Conversation, Summaries
    <3> QED BY <2>2, <3>1, <1>8, <1>9 DEF ChosenInv
  <2> QED BY <2>1, <2>2, <1>8, <1>9
<1>15. FloorInv'
  BY <1>8, <1>9 DEF FloorInv, ChosenInv, Later
<1>16. ChosenInv'
  BY <1>1 DEF ChosenInv
<1>17. PruneInv'
  <2>1. \A q \in Runs : Stale(q) => Stale(q)'
    BY <1>7, <1>11, GrownKeeps
  <2>2. \A q \in Runs' : q \in Runs
    <3>1. DOMAIN turns'[n].runs = {}
      BY <1>5, <1>6
    <3> QED BY <3>1, <1>6, <1>7 DEF Runs, Grown
  <2>3. \A q \in Runs : q[1] \in DOMAIN turns
    BY DEF Runs
  <2>4. \A q \in Runs : q[1] \notin chosen => RunAt(q)' = RunAt(q)
    BY <2>3, <1>3, <1>6 DEF RunAt
  <2>5. todo \subseteq Runs
    BY DEF TypeOK
  <2> QED BY <1>1, <1>8, <2>1, <2>2, <2>3, <2>4, <2>5 DEF PruneInv
<1> QED BY <1>11, <1>12, <1>13, <1>14, <1>15, <1>16, <1>17

--------------------------------------------------------------------------------
\* The invariant holds of an empty conversation.
LEMMA InitInv == Init => IInv
<1> SUFFICES ASSUME Init PROVE IInv
  OBVIOUS
<1>1. turns = <<>> /\ turns \in Seq(TurnRow) /\ DOMAIN turns = {}
  BY DEF Init
<1>2. Summaries = {} /\ Conversation = {} /\ Runs = {}
  BY <1>1 DEF Summaries, Conversation, Runs
<1>3. 0 \in 0 .. MaxIterations /\ todo = {} /\ chosen = {}
  BY Sizes DEF Init
<1> QED BY <1>1, <1>2, <1>3
        DEF Init, IInv, TypeOK, MemoInv, SourceInv, PrefixInv, FloorInv, ChosenInv, PruneInv

\* Every step keeps the invariant.
LEMMA StepInv == IInv /\ [Next]_vars => IInv'
<1> SUFFICES ASSUME IInv, [Next]_vars PROVE IInv'
  OBVIOUS
<1>1. CASE UNCHANGED vars
  <2>1. TypeOK'
    BY <1>1 DEF vars, work, run, IInv, TypeOK, Runs, Active, Raw
  <2> QED BY <1>1, <2>1, ReadKeeps DEF vars, work, run
<1>2. CASE TimeOut
  BY <1>2, DoneKeeps DEF TimeOut
<1>3. CASE Next
  BY <1>2, <1>3, RunKeeps, AbandonKeeps, CheckKeeps, MarkRunKeeps, PrunedKeeps, SelectKeeps,
     RecordKeeps, TrimKeeps DEF Next
<1> QED BY <1>1, <1>3

\* The inductive invariant holds of every conversation.
THEOREM InvariantHolds == Spec => []IInv
BY InitInv, StepInv, PTL DEF Spec

\* Every variable has its type.
THEOREM TypeCorrect == Spec => []TypeOK
BY InvariantHolds, PTL DEF IInv

\* The prompt is the memos and the newest turns: what has left it is the oldest part
\* of the conversation, each turn of it in exactly one memo, and no memo is lost.
THEOREM MemosCover == Spec => []MemoCoversPrefix
<1>1. ASSUME IInv PROVE MemoCoversPrefix
  <2> USE <1>1 DEF IInv
  <2>1. ASSUME NEW i \in Conversation
        PROVE  Cardinality({s \in Summaries : i \in turns[s].sources})
                  = IF turns[i].compacted THEN 1 ELSE 0
    <3> DEFINE covering == {s \in Summaries : i \in turns[s].sources}
    <3>1. CASE turns[i].compacted
      <4>1. PICK s \in Summaries : /\ i \in turns[s].sources
                                   /\ \A q \in Summaries : i \in turns[q].sources => q = s
        BY <3>1 DEF SourceInv
      <4>2. covering = {s}
        BY <4>1
      <4> QED BY <3>1, <4>2, FS_Singleton
    <3>2. CASE ~turns[i].compacted
      <4>1. covering = {}
        BY <3>2 DEF MemoInv
      <4> QED BY <3>2, <4>1, FS_EmptySet
    <3> QED BY <3>1, <3>2
  <2> QED BY <2>1 DEF MemoInv, PrefixInv, MemoCoversPrefix
<1> QED BY <1>1, InvariantHolds, PTL

\* The question being answered leaves the prompt only behind the floor.
THEOREM QuestionStays == Spec => []QuestionDroppedOnlyLate
<1>1. IInv => QuestionDroppedOnlyLate
  BY DEF IInv, FloorInv, Later, Question, QuestionDroppedOnlyLate
<1> QED BY <1>1, InvariantHolds, PTL

\* A result is pruned from a turn that stays only when it was complete and enough
\* newer results were.
THEOREM OnlyStalePruned ==
    Spec => [](\A r \in Runs : RunAt(r).compacted /\ ~turns[r[1]].compacted => Stale(r))
<1>1. IInv => \A r \in Runs : RunAt(r).compacted /\ ~turns[r[1]].compacted => Stale(r)
  BY DEF IInv, PruneInv
<1> QED BY <1>1, InvariantHolds, PTL
--------------------------------------------------------------------------------
(* The last turn that asks                                                      *)

\* A question, or an answer whose calls have results.
Asks(i) == turns[i].role = "user" \/ DOMAIN turns[i].runs # {}

\* What a refused attempt leaves behind.
Silent(i) == turns[i].role = "assistant" /\ turns[i].size = 0 /\ DOMAIN turns[i].runs = {}

RowsInv ==
    \A i \in DOMAIN turns :
       /\ DOMAIN turns[i].runs \subseteq 1 .. MaxCalls
       /\ i \in Summaries => DOMAIN turns[i].runs = {}

\* While a run is under way, the conversation ends with a turn that asks, and after
\* it with one refused attempt at most.
LastInv ==
    pc # "idle" =>
       \E i \in Conversation :
          /\ Asks(i)
          /\ ~used => Later(i) = {}
          /\ \E j \in Nat : Later(i) \subseteq {j} /\ \A k \in Later(i) : Silent(k)

AskInv == RowsInv /\ LastInv

\* The rows of a run that goes on.
Shaped(t) == DOMAIN t.runs \subseteq 1 .. MaxCalls

\* The rows that a run appends have no more calls than an answer can have.
LEMMA ShapedRows ==
    /\ Shaped(Turn("user", 1, <<>>, {})) /\ Shaped(EmptyTurn)
    /\ \A runs \in Replies : \A n : Shaped(Turn("assistant", n, runs, {}))
<1>1. DOMAIN <<>> = {}
  OBVIOUS
<1>2. Shaped(Turn("user", 1, <<>>, {})) /\ Shaped(EmptyTurn)
  BY <1>1 DEF Shaped, Turn, EmptyTurn
<1>3. ASSUME NEW runs \in Replies, NEW n
      PROVE  Shaped(Turn("assistant", n, runs, {}))
  <2>1. DOMAIN runs \subseteq 1 .. MaxCalls
    <3>1. CASE runs = <<>>
      BY <1>1, <3>1
    <3>2. CASE runs # <<>>
      <4>1. PICK m \in 1 .. MaxCalls : DOMAIN runs = 1 .. m
        BY <3>2 DEF Replies
      <4> QED BY <4>1, Sizes
    <3> QED BY <3>1, <3>2
  <2> QED BY <2>1 DEF Shaped, Turn
<1> QED BY <1>2, <1>3

\* Another row: what was said of the rows before it still holds.
LEMMA AppendRows ==
    ASSUME TypeOK, RowsInv, NEW t, Fresh(t), Shaped(t), turns' = Append(turns, t)
    PROVE  /\ RowsInv'
           /\ Conversation' = Conversation \cup {Len(turns) + 1}
           /\ \A i \in DOMAIN turns : turns'[i] = turns[i] /\ i < Len(turns) + 1 /\ i \in Nat
           /\ turns'[Len(turns) + 1] = t /\ Len(turns) + 1 \in Nat
           /\ Conversation \subseteq DOMAIN turns
<1>1. t \in TurnRow /\ t.role # "summary"
  BY DEF Fresh
<1>2. /\ DOMAIN turns' = DOMAIN turns \cup {Len(turns) + 1}
      /\ Len(turns) + 1 \notin DOMAIN turns
      /\ \A i \in DOMAIN turns : turns'[i] = turns[i] /\ i < Len(turns) + 1 /\ i \in Nat
      /\ turns'[Len(turns) + 1] = t
  BY <1>1, Appended
<1>3. RowsInv'
  BY <1>1, <1>2 DEF RowsInv, Shaped, Summaries
<1>4. Conversation' = Conversation \cup {Len(turns) + 1} /\ Conversation \subseteq DOMAIN turns
  BY <1>1, <1>2 DEF Conversation, Summaries
<1>5. Len(turns) + 1 \in Nat
  BY Rows
<1> QED BY <1>2, <1>3, <1>4, <1>5

\* A new turn that asks is the last one.
LEMMA AskerLast ==
    ASSUME TypeOK, AskInv, NEW t, Fresh(t), Shaped(t), turns' = Append(turns, t),
           t.role = "user" \/ DOMAIN t.runs # {}
    PROVE  AskInv'
<1>0. PICK n : n = Len(turns) + 1
  OBVIOUS
<1>1. /\ RowsInv' /\ Conversation' = Conversation \cup {n} /\ Conversation \subseteq DOMAIN turns
      /\ \A i \in DOMAIN turns : i < n /\ i \in Nat
      /\ turns'[n] = t /\ n \in Nat
  BY <1>0, AppendRows DEF AskInv
<1>2. Later(n)' = {}
  BY <1>1 DEF Later
<1>3. Asks(n)' /\ n \in Conversation'
  BY <1>1 DEF Asks
<1>4. LastInv'
  BY <1>1, <1>2, <1>3 DEF LastInv
<1> QED BY <1>1, <1>4 DEF AskInv

\* A run that is over needs no last turn.
LEMMA IdleLast ==
    ASSUME TypeOK, AskInv, NEW t, Fresh(t), Shaped(t), turns' = Append(turns, t), pc' = "idle"
    PROVE  AskInv'
BY AppendRows DEF AskInv, LastInv

\* The first refusal leaves a silent turn behind the one that asks.
LEMMA OverflowLast ==
    ASSUME TypeOK, AskInv, Overflow
    PROVE  AskInv'
<1>0. /\ pc = "call" /\ turns' = Append(turns, EmptyTurn)
      /\ Fresh(EmptyTurn) /\ Shaped(EmptyTurn)
  BY FreshRows, ShapedRows DEF Overflow, Append1
<1>1. CASE pc' = "idle"
  BY <1>0, <1>1, IdleLast
<1>2. CASE pc' # "idle"
  <2>0. PICK n : n = Len(turns) + 1
    OBVIOUS
  <2>1. ~used /\ used'
    BY <1>2 DEF Overflow, NextIteration, Leave
  <2>2. PICK i \in Conversation : Asks(i) /\ Later(i) = {}
    BY <1>0, <2>1 DEF AskInv, LastInv
  <2>3. /\ RowsInv' /\ Conversation' = Conversation \cup {n} /\ Conversation \subseteq DOMAIN turns
        /\ \A k \in DOMAIN turns : turns'[k] = turns[k] /\ k < n /\ k \in Nat
        /\ turns'[n] = EmptyTurn /\ n \in Nat
    BY <1>0, <2>0, AppendRows DEF AskInv
  <2>4. i \in Conversation' /\ Asks(i)' /\ Later(i)' \subseteq {n}
    BY <2>2, <2>3 DEF Asks, Later
  <2>5. Silent(n)'
    BY <2>3 DEF Silent, EmptyTurn, Turn
  <2>6. LastInv'
    BY <2>1, <2>3, <2>4, <2>5 DEF LastInv
  <2> QED BY <2>3, <2>6 DEF AskInv
<1> QED BY <1>1, <1>2

\* The steps that append a row keep a turn that asks at the end.
LEMMA RunLast ==
    ASSUME TypeOK, AskInv, Post \/ Answer \/ Overflow \/ Break
    PROVE  AskInv'
<1>1. CASE Post
  <2>1. turns' = Append(turns, Turn("user", 1, <<>>, {}))
    BY <1>1 DEF Post, Append1
  <2>2. Turn("user", 1, <<>>, {}).role = "user"
    BY DEF Turn
  <2> QED BY <2>1, <2>2, AskerLast, FreshRows, ShapedRows
<1>2. CASE Answer
  <2>1. PICK runs \in Replies :
           /\ turns' = Append(turns, Turn("assistant", IF runs = <<>> THEN 1 ELSE 0, runs, {}))
           /\ runs = <<>> => pc' = "idle"
    BY <1>2 DEF Answer, Reply, Append1, Leave
  <2> DEFINE t == Turn("assistant", IF runs = <<>> THEN 1 ELSE 0, runs, {})
  <2>2. Fresh(t) /\ Shaped(t) /\ t.runs = runs
    BY FreshRows, ShapedRows DEF Turn
  <2>3. CASE runs = <<>>
    <3> HIDE DEF t
    <3> QED BY <2>1, <2>2, <2>3, IdleLast DEF t
  <2>4. CASE runs # <<>>
    <3>1. DOMAIN runs # {}
      <4>1. PICK m \in 1 .. MaxCalls : DOMAIN runs = 1 .. m
        BY <2>4 DEF Replies
      <4>2. m \in Nat /\ m >= 1
        BY <4>1, Sizes
      <4> QED BY <4>1, <4>2
    <3> HIDE DEF t
    <3> QED BY <2>1, <2>2, <3>1, AskerLast DEF t
  <2> QED BY <2>3, <2>4
<1>3. CASE Overflow
  BY <1>3, OverflowLast
<1>4. CASE Break
  <2>1. PICK t : Fresh(t) /\ Shaped(t) /\ turns' = Append(turns, t)
    BY <1>4, FreshRows, ShapedRows DEF Break, Reply, Append1
  <2> QED BY <1>4, <2>1, IdleLast DEF Break, Leave
<1> QED BY <1>1, <1>2, <1>3, <1>4

\* The steps that mark rows, or add a memo, leave the conversation its shape.
LEMMA ShapeLast ==
    ASSUME TypeOK, AskInv, pc # "idle", UNCHANGED used, Conversation' = Conversation,
           \A i \in DOMAIN turns : /\ turns'[i].role = turns[i].role
                                   /\ turns'[i].size = turns[i].size
                                   /\ DOMAIN turns'[i].runs = DOMAIN turns[i].runs,
           \A i \in DOMAIN turns' : i \in DOMAIN turns \/ DOMAIN turns'[i].runs = {}
    PROVE  AskInv'
<1>1. Conversation \subseteq DOMAIN turns
  BY DEF Conversation
<1>2. RowsInv'
  <2> SUFFICES ASSUME NEW i \in DOMAIN turns'
               PROVE  /\ DOMAIN turns'[i].runs \subseteq 1 .. MaxCalls
                      /\ i \in Summaries' => DOMAIN turns'[i].runs = {}
    BY DEF RowsInv
  <2>1. CASE i \in DOMAIN turns
    BY <2>1 DEF AskInv, RowsInv, Summaries
  <2>2. CASE i \notin DOMAIN turns
    BY <2>2
  <2> QED BY <2>1, <2>2
<1>3. PICK i \in Conversation :
         /\ Asks(i)
         /\ ~used => Later(i) = {}
         /\ \E j \in Nat : Later(i) \subseteq {j} /\ \A k \in Later(i) : Silent(k)
  BY DEF AskInv, LastInv
<1>4. Later(i)' = Later(i) /\ Later(i) \subseteq DOMAIN turns
  BY <1>1 DEF Later
<1>5. Asks(i)'
  BY <1>1, <1>3 DEF Asks
<1>6. \A k \in Later(i) : Silent(k) => Silent(k)'
  BY <1>4 DEF Silent
<1>7. LastInv'
  BY <1>3, <1>4, <1>5, <1>6 DEF LastInv
<1> QED BY <1>2, <1>7 DEF AskInv

\* The other steps leave the turns alone.
LEMMA ReadLast ==
    ASSUME TypeOK, AskInv, UNCHANGED turns, pc' = "idle" \/ (pc # "idle" /\ UNCHANGED used)
    PROVE  AskInv'
<1>1. RowsInv'
  BY DEF AskInv, RowsInv, Summaries
<1>2. LastInv'
  BY DEF AskInv, LastInv, Conversation, Summaries, Later, Asks, Silent
<1> QED BY <1>1, <1>2 DEF AskInv

\* Marking a result.
LEMMA MarkRunLast ==
    ASSUME TypeOK, AskInv, MarkRun
    PROVE  AskInv'
<1>1. PICK r \in todo : turns' = [turns EXCEPT ![r[1]].runs[r[2]].compacted = TRUE]
  BY DEF MarkRun
<1>2. r[1] \in DOMAIN turns /\ turns \in Seq(TurnRow) /\ turns[r[1]] \in TurnRow
  BY Rows DEF TypeOK, Runs
<1>3. /\ DOMAIN turns' = DOMAIN turns
      /\ \A i \in DOMAIN turns : /\ turns'[i].role = turns[i].role
                                 /\ turns'[i].size = turns[i].size
                                 /\ DOMAIN turns'[i].runs = DOMAIN turns[i].runs
  BY <1>1, <1>2 DEF TurnRow
<1>4. Conversation' = Conversation
  BY <1>3 DEF Conversation, Summaries
<1>5. pc # "idle" /\ UNCHANGED used
  BY DEF MarkRun, run
<1> QED BY <1>3, <1>4, <1>5, ShapeLast

\* A memo, and the marks of its sources.
LEMMA RecordLast ==
    ASSUME TypeOK, AskInv, RecordCompaction
    PROVE  AskInv'
<1> DEFINE rows == [i \in DOMAIN turns |-> IF i \in chosen THEN Compacted(i) ELSE turns[i]]
<1>1. turns' = Append(rows, Memo) /\ pc # "idle" /\ UNCHANGED used
  BY DEF RecordCompaction, run
<1>2. \A i \in DOMAIN turns : Compacted(i).size = turns[i].size
  <2>1. \A i \in DOMAIN turns : turns[i] \in TurnRow
    BY Rows
  <2> QED BY <2>1 DEF TurnRow, Compacted
<1>3. \A i \in DOMAIN turns :
         /\ rows[i] \in TurnRow /\ rows[i].role = turns[i].role /\ rows[i].size = turns[i].size
         /\ DOMAIN rows[i].runs = DOMAIN turns[i].runs
  BY <1>2, CompactedRow, Rows
<1>4. Len(turns) \in Nat /\ DOMAIN turns = 1 .. Len(turns)
  BY Rows
<1>5. rows \in Seq(TurnRow) /\ Len(rows) = Len(turns)
  <2>1. rows \in [1 .. Len(turns) -> TurnRow]
    BY <1>3, <1>4
  <2> HIDE DEF rows
  <2> QED BY <1>4, <2>1, SeqDef
<1> HIDE DEF rows
<1>6. Memo \in TurnRow /\ Memo.role = "summary" /\ DOMAIN Memo.runs = {}
  <2>1. <<>> \in Seq(ToolRun) /\ DOMAIN <<>> = {} /\ chosen \in SUBSET Nat
    BY Rows DEF TypeOK
  <2> QED BY <2>1, SizesAssumption DEF Memo, Turn, TurnRow, Roles
<1>7. /\ DOMAIN turns' = DOMAIN turns \cup {Len(turns) + 1}
      /\ \A i \in DOMAIN turns : turns'[i] = rows[i]
      /\ turns'[Len(turns) + 1] = Memo
  <2>1. /\ turns' \in Seq(TurnRow) /\ Len(turns') = Len(rows) + 1
        /\ \A i \in 1 .. Len(rows) : turns'[i] = rows[i]
        /\ turns'[Len(rows) + 1] = Memo
    BY <1>1, <1>5, <1>6, AppendProperties
  <2> QED BY <1>4, <1>5, <2>1
<1>8. Conversation' = Conversation
  BY <1>3, <1>4, <1>6, <1>7 DEF Conversation, Summaries
<1> QED BY <1>1, <1>3, <1>6, <1>7, <1>8, ShapeLast

\* Every step keeps it.
LEMMA StepLast == TypeOK /\ AskInv /\ [Next]_vars => AskInv'
<1> SUFFICES ASSUME TypeOK, AskInv, [Next]_vars PROVE AskInv'
  OBVIOUS
<1>1. CASE Check \/ Pruned \/ Select \/ Trim \/ TimeOut
  BY <1>1, ReadLast DEF Check, Pruned, Select, Trim, TimeOut, Done, run, work
<1>2. CASE Abandon
  BY <1>2, ReadLast DEF Abandon, Leave
<1>3. CASE UNCHANGED vars
  <2>1. UNCHANGED <<turns, pc, used>>
    BY <1>3 DEF vars, run
  <2>2. CASE pc = "idle"
    BY <2>1, <2>2, ReadLast
  <2>3. CASE pc # "idle"
    BY <2>1, <2>3, ReadLast
  <2> QED BY <2>2, <2>3
<1> QED BY <1>1, <1>2, <1>3, RunLast, MarkRunLast, RecordLast DEF Next

\* It holds of every conversation.
LEMMA AskHolds == Spec => []AskInv
<1>1. Init => AskInv
  <2> SUFFICES ASSUME Init PROVE AskInv
    OBVIOUS
  <2>1. DOMAIN turns = {} /\ pc = "idle"
    BY DEF Init
  <2> QED BY <2>1 DEF AskInv, RowsInv, LastInv
<1>2. IInv /\ AskInv /\ [Next]_vars => AskInv'
  BY StepLast DEF IInv
<1> QED BY <1>1, <1>2, InvariantHolds, PTL DEF Spec

--------------------------------------------------------------------------------
(* The prompt                                                                   *)

AnyMessage == [kind : {"user", "assistant", "result"}, turn : Nat, run : Nat]
Blocks == [i \in DOMAIN turns |-> TurnMessages(i)]
Results(i) ==
    [j \in DOMAIN turns[i].runs |->
        IF turns[i].runs[j].compacted THEN <<>> ELSE <<Message("result", i, j)>>]

\* What a turn that stays sends of its results: one message for each raw one.
LEMMA ResultMessages ==
    ASSUME TypeOK, NEW i \in DOMAIN turns
    PROVE  /\ FlattenSeq(Results(i)) \in Seq(AnyMessage)
           /\ \A k \in DOMAIN FlattenSeq(Results(i)) :
                 FlattenSeq(Results(i))[k].kind = "result" /\ FlattenSeq(Results(i))[k].turn = i
           /\ \A j \in DOMAIN turns[i].runs : ~turns[i].runs[j].compacted =>
                 \E k \in DOMAIN FlattenSeq(Results(i)) :
                    FlattenSeq(Results(i))[k] = Message("result", i, j)
<1> DEFINE old == turns[i].runs
           R == Results(i)
<1>1. old \in Seq(ToolRun) /\ Len(old) \in Nat /\ DOMAIN old = 1 .. Len(old) /\ i \in Nat
  BY Rows
<1>2. /\ DOMAIN R = DOMAIN old
      /\ \A j \in DOMAIN old : R[j] = IF old[j].compacted THEN <<>> ELSE <<Message("result", i, j)>>
  BY DEF Results
<1> HIDE DEF old, R
<1>3. ASSUME NEW j \in DOMAIN old
      PROVE  /\ R[j] \in Seq(AnyMessage)
             /\ \A m \in 1 .. Len(R[j]) : R[j][m].kind = "result" /\ R[j][m].turn = i
             /\ ~old[j].compacted => 1 \in 1 .. Len(R[j]) /\ R[j][1] = Message("result", i, j)
  <2>1. Message("result", i, j) \in AnyMessage /\ Message("result", i, j).kind = "result"
       /\ Message("result", i, j).turn = i
    BY <1>1 DEF Message, AnyMessage
  <2>2. CASE old[j].compacted
    <3>1. R[j] = <<>> /\ Len(<<>>) = 0 /\ 1 .. 0 = {}
      BY <1>2, <2>2
    <3> QED BY <2>2, <3>1
  <2>3. CASE ~old[j].compacted
    <3> DEFINE m == Message("result", i, j)
    <3>1. R[j] = <<m>>
      BY <1>2, <2>3
    <3> HIDE DEF m
    <3>2. Len(<<m>>) = 1 /\ 1 .. 1 = {1} /\ <<m>>[1] = m
      OBVIOUS
    <3>3. m \in AnyMessage /\ m.kind = "result" /\ m.turn = i
      BY <2>1 DEF m
    <3>4. <<m>> \in Seq(AnyMessage)
      BY <3>3
    <3>5. \A q \in 1 .. Len(<<m>>) : <<m>>[q].kind = "result" /\ <<m>>[q].turn = i
      BY <3>2, <3>3
    <3>6. 1 \in 1 .. Len(<<m>>) /\ <<m>>[1] = m
      BY <3>2
    <3> QED BY <3>1, <3>4, <3>5, <3>6 DEF m
  <2> QED BY <2>2, <2>3
<1>4. R \in Seq(Seq(AnyMessage)) /\ Len(R) = Len(old)
  <2>1. R \in [1 .. Len(old) -> Seq(AnyMessage)]
    <3>1. R = [j \in DOMAIN old |-> R[j]]
      BY DEF R, Results, old
    <3> QED BY <1>1, <1>3, <3>1
  <2> QED BY <1>1, <2>1, SeqDef
<1>5. /\ FlattenSeq(R) \in Seq(AnyMessage)
      /\ \A j \in 1 .. Len(R) : \A m \in 1 .. Len(R[j]) :
            \E k \in 1 .. Len(FlattenSeq(R)) : FlattenSeq(R)[k] = R[j][m]
      /\ \A k \in 1 .. Len(FlattenSeq(R)) :
            \E j \in 1 .. Len(R) : \E m \in 1 .. Len(R[j]) : FlattenSeq(R)[k] = R[j][m]
  BY <1>4, FlattenOffsets, FlattenElements
<1>6. DOMAIN FlattenSeq(R) = 1 .. Len(FlattenSeq(R)) /\ DOMAIN old = 1 .. Len(R)
  BY <1>1, <1>4, <1>5
<1> DEFINE G == FlattenSeq(R)
<1>7. G \in Seq(AnyMessage) /\ DOMAIN G = 1 .. Len(G)
  BY <1>5, <1>6
<1>8. ASSUME NEW k \in DOMAIN G PROVE G[k].kind = "result" /\ G[k].turn = i
  <2>1. PICK j \in 1 .. Len(R) : \E m \in 1 .. Len(R[j]) : G[k] = R[j][m]
    BY <1>5, <1>7
  <2>2. PICK m \in 1 .. Len(R[j]) : G[k] = R[j][m]
    BY <2>1
  <2> QED BY <2>1, <2>2, <1>3, <1>6
<1>9. ASSUME NEW j \in DOMAIN old, ~old[j].compacted
      PROVE  \E k \in DOMAIN G : G[k] = Message("result", i, j)
  <2>1. j \in 1 .. Len(R) /\ 1 \in 1 .. Len(R[j]) /\ R[j][1] = Message("result", i, j)
    BY <1>3, <1>6, <1>9
  <2>2. \E k \in 1 .. Len(G) : G[k] = R[j][1]
    BY <2>1, <1>5
  <2> QED BY <2>1, <2>2, <1>7
<1> HIDE DEF G
<1> QED BY <1>7, <1>8, <1>9 DEF G, R, old

\* What a turn sends: nothing once it has left, or for a refused attempt; else the
\* question, or the answer with the results of its calls.
LEMMA TurnBlock ==
    ASSUME TypeOK, NEW i \in DOMAIN turns
    PROVE  /\ TurnMessages(i) \in Seq(AnyMessage)
           /\ \A k \in 1 .. Len(TurnMessages(i)) :
                 /\ TurnMessages(i)[k].turn = i
                 /\ TurnMessages(i)[k].kind = "assistant" =>
                       ~turns[i].compacted /\ turns[i].role = "assistant"
           /\ turns[i].compacted \/ turns[i].role = "summary" \/ Silent(i) => TurnMessages(i) = <<>>
           /\ ~turns[i].compacted /\ turns[i].role = "user" =>
                 TurnMessages(i) = <<Message("user", i, 0)>>
           /\ ~turns[i].compacted /\ turns[i].role = "assistant" =>
                 \A j \in DOMAIN turns[i].runs : ~turns[i].runs[j].compacted =>
                    /\ \E k \in 1 .. Len(TurnMessages(i)) : TurnMessages(i)[k] = Message("result", i, j)
                    /\ TurnMessages(i) # <<>>
                    /\ TurnMessages(i)[Len(TurnMessages(i))].kind = "result"
<1> DEFINE t == turns[i]
           F == FlattenSeq(Results(i))
           head == IF t.size > 0 \/ t.runs # <<>> THEN <<Message("assistant", i, 0)>> ELSE <<>>
<1>1. t \in TurnRow /\ t.runs \in Seq(ToolRun) /\ i \in Nat /\ t.role \in {"user", "assistant", "summary"}
      /\ t.compacted \in BOOLEAN
  BY Rows DEF TurnRow, Roles
<1>2. TurnMessages(i) = IF t.compacted \/ t.role = "summary" THEN <<>>
                        ELSE IF t.role = "user" THEN <<Message("user", i, 0)>>
                        ELSE head \o F
  BY DEF TurnMessages, Results
<1>3. /\ F \in Seq(AnyMessage)
      /\ \A k \in 1 .. Len(F) : F[k].kind = "result" /\ F[k].turn = i
      /\ \A j \in DOMAIN t.runs : ~t.runs[j].compacted =>
             \E k \in 1 .. Len(F) : F[k] = Message("result", i, j)
  <2>1. F \in Seq(AnyMessage) /\ DOMAIN F = 1 .. Len(F)
    BY ResultMessages
  <2> QED BY <2>1, ResultMessages
<1>4. /\ Message("user", i, 0) \in AnyMessage /\ Message("assistant", i, 0) \in AnyMessage
      /\ Message("user", i, 0).turn = i /\ Message("assistant", i, 0).turn = i
      /\ Message("user", i, 0).kind = "user"
  BY <1>1 DEF Message, AnyMessage
<1>5. CASE t.compacted \/ t.role = "summary"
  <2>1. TurnMessages(i) = <<>> /\ <<>> \in Seq(AnyMessage) /\ 1 .. Len(<<>>) = {}
    BY <1>2, <1>5
  <2> QED BY <1>5, <2>1
<1>6. CASE ~t.compacted /\ t.role = "user"
  <2> DEFINE m == Message("user", i, 0)
  <2> HIDE DEF m
  <2>1. m \in AnyMessage /\ m.turn = i /\ m.kind = "user"
    BY <1>4 DEF m
  <2>2. <<m>> \in Seq(AnyMessage) /\ Len(<<m>>) = 1 /\ 1 .. 1 = {1} /\ <<m>>[1] = m
    BY <2>1
  <2>3. TurnMessages(i) = <<m>>
    BY <1>2, <1>6 DEF m
  <2> QED BY <1>6, <2>1, <2>2, <2>3 DEF m, Silent
<1>7. CASE ~t.compacted /\ t.role = "assistant"
  <2>1. TurnMessages(i) = head \o F
    BY <1>2, <1>7
  <2>2. head \in Seq(AnyMessage) /\ \A k \in 1 .. Len(head) : head[k].turn = i
    <3> DEFINE m == Message("assistant", i, 0)
    <3> HIDE DEF m
    <3>1. m \in AnyMessage /\ m.turn = i
      BY <1>4 DEF m
    <3>2. <<m>> \in Seq(AnyMessage) /\ Len(<<m>>) = 1 /\ 1 .. 1 = {1} /\ <<m>>[1] = m
      BY <3>1
    <3>3. <<>> \in Seq(AnyMessage) /\ 1 .. Len(<<>>) = {}
      OBVIOUS
    <3>4. head = <<m>> \/ head = <<>>
      BY DEF m
    <3> HIDE DEF head
    <3> QED BY <3>1, <3>2, <3>3, <3>4
  <2>3. Silent(i) => TurnMessages(i) = <<>>
    <3> SUFFICES ASSUME Silent(i) PROVE TurnMessages(i) = <<>>
      OBVIOUS
    <3>1. t.size = 0 /\ DOMAIN t.runs = {}
      BY DEF Silent
    <3>2. t.runs = <<>>
      <4>1. DOMAIN t.runs = 1 .. Len(t.runs) /\ Len(t.runs) \in Nat
        BY <1>1
      <4>2. Len(t.runs) = 0
        <5>1. 1 \notin 1 .. Len(t.runs)
          BY <3>1, <4>1
        <5> QED BY <4>1, <5>1
      <4> QED BY <1>1, <4>2, EmptySeq
    <3>3. Results(i) = <<>>
      BY <3>1 DEF Results
    <3>4. F = <<>>
      BY <3>3 DEF FlattenSeq
    <3>5. head = <<>>
      BY <3>1, <3>2
    <3> HIDE DEF head, F
    <3> QED BY <2>1, <3>4, <3>5
  <2> DEFINE B == head \o F
  <2> HIDE DEF head, F
  <2>4. /\ B \in Seq(AnyMessage) /\ Len(B) = Len(head) + Len(F)
        /\ \A k \in 1 .. Len(head) : B[k] = head[k]
        /\ \A k \in 1 .. Len(F) : B[Len(head) + k] = F[k]
        /\ Len(head) \in Nat /\ Len(F) \in Nat
    BY <1>3, <2>2, Concat
  <2> HIDE DEF B
  <2>5. ASSUME NEW k \in 1 .. Len(B) PROVE B[k].turn = i
    <3>1. CASE k \in 1 .. Len(head)
      BY <3>1, <2>2, <2>4
    <3>2. CASE k \notin 1 .. Len(head)
      <4>1. k - Len(head) \in 1 .. Len(F) /\ Len(head) + (k - Len(head)) = k
        BY <3>2, <2>4
      <4> QED BY <4>1, <1>3, <2>4
    <3> QED BY <3>1, <3>2
  <2>6. ASSUME NEW j \in DOMAIN t.runs, ~t.runs[j].compacted
        PROVE  /\ \E k \in 1 .. Len(B) : B[k] = Message("result", i, j)
               /\ B # <<>> /\ B[Len(B)].kind = "result"
    <3>1. PICK k \in 1 .. Len(F) : F[k] = Message("result", i, j)
      BY <1>3, <2>6
    <3>2. Len(head) + k \in 1 .. Len(B) /\ B[Len(head) + k] = Message("result", i, j)
      BY <2>4, <3>1
    <3>3. Len(F) \in 1 .. Len(F) /\ Len(B) >= 1
      BY <2>4, <3>1, <3>2
    <3>4. B[Len(B)] = F[Len(F)]
      BY <2>4, <3>3
    <3> QED BY <1>3, <3>2, <3>3, <3>4
  <2>7. TurnMessages(i) = B
    BY <2>1 DEF B
  <2> QED BY <1>7, <2>3, <2>4, <2>5, <2>6, <2>7
<1> QED BY <1>1, <1>5, <1>6, <1>7

\* The turns' messages, one block after the other.
LEMMA BlocksType ==
    TypeOK => Blocks \in Seq(Seq(AnyMessage)) /\ DOMAIN turns = 1 .. Len(Blocks)
              /\ \A i \in DOMAIN turns : Blocks[i] = TurnMessages(i)
<1> SUFFICES ASSUME TypeOK
             PROVE  Blocks \in Seq(Seq(AnyMessage)) /\ DOMAIN turns = 1 .. Len(Blocks)
                    /\ \A i \in DOMAIN turns : Blocks[i] = TurnMessages(i)
  OBVIOUS
<1>1. Len(turns) \in Nat /\ DOMAIN turns = 1 .. Len(turns)
  BY Rows
<1>2. \A i \in DOMAIN turns : TurnMessages(i) \in Seq(AnyMessage)
  BY TurnBlock
<1>3. Blocks \in [1 .. Len(turns) -> Seq(AnyMessage)]
  BY <1>1, <1>2 DEF Blocks
<1>4. \A i \in DOMAIN turns : Blocks[i] = TurnMessages(i)
  BY DEF Blocks
<1> QED BY <1>1, <1>3, <1>4, SeqDef

\* The prompt is a memo or nothing, and the blocks.
LEMMA Prompt ==
    ASSUME TypeOK
    PROVE  \E head : /\ BuildModelMessages = head \o FlattenSeq(Blocks)
                     /\ head = <<>> \/ head = <<Message("memo", 0, 0)>>
BY DEF BuildModelMessages, Blocks

\* A call without a result in the prompt had one that was pruned, and enough newer
\* results came after it.
THEOREM UnansweredPruned == Spec => []UnansweredCallPruned
<1>1. ASSUME IInv PROVE UnansweredCallPruned
  <2> USE <1>1 DEF IInv
  <2> SUFFICES ASSUME NEW r \in Unanswered PROVE Stale(r)
    BY DEF UnansweredCallPruned, Stale, NewerResults
  <2> DEFINE F == FlattenSeq(Blocks)
             B == BuildModelMessages
  <2>1. /\ r \in Runs /\ \E k \in DOMAIN B : B[k] = Message("assistant", r[1], 0)
        /\ ~ \E k \in DOMAIN B : B[k] = Message("result", r[1], r[2])
    BY DEF Unanswered, Sent
  <2>2. PICK head : /\ B = head \o F
                    /\ head = <<>> \/ head = <<Message("memo", 0, 0)>>
    BY Prompt
  <2>3. /\ F \in Seq(AnyMessage)
        /\ \A i \in DOMAIN turns : \A j \in 1 .. Len(TurnMessages(i)) :
              \E k \in 1 .. Len(F) : F[k] = TurnMessages(i)[j]
        /\ \A k \in 1 .. Len(F) :
              \E i \in DOMAIN turns : \E j \in 1 .. Len(TurnMessages(i)) : F[k] = TurnMessages(i)[j]
    <3>1. /\ Blocks \in Seq(Seq(AnyMessage)) /\ DOMAIN turns = 1 .. Len(Blocks)
          /\ \A i \in DOMAIN turns : Blocks[i] = TurnMessages(i)
      BY BlocksType
    <3>2. /\ F \in Seq(AnyMessage)
          /\ \A i \in 1 .. Len(Blocks) : \A j \in 1 .. Len(Blocks[i]) :
                \E k \in 1 .. Len(F) : F[k] = Blocks[i][j]
          /\ \A k \in 1 .. Len(F) :
                \E i \in 1 .. Len(Blocks) : \E j \in 1 .. Len(Blocks[i]) : F[k] = Blocks[i][j]
      BY <3>1, FlattenOffsets, FlattenElements
    <3> HIDE DEF F
    <3>3. ASSUME NEW i \in DOMAIN turns, NEW j \in 1 .. Len(TurnMessages(i))
          PROVE  \E k \in 1 .. Len(F) : F[k] = TurnMessages(i)[j]
      <4>1. i \in 1 .. Len(Blocks) /\ Blocks[i] = TurnMessages(i) /\ j \in 1 .. Len(Blocks[i])
        BY <3>1
      <4>2. \E k \in 1 .. Len(F) : F[k] = Blocks[i][j]
        BY <3>2, <4>1
      <4> QED BY <4>1, <4>2
    <3>4. ASSUME NEW k \in 1 .. Len(F)
          PROVE  \E i \in DOMAIN turns : \E j \in 1 .. Len(TurnMessages(i)) : F[k] = TurnMessages(i)[j]
      <4>1. PICK i \in 1 .. Len(Blocks) : \E j \in 1 .. Len(Blocks[i]) : F[k] = Blocks[i][j]
        BY <3>2
      <4>2. i \in DOMAIN turns /\ Blocks[i] = TurnMessages(i)
        BY <3>1
      <4> QED BY <4>1, <4>2
    <3> QED BY <3>2, <3>3, <3>4
  <2> HIDE DEF B, F
  <2> DEFINE M == AnyMessage \cup {Message("memo", 0, 0)}
  <2>4. head \in Seq(M) /\ F \in Seq(M) /\ \A k \in 1 .. Len(head) : head[k] = Message("memo", 0, 0)
    <3> DEFINE m == Message("memo", 0, 0)
    <3>1. m \in M
      OBVIOUS
    <3>2. F \in Seq(M)
      <4>1. AnyMessage \subseteq M
        OBVIOUS
      <4> HIDE DEF M
      <4> QED BY <2>3, <4>1
    <3> HIDE DEF m, M
    <3>3. /\ <<m>> \in Seq(M) /\ Len(<<m>>) = 1 /\ 1 .. 1 = {1} /\ <<m>>[1] = m
          /\ <<>> \in Seq(M) /\ 1 .. Len(<<>>) = {}
      BY <3>1
    <3>4. head = <<>> \/ head = <<m>>
      BY <2>2 DEF m
    <3> QED BY <3>2, <3>3, <3>4 DEF m
  <2> HIDE DEF M
  <2>5. /\ B \in Seq(M) /\ Len(B) = Len(head) + Len(F)
        /\ \A k \in 1 .. Len(head) : B[k] = head[k]
        /\ \A k \in 1 .. Len(F) : B[Len(head) + k] = F[k]
        /\ Len(head) \in Nat /\ Len(F) \in Nat /\ DOMAIN B = 1 .. Len(B) /\ Len(B) \in Nat
    BY <2>2, <2>4, Concat
  <2>6. Message("assistant", r[1], 0) # Message("memo", 0, 0)
    BY DEF Message
  <2>7. PICK k \in 1 .. Len(F) : F[k] = Message("assistant", r[1], 0)
    <3>1. PICK n \in 1 .. Len(B) : B[n] = Message("assistant", r[1], 0)
      BY <2>1, <2>5
    <3>2. n \notin 1 .. Len(head)
      BY <3>1, <2>4, <2>5, <2>6
    <3>3. n - Len(head) \in 1 .. Len(F) /\ Len(head) + (n - Len(head)) = n
      BY <3>1, <3>2, <2>5
    <3> QED BY <3>1, <3>3, <2>5
  <2>8. /\ Message("assistant", r[1], 0).kind = "assistant"
        /\ Message("assistant", r[1], 0).turn = r[1]
    BY DEF Message
  <2>9. /\ r[1] \in DOMAIN turns /\ r[2] \in DOMAIN turns[r[1]].runs
        /\ ~turns[r[1]].compacted /\ turns[r[1]].role = "assistant"
    <3>0. PICK i \in DOMAIN turns : \E j \in 1 .. Len(TurnMessages(i)) : F[k] = TurnMessages(i)[j]
      BY <2>3
    <3>1. PICK j \in 1 .. Len(TurnMessages(i)) : F[k] = TurnMessages(i)[j]
      BY <3>0
    <3>2. /\ TurnMessages(i)[j].turn = i
          /\ TurnMessages(i)[j].kind = "assistant" =>
                ~turns[i].compacted /\ turns[i].role = "assistant"
      BY <3>1, TurnBlock
    <3>3. r[1] = i
      BY <2>7, <2>8, <3>1, <3>2
    <3> QED BY <2>1, <2>7, <2>8, <3>1, <3>2, <3>3 DEF Runs
  <2>10. RunAt(r).compacted
    <3> SUFFICES ASSUME ~RunAt(r).compacted PROVE FALSE
      OBVIOUS
    <3>1. PICK j \in 1 .. Len(TurnMessages(r[1])) :
             TurnMessages(r[1])[j] = Message("result", r[1], r[2])
      BY <2>9, TurnBlock DEF RunAt
    <3>2. PICK n \in 1 .. Len(F) : F[n] = Message("result", r[1], r[2])
      BY <2>3, <2>9, <3>1
    <3>3. Len(head) + n \in DOMAIN B /\ B[Len(head) + n] = Message("result", r[1], r[2])
      BY <2>5, <3>2
    <3> QED BY <2>1, <3>3
  <2> QED BY <2>1, <2>9, <2>10 DEF PruneInv
<1> QED BY <1>1, InvariantHolds, PTL

\* The provider is asked to speak: the prompt ends with a question or a result.
THEOREM PromptAsks == Spec => []PromptEndsWithUserSide
<1>1. ASSUME IInv, AskInv PROVE PromptEndsWithUserSide
  <2> USE <1>1 DEF IInv
  <2> SUFFICES ASSUME pc = "call"
               PROVE  BuildModelMessages # <<>> /\ Last(BuildModelMessages).kind \in {"user", "result"}
    BY DEF PromptEndsWithUserSide
  <2>1. PICK i \in Conversation :
           /\ Asks(i)
           /\ \E j \in Nat : Later(i) \subseteq {j} /\ \A k \in Later(i) : Silent(k)
    BY DEF AskInv, LastInv
  <2>2. i \in DOMAIN turns /\ turns[i] \in TurnRow /\ turns[i].runs \in Seq(ToolRun)
        /\ turns[i].role \in {"user", "assistant"} /\ i \in Nat
    BY Rows DEF Conversation, Summaries, TurnRow, Roles
  <2>3. ~turns[i].compacted
    <3>1. PICK j \in Nat : Later(i) \subseteq {j}
      BY <2>1
    <3>2. IsFiniteSet({j}) /\ Cardinality({j}) = 1
      BY FS_Singleton
    <3>3. Cardinality(Later(i)) <= 1 /\ Cardinality(Later(i)) \in Nat
      BY <3>1, <3>2, FS_Subset, TurnsFinite DEF Counted
    <3>4. HardFloor >= 2
      BY SizesAssumption
    <3> QED BY <3>3, <3>4, Sizes DEF FloorInv
  <2>4. \A j \in DOMAIN turns : j > i => TurnMessages(j) = <<>>
    <3> SUFFICES ASSUME NEW j \in DOMAIN turns, j > i PROVE TurnMessages(j) = <<>>
      OBVIOUS
    <3>1. CASE j \in Conversation
      BY <3>1, <2>1, TurnBlock DEF Later
    <3>2. CASE j \notin Conversation
      BY <3>2, TurnBlock DEF Conversation, Summaries
    <3> QED BY <3>1, <3>2
  <2>5. /\ TurnMessages(i) # <<>>
        /\ TurnMessages(i)[Len(TurnMessages(i))].kind \in {"user", "result"}
    <3>1. CASE turns[i].role = "user"
      <4> DEFINE m == Message("user", i, 0)
      <4>1. TurnMessages(i) = <<m>> /\ m.kind = "user"
        BY <3>1, <2>2, <2>3, TurnBlock DEF Message
      <4> HIDE DEF m
      <4> QED BY <4>1
    <3>2. CASE turns[i].role = "assistant"
      <4> DEFINE old == turns[i].runs
                 n == Len(old)
      <4>1. n \in Nat /\ n >= 1 /\ DOMAIN old = 1 .. n /\ n \in DOMAIN old /\ n \in 1 .. MaxCalls
        <5>1. DOMAIN old = 1 .. n /\ n \in Nat /\ DOMAIN old # {} /\ DOMAIN old \subseteq 1 .. MaxCalls
          BY <2>1, <2>2, <3>2 DEF Asks, AskInv, RowsInv
        <5> HIDE DEF n, old
        <5> QED BY <5>1
      <4>2. <<i, n>> \in Runs /\ RunAt(<<i, n>>) = old[n]
        BY <2>2, <4>1 DEF Runs, RunAt
      <4>3. NewerResults(<<i, n>>) = {}
        <5> SUFFICES ASSUME NEW s \in Runs, Earlier(<<i, n>>, s) PROVE FALSE
          BY DEF NewerResults
        <5>1. s[1] \in DOMAIN turns /\ s[2] \in DOMAIN turns[s[1]].runs
          BY DEF Runs
        <5>2. i < s[1] \/ (i = s[1] /\ n < s[2])
          BY DEF Earlier
        <5>3. CASE i < s[1]
          <6>1. CASE s[1] \in Conversation
            BY <5>1, <5>3, <6>1, <2>1 DEF Later, Silent
          <6>2. CASE s[1] \notin Conversation
            BY <5>1, <6>2 DEF AskInv, RowsInv, Conversation
          <6> QED BY <6>1, <6>2
        <5>4. CASE i = s[1] /\ n < s[2]
          <6>1. s[2] \in 1 .. n
            BY <4>1, <5>1, <5>4
          <6> HIDE DEF n
          <6> QED BY <6>1, <5>4, <4>1
        <5> QED BY <5>2, <5>3, <5>4
      <4>4. ~Stale(<<i, n>>)
        <5>1. Cardinality(NewerResults(<<i, n>>)) = 0
          BY <4>3, FS_EmptySet
        <5>2. RecentRuns \in Nat /\ RecentRuns # 0
          BY SizesAssumption
        <5>3. ~(0 >= RecentRuns)
          BY <5>2
        <5> HIDE DEF n
        <5> QED BY <5>1, <5>3 DEF Stale
      <4>5. ~old[n].compacted
        <5> DEFINE q == <<i, n>>
        <5>1. q \in Runs /\ ~Stale(q) /\ q[1] = i
          BY <4>2, <4>4
        <5> HIDE DEF q
        <5>2. ~RunAt(q).compacted
          BY <5>1, <2>3 DEF PruneInv
        <5> QED BY <5>2, <4>2 DEF q
      <4> QED BY <2>2, <2>3, <3>2, <4>1, <4>5, TurnBlock
    <3> QED BY <2>2, <3>1, <3>2
  <2> DEFINE F == FlattenSeq(Blocks)
             B == BuildModelMessages
  <2>6. F \in Seq(AnyMessage) /\ Len(F) >= 1 /\ F[Len(F)].kind \in {"user", "result"}
    <3>1. /\ Blocks \in Seq(Seq(AnyMessage)) /\ i \in 1 .. Len(Blocks) /\ Blocks[i] = TurnMessages(i)
          /\ \A j \in i+1 .. Len(Blocks) : Blocks[j] = <<>>
      <4>1. Blocks \in Seq(Seq(AnyMessage)) /\ DOMAIN turns = 1 .. Len(Blocks)
            /\ \A j \in DOMAIN turns : Blocks[j] = TurnMessages(j)
        BY BlocksType
      <4>2. Len(Blocks) \in Nat
        BY <4>1, LenProperties
      <4>3. \A j \in i+1 .. Len(Blocks) : j \in DOMAIN turns /\ j > i
        BY <2>2, <4>1, <4>2
      <4> QED BY <2>2, <2>4, <4>1, <4>3
    <3>2. Len(F) >= 1 /\ F[Len(F)] = Blocks[i][Len(Blocks[i])]
      BY <2>5, <3>1, FlattenLast
    <3> QED BY <2>5, <3>1, <3>2, FlattenOffsets
  <2>7. PICK head : B = head \o F /\ (head = <<>> \/ head = <<Message("memo", 0, 0)>>)
    BY Prompt
  <2> DEFINE M == AnyMessage \cup {Message("memo", 0, 0)}
  <2>8. head \in Seq(M) /\ F \in Seq(M)
    <3> DEFINE m == Message("memo", 0, 0)
    <3>1. m \in M /\ AnyMessage \subseteq M
      OBVIOUS
    <3>2. head = <<>> \/ head = <<m>>
      BY <2>7
    <3>3. F \in Seq(AnyMessage)
      BY <2>6
    <3> HIDE DEF m, M, F
    <3>4. <<>> \in Seq(M) /\ <<m>> \in Seq(M)
      BY <3>1
    <3>5. F \in Seq(M)
      BY <3>1, <3>3
    <3> QED BY <3>2, <3>4, <3>5
  <2> HIDE DEF B, F, M
  <2>9. /\ B \in Seq(M) /\ Len(B) = Len(head) + Len(F)
        /\ \A k \in 1 .. Len(F) : B[Len(head) + k] = F[k]
        /\ Len(head) \in Nat /\ Len(F) \in Nat
    BY <2>7, <2>8, Concat
  <2>10. B # <<>> /\ B[Len(B)] = F[Len(F)]
    <3>1. Len(F) \in 1 .. Len(F) /\ Len(B) >= 1
      BY <2>6, <2>9
    <3> QED BY <2>9, <3>1
  <2> QED BY <2>6, <2>10 DEF B, Last
<1> QED BY <1>1, InvariantHolds, AskHolds, PTL
================================================================================
