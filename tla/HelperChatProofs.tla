--------------------------- MODULE HelperChatProofs ---------------------------
(****************************************************************************)
(* What holds of the database helper and of the providers' streams, for any *)
(* of the three clients, any number of calls, attempts, iterations and      *)
(* messages: the streams keep their calls whole and are ModelStreams, and   *)
(* every call a provider is sent has its result or was cut off.             *)
(*                                                                          *)
(* The inductive invariant, IInv, follows a call from the stream that       *)
(* yields it, over the calls the turn has pending and the runs the browser  *)
(* shows, to the history that is posted again.                              *)
(****************************************************************************)
EXTENDS HelperChat, FiniteSetTheorems, SequenceTheorems, WellFoundedInduction, TLAPS

--------------------------------------------------------------------------------
(* The inductive invariant                                                      *)

Heard(c) == \E i \in 1 .. Len(heard) : heard[i].id = c

\* A call that is being put together has the arguments the provider has sent of it,
\* and has not been heard; in the Codex client it stays when it has.
SlotWell(i) ==
    LET c == acc[i].id IN
    /\ \A j \in 1 .. Len(acc) : acc[j].id = c => j = i
    /\ sent[c] # "none"
    /\ acc[i].args = IF sent[c] \in {"whole", "done"} THEN <<c>> ELSE <<>>
    /\ client = "codex" => (acc[i].emitted <=> Heard(c)) /\ (acc[i].emitted => acc[i].named)
    /\ client # "codex" => ~Heard(c) /\ sent[c] # "done"
    /\ client = "openai" => (acc[i].named <=> sent[c] # "nameless")

SlotInv == \A i \in 1 .. Len(acc) : SlotWell(i)

\* A call is heard once, with all its arguments or cut short for good.
HeardWell(i) ==
    LET c == heard[i].id IN
    /\ \A j \in 1 .. Len(heard) : heard[j].id = c => j = i
    /\ heard[i].input = IF sent[c] \in {"whole", "done"} THEN c ELSE None
    /\ sent[c] \notin {"none", "nameless"}
    /\ client = "codex" => sent[c] # "begun" /\ (phase = "reading" => Has(c))

HeardInv == \A i \in 1 .. Len(heard) : heard[i].id # None => HeardWell(i)

\* What the provider has finished is heard, or still to be emitted.
CallInv ==
    \A c \in Calls :
       /\ sent[c] = "done" => client # "openai" /\ Heard(c)
       /\ client = "openai" /\ sent[c] = "whole" => Has(c) \/ Heard(c)
       /\ sent[c] = "nameless" => client = "openai"

PlaceInv ==
    /\ phase \in {"idle", "sleeping"} => heard = <<>>
    /\ phase = "sleeping" => attempt < MaxAttempts
    /\ phase \in {"idle", "ended"} => acc = <<>>
    /\ phase = "idle" => \A c \in Calls : sent[c] = "none"
    /\ phase \in {"finishing", "ending"} => client = "openai"
    /\ client = "anthropic" => Len(acc) <= 1
    /\ \A i \in 1 .. Len(heard) : heard[i].id = None => heard[i].input = None

StreamInv == StreamTypeOK /\ SlotInv /\ HeardInv /\ CallInv /\ PlaceInv

\* Within h[1..n], x is a result that comes right after message k.
Follows(h, n, k, x) ==
    \E j \in k + 1 .. n :
       (\A b \in k + 1 .. j : h[b].role = "tool") /\ x \in ToSet(h[j].ids)

\* Every call of the history has its result, was cut off, or is about to be run.
HistoryInv ==
    \A k \in 1 .. Len(history) : history[k].role = "assistant" =>
       \A x \in ToSet(history[k].ids) :
          \/ x \in cut \/ Follows(history, Len(history), k, x)
          \/ /\ turn = "running" /\ x \in ToSet(pending)
             /\ \A b \in k + 1 .. Len(history) : history[b].role = "tool"

\* So has every run the browser shows.
ViewInv ==
    \A i \in 1 .. Len(view) : \A r \in 1 .. Len(view[i].runs) :
       view[i].runs[r].open =>
          \/ view[i].runs[r].id \in cut
          \/ turn # "off" /\ i = Len(view) /\ view[i].runs[r].id \in ToSet(pending)

TurnInv ==
    /\ turn # "answering" => phase = "idle"
    /\ turn \in {"off", "asking"} => pending = <<>>
    /\ turn # "off" => sends >= 1 /\ Len(view) >= 2
    /\ turn \in {"answering", "running"} => iteration >= 1
    /\ turn = "off" => history = <<>>

IInv == TypeOK /\ StreamInv /\ TurnInv /\ ViewInv /\ HistoryInv

--------------------------------------------------------------------------------
(* Sequences, by induction over their length.  These lemmas are those of        *)
(* CompactionProofs, which is about another state and cannot be extended here.  *)

\* A set of naturals that is not empty has a least element.
LEMMA LeastElement ==
    ASSUME NEW S, S \subseteq Nat, S # {}
    PROVE  \E x \in S : \A y \in S : x <= y
<1>1. \E x \in S : \A y \in S : ~ (<<y, x>> \in OpToRel(<, Nat))
  BY NatLessThanWellFounded, WFMin, Zenon
<1>2. PICK x \in S : \A y \in S : ~ (<<y, x>> \in OpToRel(<, Nat))
  BY <1>1
<1>3. \A y \in S : <<y, x>> \in Nat \X Nat
  OBVIOUS
<1>4. \A y \in S : ~(y < x)
  BY <1>2, <1>3 DEF OpToRel
<1> QED BY <1>4

\* Induction, with the naturals that satisfy the claim as a set.
LEMMA Induction ==
    ASSUME NEW S, 0 \in S, \A n \in Nat : n \in S => n + 1 \in S
    PROVE  \A n \in Nat : n \in S
<1> SUFFICES ASSUME Nat \ S # {} PROVE FALSE
  OBVIOUS
<1>1. PICK x \in Nat \ S : \A y \in Nat \ S : x <= y
  BY LeastElement
<1>2. x # 0 /\ x - 1 \in Nat
  BY <1>1
<1>3. x - 1 \in S
  BY <1>1, <1>2
<1> QED BY <1>1, <1>2, <1>3

\* FlattenSeq computes what its definition says, length by length.
LEMMA FlattenSteps ==
    ASSUME NEW T, NEW s \in Seq(Seq(T)), s # <<>>
    PROVE  \E f : /\ FlattenSeq(s) = f[Len(s)] /\ f[1] = s[1]
                  /\ \A n \in 1 .. Len(s) : n + 1 \in 1 .. Len(s) => f[n+1] = f[n] \o s[n+1]
<1> DEFINE Of(n, f) == f = [i \in 1 .. n |-> IF i = 1 THEN s[i] ELSE f[i-1] \o s[i]]
           L == Len(s)
           Reached == {n \in Nat : \E f : Of(n, f)}
           G == CHOOSE g : Of(L, g)
<1>1. L \in Nat /\ L # 0
  BY LenProperties, EmptySeq
<1>2. \A n \in Nat : n \in Reached
  <2>1. 0 \in Reached
    <3>1. Of(0, <<>>)
      <4>1. 1 .. 0 = {}
        OBVIOUS
      <4> QED BY <4>1
    <3> QED BY <3>1
  <2>2. ASSUME NEW n \in Nat, n \in Reached
        PROVE  n + 1 \in Reached
    <3>1. PICK f : Of(n, f)
      BY <2>2
    <3> DEFINE g == [i \in 1 .. n+1 |-> IF i \in 1 .. n THEN f[i]
                                        ELSE IF i = 1 THEN s[i] ELSE f[i-1] \o s[i]]
    <3>2. \A i \in 1 .. n : g[i] = f[i]
      OBVIOUS
    <3>3. \A i \in 1 .. n+1 : i - 1 \in 1 .. n \/ i = 1
      OBVIOUS
    <3>4. \A i \in 1 .. n+1 : g[i] = IF i = 1 THEN s[i] ELSE g[i-1] \o s[i]
      <4> SUFFICES ASSUME NEW i \in 1 .. n+1
                   PROVE  g[i] = IF i = 1 THEN s[i] ELSE g[i-1] \o s[i]
        OBVIOUS
      <4>1. g[i] = IF i = 1 THEN s[i] ELSE f[i-1] \o s[i]
        BY <3>1
      <4>2. CASE i = 1
        BY <4>1, <4>2
      <4>3. CASE i # 1
        <5>1. g[i-1] = f[i-1]
          BY <3>2, <3>3, <4>3
        <5> HIDE DEF g
        <5> QED BY <5>1, <4>1, <4>3
      <4> QED BY <4>2, <4>3
    <3>5. Of(n+1, g)
      <4>1. g = [i \in 1 .. n+1 |-> g[i]]
        OBVIOUS
      <4> HIDE DEF g
      <4> QED BY <4>1, <3>4
    <3> HIDE DEF g, Of
    <3>6. n + 1 \in Nat
      OBVIOUS
    <3> QED BY <3>5, <3>6
  <2> HIDE DEF Reached
  <2> QED BY <2>1, <2>2, Induction
<1>3. Of(L, G)
  <2>1. \E g : Of(L, g)
    BY <1>1, <1>2
  <2> HIDE DEF Of
  <2> QED BY <2>1
<1>4. FlattenSeq(s) = G[L]
  BY <1>1 DEF FlattenSeq
<1> HIDE DEF G
<1>5. G[1] = s[1]
  <2>1. 1 \in 1 .. L
    BY <1>1
  <2>2. G[1] = IF 1 = 1 THEN s[1] ELSE G[1-1] \o s[1]
    BY <2>1, <1>3
  <2> QED BY <2>2
<1>6. ASSUME NEW n \in 1 .. L, n + 1 \in 1 .. L
      PROVE  G[n+1] = G[n] \o s[n+1]
  <2>1. G[n+1] = IF n+1 = 1 THEN s[n+1] ELSE G[(n+1)-1] \o s[n+1]
    BY <1>6, <1>3
  <2>2. (n+1) - 1 = n /\ n + 1 # 1
    OBVIOUS
  <2> QED BY <2>1, <2>2
<1> QED BY <1>4, <1>5, <1>6

\* What a step appends is found behind what was there.
LEMMA Concat ==
    ASSUME NEW T, NEW s \in Seq(T), NEW t \in Seq(T)
    PROVE  /\ s \o t \in Seq(T) /\ Len(s \o t) = Len(s) + Len(t)
           /\ \A i \in 1 .. Len(s) : (s \o t)[i] = s[i]
           /\ \A i \in 1 .. Len(t) : (s \o t)[Len(s) + i] = t[i]
           /\ Len(s) \in Nat /\ Len(t) \in Nat
OBVIOUS

\* The lengths of the prefixes: where each of the sequences begins.
IsOffsets(o, s, n, flat) ==
    /\ o \in [0 .. n -> Nat] /\ o[0] = 0 /\ Len(flat) = o[n]
    /\ \A i \in 1 .. n :
          /\ o[i] = o[i-1] + Len(s[i])
          /\ \A j \in 1 .. Len(s[i]) : flat[o[i-1] + j] = s[i][j]
    /\ \A k \in 1 .. o[n] : \E i \in 1 .. n : k - o[i-1] \in 1 .. Len(s[i])
    /\ \A i, j \in 0 .. n : i <= j => o[i] <= o[j]

\* Of a single sequence.
LEMMA OffsetsOfOne ==
    ASSUME NEW T, NEW s, s[1] \in Seq(T)
    PROVE  \E o : IsOffsets(o, s, 1, s[1])
<1> DEFINE o == [i \in 0 .. 1 |-> IF i = 0 THEN 0 ELSE Len(s[1])]
<1>1. Len(s[1]) \in Nat /\ 1 .. 1 = {1} /\ 1 - 1 = 0
  BY LenProperties
<1>2. o \in [0 .. 1 -> Nat] /\ o[0] = 0 /\ o[1] = Len(s[1])
  BY <1>1
<1> HIDE DEF o
<1>3. IsOffsets(o, s, 1, s[1])
  BY <1>1, <1>2 DEF IsOffsets
<1> QED BY <1>3

\* Of one sequence more.
LEMMA OffsetsStep ==
    ASSUME NEW T, NEW s, NEW n \in Nat, n >= 1, NEW flat \in Seq(T), s[n+1] \in Seq(T),
           \A i \in 1 .. n : s[i] \in Seq(T),
           NEW o, IsOffsets(o, s, n, flat)
    PROVE  \E q : IsOffsets(q, s, n+1, flat \o s[n+1])
<1> DEFINE q == [i \in 0 .. n+1 |-> IF i = n+1 THEN o[n] + Len(s[n+1]) ELSE o[i]]
           both == flat \o s[n+1]
<1>1. /\ both \in Seq(T) /\ Len(both) = Len(flat) + Len(s[n+1])
      /\ \A i \in 1 .. Len(flat) : both[i] = flat[i]
      /\ \A i \in 1 .. Len(s[n+1]) : both[Len(flat) + i] = s[n+1][i]
      /\ Len(flat) \in Nat /\ Len(s[n+1]) \in Nat
  BY Concat
<1>2. /\ o \in [0 .. n -> Nat] /\ o[0] = 0 /\ Len(flat) = o[n]
      /\ \A i \in 1 .. n :
            /\ o[i] = o[i-1] + Len(s[i])
            /\ \A j \in 1 .. Len(s[i]) : flat[o[i-1] + j] = s[i][j]
      /\ \A k \in 1 .. o[n] : \E i \in 1 .. n : k - o[i-1] \in 1 .. Len(s[i])
      /\ \A i, j \in 0 .. n : i <= j => o[i] <= o[j]
  BY DEF IsOffsets
<1>3. /\ q \in [0 .. n+1 -> Nat] /\ q[0] = 0 /\ q[n+1] = o[n] + Len(s[n+1])
      /\ \A i \in 0 .. n : q[i] = o[i] /\ o[i] \in Nat
      /\ \A i \in 1 .. n : q[i] = o[i] /\ q[i-1] = o[i-1] /\ o[i-1] \in Nat /\ o[i] \in Nat
      /\ (n+1) - 1 = n /\ q[n] = o[n] /\ o[n] \in Nat
  BY <1>1, <1>2
<1>4. \A i \in 1 .. n : Len(s[i]) \in Nat
  BY LenProperties
<1> HIDE DEF q, both
<1>5. ASSUME NEW i \in 1 .. n+1
      PROVE  /\ q[i] = q[i-1] + Len(s[i])
             /\ \A j \in 1 .. Len(s[i]) : both[q[i-1] + j] = s[i][j]
  <2>1. CASE i = n+1
    <3>1. q[i-1] = o[n] /\ q[i] = o[n] + Len(s[i]) /\ s[i] = s[n+1]
      BY <2>1, <1>3
    <3>2. \A j \in 1 .. Len(s[n+1]) : both[o[n] + j] = s[n+1][j]
      BY <1>1, <1>2
    <3> QED BY <3>1, <3>2, <1>1, <1>3, <2>1
  <2>2. CASE i \in 1 .. n
    <3>1. /\ q[i] = q[i-1] + Len(s[i]) /\ q[i-1] \in Nat /\ Len(s[i]) \in Nat
          /\ \A j \in 1 .. Len(s[i]) : flat[q[i-1] + j] = s[i][j]
      BY <2>2, <1>2, <1>3, <1>4
    <3>2. q[i] <= o[n]
      <4>1. i \in 0 .. n /\ n \in 0 .. n /\ i <= n
        BY <2>2
      <4> QED BY <4>1, <1>2, <1>3
    <3>3. ASSUME NEW j \in 1 .. Len(s[i])
          PROVE  both[q[i-1] + j] = s[i][j]
      <4>1. q[i-1] + j \in 1 .. Len(flat)
        <5>1. Len(flat) = o[n] /\ Len(flat) \in Nat
          BY <1>1, <1>2
        <5>2. q[i-1] \in Nat /\ Len(s[i]) \in Nat /\ q[i-1] + Len(s[i]) <= Len(flat)
          BY <3>1, <3>2, <5>1
        <5> QED BY <5>1, <5>2, <3>3
      <4> QED BY <4>1, <1>1, <3>1
    <3> QED BY <3>1, <3>3
  <2> QED BY <2>1, <2>2
<1>6. ASSUME NEW k \in 1 .. q[n+1]
      PROVE  \E i \in 1 .. n+1 : k - q[i-1] \in 1 .. Len(s[i])
  <2>1. CASE k \in 1 .. o[n]
    <3>1. PICK i \in 1 .. n : k - o[i-1] \in 1 .. Len(s[i])
      BY <2>1, <1>2
    <3>2. k - q[i-1] \in 1 .. Len(s[i]) /\ i \in 1 .. n+1
      BY <3>1, <1>3
    <3> QED BY <3>2
  <2>2. CASE k \notin 1 .. o[n]
    <3>1. k - q[(n+1)-1] \in 1 .. Len(s[n+1])
      <4>1. q[n+1] = o[n] + Len(s[n+1]) /\ o[n] \in Nat /\ Len(s[n+1]) \in Nat
        BY <1>1, <1>3
      <4>2. k \in Nat /\ k >= 1 /\ k <= o[n] + Len(s[n+1]) /\ k > o[n]
        BY <2>2, <4>1, <1>6
      <4>3. k - o[n] \in 1 .. Len(s[n+1])
        BY <4>1, <4>2
      <4> QED BY <4>3, <1>3
    <3>2. n + 1 \in 1 .. n+1
      OBVIOUS
    <3> QED BY <3>1, <3>2
  <2> QED BY <2>1, <2>2
<1>7. IsOffsets(q, s, n+1, both)
  <2>1. Len(both) = q[n+1]
    BY <1>1, <1>2, <1>3
  <2>2. ASSUME NEW i \in 0 .. n+1, NEW j \in 0 .. n+1, i <= j
        PROVE  q[i] <= q[j]
    <3>1. CASE j \in 0 .. n
      <4>1. i \in 0 .. n
        BY <3>1, <2>2
      <4> QED BY <3>1, <4>1, <2>2, <1>2, <1>3
    <3>2. CASE j = n+1 /\ i \in 0 .. n
      <4>1. o[i] <= o[n] /\ n \in 0 .. n
        <5>1. n \in 0 .. n /\ i <= n
          BY <3>2
        <5> QED BY <5>1, <3>2, <1>2
      <4>2. q[i] = o[i] /\ q[j] = o[n] + Len(s[n+1]) /\ o[i] \in Nat /\ o[n] \in Nat
        BY <3>2, <1>3
      <4> QED BY <4>1, <4>2, <1>1
    <3>3. CASE i = n+1 /\ j = n+1
      <4>1. q[i] \in Nat
        BY <1>3, <3>3
      <4> QED BY <3>3, <4>1
    <3> QED BY <3>1, <3>2, <3>3, <2>2
  <2> QED BY <2>1, <2>2, <1>3, <1>5, <1>6 DEF IsOffsets
<1> QED BY <1>7 DEF both

\* Where the elements of the sequences are in the flattened one.
LEMMA FlattenOffsets ==
    ASSUME NEW T, NEW s \in Seq(Seq(T))
    PROVE  FlattenSeq(s) \in Seq(T) /\ \E o : IsOffsets(o, s, Len(s), FlattenSeq(s))
<1>1. CASE s = <<>>
  <2>1. FlattenSeq(s) = <<>> /\ Len(s) = 0 /\ <<>> \in Seq(T) /\ Len(<<>>) = 0
    BY <1>1 DEF FlattenSeq
  <2> DEFINE o == [i \in 0 .. 0 |-> 0]
  <2>2. o \in [0 .. 0 -> Nat] /\ o[0] = 0 /\ 1 .. 0 = {}
    OBVIOUS
  <2> HIDE DEF o
  <2>3. IsOffsets(o, s, 0, <<>>)
    BY <2>1, <2>2 DEF IsOffsets
  <2> QED BY <2>1, <2>3
<1>2. CASE s # <<>>
  <2>1. Len(s) \in Nat /\ Len(s) >= 1 /\ \A i \in 1 .. Len(s) : s[i] \in Seq(T)
    BY <1>2, EmptySeq, LenProperties, ElementOfSeq
  <2> DEFINE L == Len(s)
  <2>2. PICK f : /\ FlattenSeq(s) = f[L] /\ f[1] = s[1]
                 /\ \A n \in 1 .. L : n + 1 \in 1 .. L => f[n+1] = f[n] \o s[n+1]
    BY <1>2, FlattenSteps
  <2> DEFINE Good(n) == f[n] \in Seq(T) /\ \E o : IsOffsets(o, s, n, f[n])
             S == {n \in Nat : n + 1 <= L => Good(n+1)}
  <2> HIDE DEF L
  <2>3. L \in Nat /\ L >= 1 /\ \A i \in 1 .. L : s[i] \in Seq(T)
    BY <2>1 DEF L
  <2>4. Good(1)
    <3>1. 1 \in 1 .. L
      BY <2>3
    <3>2. f[1] = s[1] /\ s[1] \in Seq(T)
      BY <2>2, <2>3, <3>1
    <3> QED BY <3>2, OffsetsOfOne
  <2>5. ASSUME NEW n \in Nat, n >= 1, n + 1 <= L, Good(n)
        PROVE  Good(n+1)
    <3>1. n \in 1 .. L /\ n + 1 \in 1 .. L /\ \A i \in 1 .. n : i \in 1 .. L
      BY <2>3, <2>5
    <3>2. f[n+1] = f[n] \o s[n+1]
      BY <2>2, <3>1
    <3>3. s[n+1] \in Seq(T) /\ f[n] \in Seq(T) /\ \A i \in 1 .. n : s[i] \in Seq(T)
      BY <2>3, <2>5, <3>1
    <3>4. f[n] \o s[n+1] \in Seq(T)
      BY <3>3, Concat
    <3>5. \E o : IsOffsets(o, s, n, f[n])
      BY <2>5
    <3>6. \E o : IsOffsets(o, s, n+1, f[n] \o s[n+1])
      BY <3>3, <3>5, <2>5, OffsetsStep
    <3> QED BY <3>2, <3>4, <3>6
  <2> HIDE DEF Good
  <2>6. \A n \in Nat : n \in S
    <3>1. 0 \in S
      BY <2>4
    <3>2. ASSUME NEW n \in Nat, n \in S
          PROVE  n + 1 \in S
      <4>1. CASE (n + 1) + 1 <= L
        <5>1. Good(n+1)
          BY <3>2, <4>1, <2>3
        <5>2. Good((n+1)+1)
          BY <5>1, <2>5, <4>1
        <5> QED BY <5>2
      <4>2. CASE ~((n + 1) + 1 <= L)
        BY <4>2
      <4> QED BY <4>1, <4>2
    <3> HIDE DEF S
    <3> QED BY <3>1, <3>2, Induction
  <2>7. Good(L)
    <3>1. L - 1 \in Nat /\ (L - 1) + 1 = L
      BY <2>3
    <3>2. L - 1 \in S
      BY <2>6, <3>1
    <3>3. (L - 1) + 1 <= L => Good((L - 1) + 1)
      BY <3>2
    <3> QED BY <3>1, <3>3, <2>3
  <2> QED BY <2>7, <2>2 DEF Good, L
<1> QED BY <1>1, <1>2

\* Every element of a sequence is in the flattened one, and no other is.
LEMMA FlattenElements ==
    ASSUME NEW T, NEW s \in Seq(Seq(T))
    PROVE  /\ \A i \in 1 .. Len(s) : \A j \in 1 .. Len(s[i]) :
                 \E k \in 1 .. Len(FlattenSeq(s)) : FlattenSeq(s)[k] = s[i][j]
           /\ \A k \in 1 .. Len(FlattenSeq(s)) :
                 \E i \in 1 .. Len(s) : \E j \in 1 .. Len(s[i]) : FlattenSeq(s)[k] = s[i][j]
<1> DEFINE F == FlattenSeq(s)
           L == Len(s)
<1>1. /\ F \in Seq(T) /\ L \in Nat /\ \A i \in 1 .. L : Len(s[i]) \in Nat
      /\ \E o : IsOffsets(o, s, L, F)
  BY FlattenOffsets, LenProperties, ElementOfSeq
<1> HIDE DEF F, L
<1>2. PICK o : IsOffsets(o, s, L, F)
  BY <1>1
<1>3. /\ o \in [0 .. L -> Nat] /\ Len(F) = o[L]
      /\ \A i \in 1 .. L :
            /\ o[i] = o[i-1] + Len(s[i])
            /\ \A j \in 1 .. Len(s[i]) : F[o[i-1] + j] = s[i][j]
      /\ \A k \in 1 .. o[L] : \E i \in 1 .. L : k - o[i-1] \in 1 .. Len(s[i])
      /\ \A i, j \in 0 .. L : i <= j => o[i] <= o[j]
  BY <1>2 DEF IsOffsets
<1>4. \A i \in 1 .. L : i - 1 \in 0 .. L /\ i \in 0 .. L /\ L \in 0 .. L /\ i <= L
  BY <1>1
<1>5. \A i \in 1 .. L : o[i-1] \in Nat /\ o[i] \in Nat /\ o[i] <= o[L] /\ o[L] \in Nat
  BY <1>3, <1>4
<1>6. ASSUME NEW i \in 1 .. L, NEW j \in 1 .. Len(s[i])
      PROVE  \E k \in 1 .. Len(F) : F[k] = s[i][j]
  <2>1. F[o[i-1] + j] = s[i][j] /\ o[i] = o[i-1] + Len(s[i])
    BY <1>3
  <2>2. o[i-1] + j \in 1 .. Len(F)
    <3>1. o[i-1] \in Nat /\ o[L] \in Nat /\ o[i-1] + Len(s[i]) <= o[L]
      BY <1>5, <2>1
    <3>2. Len(s[i]) \in Nat /\ Len(F) = o[L]
      BY <1>1, <1>3
    <3> QED BY <3>1, <3>2
  <2> QED BY <2>1, <2>2
<1>7. ASSUME NEW k \in 1 .. Len(F)
      PROVE  \E i \in 1 .. L : \E j \in 1 .. Len(s[i]) : F[k] = s[i][j]
  <2>1. PICK i \in 1 .. L : k - o[i-1] \in 1 .. Len(s[i])
    BY <1>3
  <2>2. F[o[i-1] + (k - o[i-1])] = s[i][k - o[i-1]]
    BY <1>3, <2>1
  <2>3. o[i-1] + (k - o[i-1]) = k
    BY <1>5
  <2> QED BY <2>1, <2>2, <2>3
<1> QED BY <1>6, <1>7 DEF F, L

--------------------------------------------------------------------------------
(* The streams                                                                  *)

\* What a state is made of.
LEMMA StreamParts ==
    ASSUME StreamTypeOK
    PROVE  /\ acc \in Seq(Slot) /\ Len(acc) \in Nat /\ DOMAIN acc = 1 .. Len(acc)
           /\ \A i \in 1 .. Len(acc) :
                 /\ acc[i] \in Slot /\ acc[i].id \in Calls /\ acc[i].args \in Seq(Calls)
                 /\ acc[i].named \in BOOLEAN /\ acc[i].emitted \in BOOLEAN
           /\ heard \in Seq(Event) /\ Len(heard) \in Nat
           /\ \A i \in 1 .. Len(heard) :
                 /\ heard[i] \in Event
                 /\ heard[i].id \in Calls \cup {None} /\ heard[i].input \in Calls \cup {None}
           /\ \A c : Has(c) <=> \E i \in 1 .. Len(acc) : acc[i].id = c
           /\ sent \in [Calls -> {"none", "nameless", "begun", "whole", "done"}]
<1>1. acc \in Seq(Slot) /\ heard \in Seq(Event)
      /\ sent \in [Calls -> {"none", "nameless", "begun", "whole", "done"}]
  BY DEF StreamTypeOK
<1>2. Len(acc) \in Nat /\ DOMAIN acc = 1 .. Len(acc) /\ \A i \in 1 .. Len(acc) : acc[i] \in Slot
  BY <1>1
<1>3. Len(heard) \in Nat /\ \A i \in 1 .. Len(heard) : heard[i] \in Event
  BY <1>1
<1>4. \A c : Has(c) <=> \E i \in 1 .. Len(acc) : acc[i].id = c
  BY <1>2 DEF Has
<1>5. \A s \in Slot : s.id \in Calls /\ s.args \in Seq(Calls) /\ s.named \in BOOLEAN /\ s.emitted \in BOOLEAN
  BY DEF Slot
<1>6. \A e \in Event : e.id \in Calls \cup {None} /\ e.input \in Calls \cup {None}
  BY DEF Event
<1> QED BY <1>1, <1>2, <1>3, <1>4, <1>5, <1>6

\* One element more, one less.
LEMMA OneMore ==
    ASSUME NEW T, NEW s \in Seq(T), NEW x \in T, NEW q, q = s \o <<x>> \/ q = Append(s, x)
    PROVE  /\ q \in Seq(T) /\ Len(q) = Len(s) + 1 /\ Len(s) \in Nat
           /\ q[Len(s) + 1] = x /\ \A i \in 1 .. Len(s) : q[i] = s[i]
           /\ \A i \in 1 .. Len(q) : i \in 1 .. Len(s) \/ i = Len(s) + 1
<1>1. s \o <<x>> = Append(s, x)
  OBVIOUS
<1>2. q = Append(s, x)
  BY <1>1
<1> QED BY <1>2

LEMMA OneLess ==
    ASSUME NEW T, NEW s \in Seq(T), s # <<>>
    PROVE  /\ Tail(s) \in Seq(T) /\ Len(Tail(s)) = Len(s) - 1 /\ Len(s) \in Nat /\ Len(s) >= 1
           /\ Head(s) = s[1] /\ \A i \in 1 .. Len(Tail(s)) : Tail(s)[i] = s[i+1]
<1>1. Len(s) \in Nat /\ Len(s) >= 1
  BY EmptySeq, LenProperties
<1>2. Tail(s) \in Seq(T) /\ Len(Tail(s)) = Len(s) - 1
  BY <1>1
<1>3. Head(s) = s[1]
  BY <1>1
<1>4. \A i \in 1 .. Len(Tail(s)) : Tail(s)[i] = s[i+1]
  BY <1>1
<1> QED BY <1>1, <1>2, <1>3, <1>4

\* An event more.
LEMMA HearOne ==
    ASSUME StreamTypeOK, NEW e \in Event, heard' = heard \o <<e>>
    PROVE  /\ heard' \in Seq(Event) /\ Len(heard') = Len(heard) + 1 /\ Len(heard) \in Nat
           /\ heard'[Len(heard) + 1] = e /\ \A i \in 1 .. Len(heard) : heard'[i] = heard[i]
           /\ \A i \in 1 .. Len(heard') : i \in 1 .. Len(heard) \/ i = Len(heard) + 1
           /\ \A d : Heard(d)' <=> Heard(d) \/ d = e.id
<1>1. heard \in Seq(Event)
  BY StreamParts
<1>2. /\ heard' \in Seq(Event) /\ Len(heard') = Len(heard) + 1 /\ Len(heard) \in Nat
      /\ heard'[Len(heard) + 1] = e /\ \A i \in 1 .. Len(heard) : heard'[i] = heard[i]
      /\ \A i \in 1 .. Len(heard') : i \in 1 .. Len(heard) \/ i = Len(heard) + 1
  BY <1>1, OneMore
<1>3. ASSUME NEW d, Heard(d)' PROVE Heard(d) \/ d = e.id
  <2>1. PICK i \in 1 .. Len(heard') : heard'[i].id = d
    BY <1>3 DEF Heard
  <2> QED BY <2>1, <1>2 DEF Heard
<1>4. ASSUME NEW d, Heard(d) PROVE Heard(d)'
  <2>1. PICK i \in 1 .. Len(heard) : heard[i].id = d
    BY <1>4 DEF Heard
  <2>2. i \in 1 .. Len(heard') /\ heard'[i].id = d
    BY <2>1, <1>2
  <2> QED BY <2>2 DEF Heard
<1>5. Heard(e.id)'
  <2>1. Len(heard) + 1 \in 1 .. Len(heard') /\ heard'[Len(heard) + 1].id = e.id
    BY <1>2
  <2> QED BY <2>1 DEF Heard
<1> QED BY <1>2, <1>3, <1>4, <1>5

\* A stream that is not open, or opens again, has nothing to account for.
LEMMA BlankKeeps ==
    ASSUME acc' = <<>>, heard' = <<>>, sent' = [c \in Calls |-> "none"], over' \in BOOLEAN,
           phase' \in {"idle", "reading"}, attempt' \in 0 .. MaxAttempts, client' \in Clients
    PROVE  StreamInv'
<1>1. Len(acc') = 0 /\ Len(heard') = 0 /\ 1 .. 0 = {} /\ Len(<<>>) = 0
  OBVIOUS
<1>2. \A c \in Calls : sent'[c] = "none"
  OBVIOUS
<1>3. StreamTypeOK'
  <2>1. acc' \in Seq(Slot) /\ heard' \in Seq(Event)
    OBVIOUS
  <2>2. sent' \in [Calls -> {"none", "nameless", "begun", "whole", "done"}]
    OBVIOUS
  <2> QED BY <2>1, <2>2 DEF StreamTypeOK
<1>4. SlotInv' /\ HeardInv'
  BY <1>1 DEF SlotInv, HeardInv
<1>5. CallInv'
  BY <1>2 DEF CallInv
<1>6. PlaceInv'
  BY <1>1, <1>2 DEF PlaceInv
<1> QED BY <1>3, <1>4, <1>5, <1>6 DEF StreamInv

\* The provider starts a call.
LEMMA StartKeeps ==
    ASSUME StreamInv, NEW c \in Calls, sent[c] = "none", NEW named \in BOOLEAN,
           NEW to \in {"begun", "nameless"},
           acc' = Append(acc, NewSlot(c, named)), sent' = [sent EXCEPT ![c] = to],
           client = "openai" => (named <=> to # "nameless"),
           client # "openai" => to = "begun", client = "anthropic" => acc = <<>>,
           phase = "reading", Chunk, Silent
    PROVE  StreamInv'
<1> USE DEF Chunk, Silent
<1>1. StreamTypeOK /\ SlotInv /\ HeardInv /\ CallInv /\ PlaceInv
  BY DEF StreamInv
<1> DEFINE s == NewSlot(c, named)
<1>2. s \in Slot /\ s.id = c /\ s.args = <<>> /\ s.named = named /\ s.emitted = FALSE
  BY DEF NewSlot, Slot
<1> HIDE DEF s
<1>3. /\ acc' \in Seq(Slot) /\ Len(acc') = Len(acc) + 1 /\ Len(acc) \in Nat
      /\ acc'[Len(acc) + 1] = s /\ \A i \in 1 .. Len(acc) : acc'[i] = acc[i]
      /\ \A i \in 1 .. Len(acc') : i \in 1 .. Len(acc) \/ i = Len(acc) + 1
  <2>1. acc \in Seq(Slot) /\ acc' = Append(acc, s)
    BY <1>1, StreamParts DEF s
  <2> QED BY <2>1, <1>2, OneMore
<1>4. sent' \in [Calls -> {"none", "nameless", "begun", "whole", "done"}]
      /\ sent'[c] = to /\ \A d \in Calls : d # c => sent'[d] = sent[d]
  BY <1>1, StreamParts
<1>5. StreamTypeOK'
  BY <1>1, <1>3, <1>4 DEF StreamTypeOK
<1>6. \A d : Heard(d)' <=> Heard(d)
  BY DEF Heard
<1>7. ~Heard(c)
  <2>1. SUFFICES ASSUME NEW i \in 1 .. Len(heard), heard[i].id = c PROVE FALSE
    BY DEF Heard
  <2>2. c # None
    BY NoneIsNoCall
  <2> QED BY <2>1, <2>2, <1>1 DEF HeardInv, HeardWell
<1>8. \A i \in 1 .. Len(acc) : acc[i].id # c /\ acc[i].id \in Calls
  <2>1. \A i \in 1 .. Len(acc) : sent[acc[i].id] # "none"
    BY <1>1 DEF SlotInv, SlotWell
  <2>2. \A i \in 1 .. Len(acc) : acc[i].id \in Calls
    BY <1>1, StreamParts
  <2> QED BY <2>1, <2>2
<1>9. SlotInv'
  <2>1. ASSUME NEW i \in 1 .. Len(acc')
        PROVE  SlotWell(i)'
    <3>1. CASE i \in 1 .. Len(acc)
      <4>1. acc'[i] = acc[i] /\ acc[i].id \in Calls /\ acc[i].id # c /\ sent'[acc[i].id] = sent[acc[i].id]
        BY <3>1, <1>3, <1>4, <1>8
      <4>2. \A j \in 1 .. Len(acc') : acc'[j].id = acc[i].id => j = i
        BY <4>1, <3>1, <1>1, <1>2, <1>3 DEF SlotInv, SlotWell
      <4>3. SlotWell(i)
        BY <3>1, <1>1 DEF SlotInv
      <4> QED BY <4>1, <4>2, <4>3, <1>6 DEF SlotWell
    <3>2. CASE i = Len(acc) + 1
      <4>1. acc'[i] = s
        BY <3>2, <1>3
      <4>2. \A j \in 1 .. Len(acc') : acc'[j].id = c => j = i
        BY <3>2, <1>3, <1>8
      <4> QED BY <4>1, <4>2, <1>2, <1>4, <1>6, <1>7 DEF SlotWell
    <3> QED BY <3>1, <3>2, <1>3
  <2> QED BY <2>1 DEF SlotInv
<1>10. \A d : Has(d)' <=> Has(d) \/ d = c
  <2>1. \A d : Has(d)' <=> \E i \in 1 .. Len(acc') : acc'[i].id = d
    BY <1>3 DEF Has
  <2>2. \A d : Has(d) <=> \E i \in 1 .. Len(acc) : acc[i].id = d
    BY <1>1, StreamParts
  <2>3. \A i \in 1 .. Len(acc) : i \in 1 .. Len(acc')
    BY <1>3
  <2>4. Len(acc) + 1 \in 1 .. Len(acc')
    BY <1>3
  <2> QED BY <2>1, <2>2, <2>3, <2>4, <1>2, <1>3, <1>5
<1>11. HeardInv'
  <2>1. ASSUME NEW i \in 1 .. Len(heard), heard[i].id # None
        PROVE  HeardWell(i)'
    <3>1. heard[i].id \in Calls /\ heard[i].id # c
      BY <2>1, <1>1, <1>7, StreamParts DEF Heard
    <3>2. sent'[heard[i].id] = sent[heard[i].id]
      BY <3>1, <1>4
    <3> QED BY <2>1, <3>1, <3>2, <1>1, <1>10 DEF HeardInv, HeardWell
  <2> QED BY <2>1 DEF HeardInv
<1>12. CallInv'
  BY <1>1, <1>4, <1>6, <1>10 DEF CallInv
<1>13. PlaceInv'
  <2>1. client = "anthropic" => Len(acc') <= 1
    BY <1>3
  <2> QED BY <2>1, <1>1 DEF PlaceInv
<1> QED BY <1>5, <1>9, <1>11, <1>12, <1>13 DEF StreamInv

\* Nothing is heard of a call that has not begun.
LEMMA HeardCalls ==
    ASSUME StreamInv
    PROVE  /\ \A c \in Calls : Heard(c) => sent[c] \notin {"none", "nameless"}
           /\ \A i \in 1 .. Len(heard) : heard[i].id # None => heard[i].id \in Calls /\ Heard(heard[i].id)
           /\ ~Heard(None) \/ \E i \in 1 .. Len(heard) : heard[i].id = None
           /\ \A c \in Calls : c # None
           /\ \A i \in 1 .. Len(acc) : acc[i].id \in Calls /\ sent[acc[i].id] # "none"
<1>1. StreamTypeOK /\ SlotInv /\ HeardInv
  BY DEF StreamInv
<1>2. \A c \in Calls : c # None
  BY NoneIsNoCall
<1>3. ASSUME NEW c \in Calls, Heard(c) PROVE sent[c] \notin {"none", "nameless"}
  <2>1. PICK i \in 1 .. Len(heard) : heard[i].id = c
    BY <1>3 DEF Heard
  <2> QED BY <2>1, <1>1, <1>2 DEF HeardInv, HeardWell
<1>4. \A i \in 1 .. Len(heard) : heard[i].id \in Calls \cup {None}
  BY <1>1, StreamParts
<1>5. \A i \in 1 .. Len(acc) : sent[acc[i].id] # "none"
  BY <1>1 DEF SlotInv, SlotWell
<1>6. \A i \in 1 .. Len(acc) : acc[i].id \in Calls
  BY <1>1, StreamParts
<1> QED BY <1>2, <1>3, <1>4, <1>5, <1>6 DEF Heard

\* What was heard before keeps its arguments, if its calls are not sent any more of.
LEMMA HeardKeeps ==
    ASSUME StreamInv, NEW c \in Calls, client' = client,
           \A d \in Calls : d # c => sent'[d] = sent[d],
           \A d \in Calls : d # c /\ phase' = "reading" /\ client = "codex" /\ Has(d) => Has(d)',
           phase' = "reading" => phase = "reading",
           NEW i \in 1 .. Len(heard), heard'[i] = heard[i], heard[i].id # None, heard[i].id # c,
           \A j \in 1 .. Len(heard') : heard'[j].id = heard[i].id => j \in 1 .. Len(heard) /\ heard[j].id = heard[i].id
    PROVE  HeardWell(i)'
<1>1. heard[i].id \in Calls /\ sent'[heard[i].id] = sent[heard[i].id]
  BY HeardCalls
<1>2. HeardWell(i)
  BY DEF StreamInv, HeardInv
<1> QED BY <1>1, <1>2 DEF HeardWell

\* The provider sends the arguments of a call.
LEMMA ArgumentsKeeps ==
    ASSUME StreamInv, NEW c \in Calls, Arguments(c)
    PROVE  StreamInv'
<1> USE DEF Chunk, Silent
<1>1. StreamTypeOK /\ SlotInv /\ HeardInv /\ CallInv /\ PlaceInv
  BY DEF StreamInv
<1>2. /\ phase = "reading" /\ Has(c) /\ sent[c] = "begun" /\ sent' = [sent EXCEPT ![c] = "whole"]
      /\ acc' = [acc EXCEPT ![Position(c)].args = Append(@, c)]
      /\ client' = client /\ phase' = phase /\ attempt' = attempt /\ over' = over /\ heard' = heard
  BY DEF Arguments, Goes, Reading
<1> DEFINE p == Position(c)
<1>3. p \in 1 .. Len(acc) /\ acc[p].id = c
  <2>1. \E i \in DOMAIN acc : acc[i].id = c
    BY <1>2 DEF Has
  <2>2. DOMAIN acc = 1 .. Len(acc)
    BY <1>1, StreamParts
  <2> QED BY <2>1, <2>2 DEF Position
<1> HIDE DEF p
<1>4. acc' = [acc EXCEPT ![p].args = Append(@, c)]
  BY <1>2 DEF p
<1>5. acc[p].args = <<>> /\ \A j \in 1 .. Len(acc) : acc[j].id = c => j = p
  BY <1>1, <1>2, <1>3 DEF SlotInv, SlotWell
<1>6. ~Heard(c)
  <2>1. SUFFICES ASSUME NEW i \in 1 .. Len(heard), heard[i].id = c PROVE FALSE
    BY DEF Heard
  <2>2. client = "codex"
    <3>1. CASE client # "codex"
      BY <3>1, <2>1, <1>1, <1>3 DEF SlotInv, SlotWell, Heard
    <3> QED BY <3>1
  <2> QED BY <2>1, <2>2, <1>1, <1>2, HeardCalls DEF HeardInv, HeardWell
<1>7. /\ acc' \in Seq(Slot) /\ Len(acc') = Len(acc) /\ Len(acc) \in Nat
      /\ \A i \in 1 .. Len(acc) :
            /\ acc'[i].id = acc[i].id /\ acc'[i].named = acc[i].named /\ acc'[i].emitted = acc[i].emitted
            /\ acc'[i].args = IF i = p THEN <<c>> ELSE acc[i].args
  <2> DEFINE s == [acc[p] EXCEPT !.args = Append(@, c)]
  <2>1. acc[p] \in Slot /\ acc \in Seq(Slot) /\ Len(acc) \in Nat /\ DOMAIN acc = 1 .. Len(acc)
    BY <1>1, <1>3, StreamParts
  <2>2. acc[p] = [id |-> acc[p].id, named |-> acc[p].named, args |-> acc[p].args, emitted |-> acc[p].emitted]
        /\ acc[p].id \in Calls /\ acc[p].named \in BOOLEAN /\ acc[p].emitted \in BOOLEAN
    BY <2>1 DEF Slot
  <2>3. s = [id |-> acc[p].id, named |-> acc[p].named, args |-> <<c>>, emitted |-> acc[p].emitted]
    BY <2>2, <1>5
  <2>4. s \in Slot /\ s.id = acc[p].id /\ s.named = acc[p].named /\ s.emitted = acc[p].emitted /\ s.args = <<c>>
    <3>1. <<c>> \in Seq(Calls)
      OBVIOUS
    <3> HIDE DEF s
    <3> QED BY <2>2, <2>3, <3>1 DEF Slot
  <2>5. acc' = [acc EXCEPT ![p] = s]
    BY <1>4
  <2> HIDE DEF s
  <2>6. acc' \in Seq(Slot) /\ Len(acc') = Len(acc) /\ \A i \in 1 .. Len(acc) : acc'[i] = IF i = p THEN s ELSE acc[i]
    BY <2>1, <2>4, <2>5, <1>3
  <2> QED BY <2>1, <2>4, <2>6
<1>8. sent' \in [Calls -> {"none", "nameless", "begun", "whole", "done"}]
      /\ sent'[c] = "whole" /\ \A d \in Calls : d # c => sent'[d] = sent[d]
  BY <1>1, <1>2, StreamParts
<1>9. StreamTypeOK'
  BY <1>1, <1>2, <1>7, <1>8 DEF StreamTypeOK
<1>10. \A d : (Heard(d)' <=> Heard(d)) /\ (Has(d)' <=> Has(d))
  <2>1. DOMAIN acc' = 1 .. Len(acc) /\ DOMAIN acc = 1 .. Len(acc)
    BY <1>1, <1>7, StreamParts
  <2> QED BY <2>1, <1>2, <1>7 DEF Heard, Has
<1>11. SlotInv'
  <2>1. ASSUME NEW i \in 1 .. Len(acc)
        PROVE  SlotWell(i)'
    <3>1. acc[i].id \in Calls /\ SlotWell(i)
      BY <1>1, StreamParts DEF SlotInv
    <3>2. CASE i = p
      BY <3>1, <3>2, <1>2, <1>3, <1>7, <1>8, <1>10 DEF SlotWell
    <3>3. CASE i # p
      <4>1. acc[i].id # c
        BY <3>3, <1>5
      <4> QED BY <4>1, <3>1, <3>3, <1>2, <1>7, <1>8, <1>10 DEF SlotWell
    <3> QED BY <3>2, <3>3
  <2> QED BY <2>1, <1>7 DEF SlotInv
<1>12. HeardInv'
  <2>1. ASSUME NEW i \in 1 .. Len(heard), heard[i].id # None PROVE heard[i].id # c
    BY <1>6 DEF Heard
  <2>2. \A d \in Calls : Has(d) => Has(d)'
    BY <1>10
  <2>3. ASSUME NEW i \in 1 .. Len(heard), heard[i].id # None PROVE HeardWell(i)'
    BY <2>1, <2>2, <2>3, <1>2, <1>8, HeardKeeps
  <2> QED BY <2>3, <1>2 DEF HeardInv
<1>13. CallInv'
  BY <1>1, <1>2, <1>8, <1>10 DEF CallInv
<1>14. PlaceInv'
  BY <1>1, <1>2, <1>7 DEF PlaceInv
<1> QED BY <1>9, <1>11, <1>12, <1>13, <1>14 DEF StreamInv

\* Steps that only move the phase.
LEMMA QuietKeeps ==
    ASSUME StreamInv, Break \/ OpenAIFinish \/ Emitted
    PROVE  StreamInv'
<1>1. StreamTypeOK /\ SlotInv /\ HeardInv /\ CallInv /\ PlaceInv
  BY DEF StreamInv
<1>2. UNCHANGED <<client, attempt, acc, sent, heard>> /\ over' \in BOOLEAN
  BY <1>1 DEF Break, OpenAIFinish, Emitted, StreamTypeOK
<1>3. /\ phase' \in {"sleeping", "failed", "overflowed", "finishing", "reading", "ended"}
      /\ phase' = "sleeping" => heard = <<>> /\ attempt < MaxAttempts
      /\ phase' = "finishing" => client = "openai"
      /\ phase' = "reading" => client = "openai"
      /\ phase' = "ended" => acc = <<>>
  <2>1. CASE Break
    <3>1. PICK error \in Errors :
             phase' = IF error \in Transient /\ heard = <<>> /\ attempt < MaxAttempts
                      THEN "sleeping" ELSE Translated(error)
      BY <2>1 DEF Break
    <3>2. client \in {"anthropic", "openai", "codex"}
      BY <1>1, ClientsAssumption DEF StreamTypeOK
    <3>3. Translated(error) \in {"failed", "overflowed"}
      BY <3>2 DEF Translated, AnthropicTranslated, OpenAITranslated, CodexTranslated
    <3> QED BY <3>1, <3>3
  <2>2. CASE OpenAIFinish
    BY <2>2 DEF OpenAIFinish, Reading
  <2>3. CASE Emitted
    BY <2>3, <1>1 DEF Emitted, PlaceInv
  <2> QED BY <2>1, <2>2, <2>3
<1>4. StreamTypeOK'
  BY <1>1, <1>2, <1>3 DEF StreamTypeOK
<1>5. \A d : (Heard(d)' <=> Heard(d)) /\ (Has(d)' <=> Has(d))
  BY <1>2 DEF Heard, Has
<1>6. SlotInv'
  BY <1>1, <1>2, <1>5 DEF SlotInv, SlotWell
<1>7. HeardInv'
  <2>1. ASSUME NEW i \in 1 .. Len(heard), heard[i].id # None PROVE HeardWell(i)'
    <3>1. HeardWell(i)
      BY <1>1, <2>1 DEF HeardInv
    <3> QED BY <3>1, <1>2, <1>3, <1>5 DEF HeardWell
  <2> QED BY <2>1, <1>2 DEF HeardInv
<1>8. CallInv'
  BY <1>1, <1>2, <1>5 DEF CallInv
<1>9. PlaceInv'
  BY <1>1, <1>2, <1>3 DEF PlaceInv
<1> QED BY <1>4, <1>6, <1>7, <1>8, <1>9 DEF StreamInv

\* The stream is exhausted.
LEMMA EndKeeps ==
    ASSUME StreamInv, End
    PROVE  StreamInv'
<1>1. StreamTypeOK /\ SlotInv /\ HeardInv /\ CallInv /\ PlaceInv
  BY DEF StreamInv
<1>2. /\ UNCHANGED <<client, attempt, sent, over, heard>> /\ phase = "reading"
      /\ client = "openai" => phase' = "ending" /\ acc' = acc
      /\ client # "openai" => phase' = "ended" /\ acc' = <<>>
  BY DEF End, Silent
<1>3. Len(<<>>) = 0 /\ 1 .. 0 = {} /\ <<>> \in Seq(Slot)
  OBVIOUS
<1>4. StreamTypeOK'
  BY <1>1, <1>2, <1>3 DEF StreamTypeOK
<1>5. \A d : (Heard(d)' <=> Heard(d)) /\ (client = "openai" => (Has(d)' <=> Has(d)))
  BY <1>2 DEF Heard, Has
<1>6. SlotInv'
  <2>1. CASE client = "openai"
    BY <2>1, <1>1, <1>2, <1>5 DEF SlotInv, SlotWell
  <2>2. CASE client # "openai"
    BY <2>2, <1>2, <1>3 DEF SlotInv
  <2> QED BY <2>1, <2>2
<1>7. HeardInv'
  <2>1. ASSUME NEW i \in 1 .. Len(heard), heard[i].id # None PROVE HeardWell(i)'
    <3>1. HeardWell(i)
      BY <1>1, <2>1 DEF HeardInv
    <3> QED BY <3>1, <1>2 DEF HeardWell
  <2> QED BY <2>1, <1>2 DEF HeardInv
<1>8. CallInv'
  BY <1>1, <1>2, <1>5 DEF CallInv
<1>9. PlaceInv'
  BY <1>1, <1>2, <1>3 DEF PlaceInv
<1> QED BY <1>4, <1>6, <1>7, <1>8, <1>9 DEF StreamInv

\* Text.
LEMMA TextKeeps ==
    ASSUME StreamInv, Text
    PROVE  StreamInv'
<1>1. StreamTypeOK /\ SlotInv /\ HeardInv /\ CallInv /\ PlaceInv
  BY DEF StreamInv
<1>2. /\ UNCHANGED <<client, phase, attempt, over, acc, sent>> /\ phase = "reading"
      /\ heard' = heard \o <<TextEvent>>
  BY DEF Text, Reading, Chunk, Hear
<1>3. TextEvent \in Event /\ TextEvent.id = None /\ TextEvent.input = None
  BY DEF TextEvent, Event
<1>4. /\ heard' \in Seq(Event) /\ Len(heard') = Len(heard) + 1 /\ Len(heard) \in Nat
      /\ heard'[Len(heard) + 1] = TextEvent /\ \A i \in 1 .. Len(heard) : heard'[i] = heard[i]
      /\ \A i \in 1 .. Len(heard') : i \in 1 .. Len(heard) \/ i = Len(heard) + 1
      /\ \A d : Heard(d)' <=> Heard(d) \/ d = None
  BY <1>1, <1>2, <1>3, HearOne
<1>5. StreamTypeOK'
  BY <1>1, <1>2, <1>4 DEF StreamTypeOK
<1>6. \A d \in Calls : (Heard(d)' <=> Heard(d)) /\ (Has(d)' <=> Has(d))
  BY <1>2, <1>4, HeardCalls DEF Has
<1>7. SlotInv'
  <2>1. ASSUME NEW i \in 1 .. Len(acc) PROVE SlotWell(i)'
    <3>1. SlotWell(i) /\ acc[i].id \in Calls
      BY <1>1, HeardCalls DEF SlotInv
    <3> QED BY <3>1, <1>2, <1>6 DEF SlotWell
  <2> QED BY <2>1, <1>2 DEF SlotInv
<1>8. HeardInv'
  <2>1. ASSUME NEW i \in 1 .. Len(heard'), heard'[i].id # None PROVE HeardWell(i)'
    <3>1. i \in 1 .. Len(heard) /\ heard'[i] = heard[i]
      BY <2>1, <1>3, <1>4
    <3>2. HeardWell(i) /\ heard[i].id \in Calls
      BY <2>1, <3>1, <1>1, HeardCalls DEF HeardInv
    <3>3. \A j \in 1 .. Len(heard') : heard'[j].id = heard[i].id => j = i
      BY <2>1, <3>1, <3>2, <1>3, <1>4 DEF HeardWell
    <3> QED BY <3>1, <3>2, <3>3, <1>2, <1>6 DEF HeardWell
  <2> QED BY <2>1 DEF HeardInv
<1>9. CallInv'
  BY <1>1, <1>2, <1>6 DEF CallInv
<1>10. PlaceInv'
  BY <1>1, <1>2, <1>3, <1>4 DEF PlaceInv
<1> QED BY <1>5, <1>7, <1>8, <1>9, <1>10 DEF StreamInv

\* What is told of a call that is put together.
LEMMA EventOf ==
    ASSUME StreamInv, NEW i \in 1 .. Len(acc)
    PROVE  /\ ToolUseEvent(acc[i]) \in Event /\ ToolUseEvent(acc[i]).id = acc[i].id
           /\ ToolUseEvent(acc[i]).input = IF sent[acc[i].id] \in {"whole", "done"} THEN acc[i].id ELSE None
<1>1. acc[i].id \in Calls /\ SlotWell(i)
  BY HeardCalls DEF StreamInv, SlotInv
<1>2. <<>> # <<acc[i].id>>
  OBVIOUS
<1> QED BY <1>1, <1>2 DEF SlotWell, ToolUseEvent, Event

\* A call is heard.
LEMMA HeardMore ==
    ASSUME StreamInv, NEW e \in Event, NEW c \in Calls, e.id = c, ~Heard(c), heard' = heard \o <<e>>,
           e.input = IF sent'[c] \in {"whole", "done"} THEN c ELSE None,
           sent'[c] \notin {"none", "nameless"}, client' = client,
           client = "codex" => sent'[c] # "begun" /\ (phase' = "reading" => Has(c)'),
           \A d \in Calls : d # c => sent'[d] = sent[d],
           \A d \in Calls : d # c /\ phase' = "reading" /\ client = "codex" /\ Has(d) => Has(d)',
           phase' = "reading" => phase = "reading"
    PROVE  HeardInv' /\ \A i \in 1 .. Len(heard') : heard'[i].id = None => heard'[i].input = None
<1>1. StreamTypeOK /\ PlaceInv
  BY DEF StreamInv
<1>2. /\ heard' \in Seq(Event) /\ Len(heard') = Len(heard) + 1 /\ Len(heard) \in Nat
      /\ heard'[Len(heard) + 1] = e /\ \A i \in 1 .. Len(heard) : heard'[i] = heard[i]
      /\ \A i \in 1 .. Len(heard') : i \in 1 .. Len(heard) \/ i = Len(heard) + 1
  BY <1>1, HearOne
<1>3. \A i \in 1 .. Len(heard) : heard[i].id # c
  BY DEF Heard
<1>4. c # None
  BY NoneIsNoCall
<1>5. ASSUME NEW i \in 1 .. Len(heard'), heard'[i].id # None PROVE HeardWell(i)'
  <2>1. CASE i \in 1 .. Len(heard)
    <3>1. heard'[i] = heard[i] /\ heard[i].id # None /\ heard[i].id # c
      BY <2>1, <1>2, <1>3, <1>5
    <3>2. \A j \in 1 .. Len(heard') :
             heard'[j].id = heard[i].id => j \in 1 .. Len(heard) /\ heard[j].id = heard[i].id
      BY <3>1, <1>2
    <3> QED BY <2>1, <3>1, <3>2, HeardKeeps
  <2>2. CASE i = Len(heard) + 1
    <3>1. heard'[i] = e /\ \A j \in 1 .. Len(heard') : heard'[j].id = c => j = i
      BY <2>2, <1>2, <1>3
    <3> QED BY <3>1, <1>4 DEF HeardWell
  <2> QED BY <2>1, <2>2, <1>2
<1>6. ASSUME NEW i \in 1 .. Len(heard'), heard'[i].id = None PROVE heard'[i].input = None
  BY <1>6, <1>1, <1>2, <1>4 DEF PlaceInv
<1> QED BY <1>5, <1>6 DEF HeardInv

\* Anthropic ends a block.
LEMMA AnthropicStopKeeps ==
    ASSUME StreamInv, NEW c \in Calls, AnthropicStop(c)
    PROVE  StreamInv'
<1>1. StreamTypeOK /\ SlotInv /\ HeardInv /\ CallInv /\ PlaceInv
  BY DEF StreamInv
<1> DEFINE e == ToolUseEvent(acc[1])
<1>2. /\ UNCHANGED <<client, phase, attempt, over>> /\ phase = "reading" /\ client = "anthropic"
      /\ Has(c) /\ heard' = heard \o <<e>> /\ acc' = <<>>
      /\ sent' = [sent EXCEPT ![c] = IF @ = "whole" THEN "done" ELSE @]
  BY DEF AnthropicStop, Reading, Chunk, Hear
<1>3. 1 \in 1 .. Len(acc) /\ acc[1].id = c
  <2>1. PICK i \in 1 .. Len(acc) : acc[i].id = c
    BY <1>1, <1>2, StreamParts
  <2>2. Len(acc) <= 1 /\ Len(acc) \in Nat
    BY <1>1, <1>2, StreamParts DEF PlaceInv
  <2> QED BY <2>1, <2>2
<1>4. e \in Event /\ e.id = c /\ e.input = IF sent[c] \in {"whole", "done"} THEN c ELSE None
  BY <1>3, EventOf
<1> HIDE DEF e
<1>5. ~Heard(c) /\ sent[c] \in {"begun", "whole"}
  <2>1. SlotWell(1)
    BY <1>1, <1>3 DEF SlotInv
  <2>2. sent[c] \in {"none", "nameless", "begun", "whole", "done"} /\ sent[c] # "nameless"
    BY <1>1, <1>2, StreamParts DEF CallInv
  <2> QED BY <2>1, <2>2, <1>2, <1>3 DEF SlotWell
<1>6. /\ sent' \in [Calls -> {"none", "nameless", "begun", "whole", "done"}]
      /\ sent'[c] = IF sent[c] = "whole" THEN "done" ELSE "begun"
      /\ \A d \in Calls : d # c => sent'[d] = sent[d]
  BY <1>1, <1>2, <1>5, StreamParts
<1>7. /\ heard' \in Seq(Event) /\ \A d : Heard(d)' <=> Heard(d) \/ d = c
  BY <1>1, <1>2, <1>4, HearOne
<1>8. Len(<<>>) = 0 /\ 1 .. 0 = {} /\ <<>> \in Seq(Slot)
  OBVIOUS
<1>9. StreamTypeOK'
  BY <1>1, <1>2, <1>6, <1>7, <1>8 DEF StreamTypeOK
<1>10. SlotInv'
  BY <1>2, <1>8 DEF SlotInv
<1>11. HeardInv' /\ \A i \in 1 .. Len(heard') : heard'[i].id = None => heard'[i].input = None
  BY <1>2, <1>4, <1>5, <1>6, HeardMore
<1>12. CallInv'
  BY <1>1, <1>2, <1>6, <1>7 DEF CallInv
<1>13. PlaceInv'
  BY <1>1, <1>2, <1>8, <1>11 DEF PlaceInv
<1> QED BY <1>9, <1>10, <1>11, <1>12, <1>13 DEF StreamInv

\* OpenAI's calls are emitted one by one; nothing is told of an incomplete one.
LEMMA EmitKeeps ==
    ASSUME StreamInv, EmitAccumulated
    PROVE  StreamInv'
<1>1. StreamTypeOK /\ SlotInv /\ HeardInv /\ CallInv /\ PlaceInv
  BY DEF StreamInv
<1> DEFINE e == ToolUseEvent(acc[1])
<1>2. acc \in Seq(Slot) /\ acc # <<>>
  BY <1>1 DEF EmitAccumulated, StreamTypeOK
<1>3. /\ Tail(acc) \in Seq(Slot) /\ Len(Tail(acc)) = Len(acc) - 1 /\ Len(acc) \in Nat /\ Len(acc) >= 1
      /\ Head(acc) = acc[1] /\ \A i \in 1 .. Len(Tail(acc)) : Tail(acc)[i] = acc[i+1]
  BY <1>2, OneLess
<1>4. /\ UNCHANGED <<client, phase, attempt, sent, over>> /\ client = "openai"
      /\ phase \in {"finishing", "ending"}
      /\ heard' = heard \o (IF acc[1].named THEN <<e>> ELSE <<>>)
      /\ Len(acc') = Len(acc) - 1 /\ acc' \in Seq(Slot) /\ \A i \in 1 .. Len(acc') : acc'[i] = acc[i+1]
  BY <1>1, <1>3 DEF EmitAccumulated, PlaceInv, Hear
<1>5. 1 \in 1 .. Len(acc)
  BY <1>3
<1>6. PICK c \in Calls : c = acc[1].id
  BY <1>5, HeardCalls
<1>7. e \in Event /\ e.id = c /\ e.input = IF sent[c] \in {"whole", "done"} THEN c ELSE None
  BY <1>5, <1>6, EventOf
<1> HIDE DEF e
<1>8. /\ ~Heard(c) /\ sent[c] \notin {"none", "done"} /\ (acc[1].named <=> sent[c] # "nameless")
      /\ \A j \in 1 .. Len(acc) : acc[j].id = c => j = 1
  <2>1. SlotWell(1)
    BY <1>1, <1>5 DEF SlotInv
  <2> QED BY <2>1, <1>4, <1>6 DEF SlotWell
<1>9. \A i \in 1 .. Len(acc') : i + 1 \in 1 .. Len(acc) /\ acc'[i] = acc[i+1] /\ acc[i+1].id # c
                                /\ acc[i+1].id \in Calls
  BY <1>3, <1>4, <1>8, HeardCalls
<1>10. \A d \in Calls : Has(d) => Has(d)' \/ d = c
  <2>1. ASSUME NEW d \in Calls, Has(d), d # c PROVE Has(d)'
    <3>1. PICK i \in 1 .. Len(acc) : acc[i].id = d
      BY <2>1, <1>1, StreamParts
    <3>2. i # 1
      BY <3>1, <2>1, <1>6
    <3>3. i - 1 \in 1 .. Len(acc') /\ (i - 1) + 1 = i
      BY <3>1, <3>2, <1>3, <1>4
    <3>4. acc'[i-1].id = d
      BY <3>1, <3>3, <1>4
    <3>5. DOMAIN acc' = 1 .. Len(acc')
      BY <1>4
    <3> QED BY <3>3, <3>4, <3>5 DEF Has
  <2> QED BY <2>1
<1>11. /\ heard' \in Seq(Event)
       /\ \A d : Heard(d)' <=> Heard(d) \/ (acc[1].named /\ d = c)
       /\ HeardInv' /\ \A i \in 1 .. Len(heard') : heard'[i].id = None => heard'[i].input = None
  <2>1. CASE acc[1].named
    <3>1. heard' = heard \o <<e>>
      BY <2>1, <1>4
    <3>2. heard' \in Seq(Event) /\ \A d : Heard(d)' <=> Heard(d) \/ d = c
      BY <3>1, <1>1, <1>7, HearOne
    <3>3. HeardInv' /\ \A i \in 1 .. Len(heard') : heard'[i].id = None => heard'[i].input = None
      <4>1. sent' = sent /\ client' = client /\ phase' # "reading" /\ client # "codex"
        BY <1>4
      <4>2. sent'[c] \notin {"none", "nameless"}
        BY <2>1, <1>8, <4>1
      <4> QED BY <3>1, <4>1, <4>2, <1>7, <1>8, HeardMore
    <3> QED BY <2>1, <3>2, <3>3
  <2>2. CASE ~acc[1].named
    <3>1. heard' = heard
      BY <2>2, <1>1, <1>4, StreamParts
    <3>2. \A d : Heard(d)' <=> Heard(d)
      BY <3>1 DEF Heard
    <3>3. HeardInv'
      BY <3>1, <1>1, <1>4 DEF HeardInv, HeardWell
    <3> QED BY <2>2, <3>1, <3>2, <3>3, <1>1, StreamParts DEF PlaceInv
  <2> QED BY <2>1, <2>2
<1>12. StreamTypeOK'
  BY <1>1, <1>4, <1>11 DEF StreamTypeOK
<1>13. SlotInv'
  <2>1. ASSUME NEW i \in 1 .. Len(acc') PROVE SlotWell(i)'
    <3>1. i + 1 \in 1 .. Len(acc) /\ acc'[i] = acc[i+1] /\ acc[i+1].id # c
      BY <1>9
    <3>2. SlotWell(i+1)
      BY <3>1, <1>1 DEF SlotInv
    <3>3. \A j \in 1 .. Len(acc') : acc'[j].id = acc'[i].id => j = i
      BY <3>1, <3>2, <1>9 DEF SlotWell
    <3> QED BY <3>1, <3>2, <3>3, <1>4, <1>11 DEF SlotWell
  <2> QED BY <2>1 DEF SlotInv
<1>14. CallInv'
  BY <1>1, <1>4, <1>8, <1>10, <1>11 DEF CallInv
<1>15. PlaceInv'
  BY <1>1, <1>4, <1>11 DEF PlaceInv
<1> QED BY <1>11, <1>12, <1>13, <1>14, <1>15 DEF StreamInv

\* An item of Codex repeats the arguments of a call, and may tell its name.
LEMMA CompletedKeeps ==
    ASSUME StreamInv, NEW c \in Calls, NEW named \in BOOLEAN, NEW to \in {"whole", "done"},
           Reading("codex"), sent[c] # "done", sent' = [sent EXCEPT ![c] = to],
           to = "done" => named, Completed(c, named), Chunk
    PROVE  StreamInv'
<1>1. StreamTypeOK /\ SlotInv /\ HeardInv /\ CallInv /\ PlaceInv
  BY DEF StreamInv
<1>2. UNCHANGED <<client, phase, attempt, over>> /\ phase = "reading" /\ client = "codex"
  BY DEF Reading, Chunk
<1> DEFINE slots == IF Has(c) THEN acc ELSE Append(acc, NewSlot(c, FALSE))
           k == CHOOSE i \in DOMAIN slots : slots[i].id = c
           old == slots[k]
           isNamed == old.named \/ named
           s == [old EXCEPT !.args = <<c>>, !.named = @ \/ named]
           new == [s EXCEPT !.emitted = s.named]
           evs == IF s.named /\ ~s.emitted THEN <<ToolUseEvent(s)>> ELSE <<>>
<1>3. acc' = [slots EXCEPT ![k] = new] /\ heard' = heard \o evs
  BY DEF Completed, Hear
<1>4. /\ slots \in Seq(Slot) /\ Len(slots) \in Nat /\ DOMAIN slots = 1 .. Len(slots)
      /\ Len(slots) >= Len(acc) /\ Len(acc) \in Nat
      /\ \A i \in 1 .. Len(acc) : slots[i] = acc[i]
      /\ \A i \in 1 .. Len(slots) : i \notin 1 .. Len(acc) => ~Has(c) /\ slots[i] = NewSlot(c, FALSE)
      /\ \E i \in 1 .. Len(slots) : slots[i].id = c
      /\ NewSlot(c, FALSE).id = c /\ ~NewSlot(c, FALSE).emitted
      /\ \A i, j \in 1 .. Len(slots) : slots[i].id = c /\ slots[j].id = c => i = j
  <2>1. /\ acc \in Seq(Slot) /\ Len(acc) \in Nat /\ DOMAIN acc = 1 .. Len(acc)
        /\ Has(c) <=> \E i \in 1 .. Len(acc) : acc[i].id = c
        /\ NewSlot(c, FALSE) \in Slot /\ NewSlot(c, FALSE).id = c /\ ~NewSlot(c, FALSE).emitted
    <3>1. <<>> \in Seq(Calls)
      OBVIOUS
    <3> QED BY <3>1, <1>1, StreamParts DEF NewSlot, Slot
  <2>2. CASE Has(c)
    <3>1. slots = acc
      BY <2>2
    <3>2. \A i, j \in 1 .. Len(acc) : acc[i].id = c /\ acc[j].id = c => i = j
      BY <1>1 DEF SlotInv, SlotWell
    <3>3. PICK i \in 1 .. Len(acc) : acc[i].id = c
      BY <2>1, <2>2
    <3> HIDE DEF slots
    <3>4. \A j \in 1 .. Len(slots) : j \in 1 .. Len(acc)
      BY <3>1
    <3>5. \E j \in 1 .. Len(slots) : slots[j].id = c
      BY <3>1, <3>3
    <3>6. slots \in Seq(Slot) /\ Len(slots) \in Nat /\ DOMAIN slots = 1 .. Len(slots)
          /\ Len(slots) >= Len(acc) /\ Len(acc) \in Nat
      BY <3>1, <2>1
    <3>7. \A j \in 1 .. Len(acc) : slots[j] = acc[j]
      BY <3>1
    <3>8. \A h, j \in 1 .. Len(slots) : slots[h].id = c /\ slots[j].id = c => h = j
      BY <3>1, <3>2
    <3> QED BY <3>4, <3>5, <3>6, <3>7, <3>8, <2>1
  <2>3. CASE ~Has(c)
    <3> DEFINE n == NewSlot(c, FALSE)
    <3>1. slots = Append(acc, n)
      BY <2>3
    <3> HIDE DEF slots, n
    <3>2. n \in Slot /\ n.id = c /\ ~n.emitted
      BY <2>1 DEF n
    <3>3. /\ slots \in Seq(Slot) /\ Len(slots) = Len(acc) + 1 /\ slots[Len(acc) + 1] = n
          /\ \A i \in 1 .. Len(acc) : slots[i] = acc[i]
          /\ \A i \in 1 .. Len(slots) : i \in 1 .. Len(acc) \/ i = Len(acc) + 1
      BY <2>1, <3>1, <3>2, OneMore
    <3>4. \A i \in 1 .. Len(acc) : acc[i].id # c
      BY <2>1, <2>3
    <3>5. Len(acc) + 1 \in 1 .. Len(slots) /\ DOMAIN slots = 1 .. Len(slots)
      BY <2>1, <3>3
    <3>6. \E i \in 1 .. Len(slots) : slots[i].id = c
      BY <3>2, <3>3, <3>5
    <3>7. \A i, j \in 1 .. Len(slots) : slots[i].id = c /\ slots[j].id = c => i = j
      BY <3>3, <3>4
    <3>8. \A i \in 1 .. Len(slots) : i \notin 1 .. Len(acc) => slots[i] = n
      BY <3>3
    <3>9. Len(slots) \in Nat /\ Len(slots) >= Len(acc)
      BY <2>1, <3>3
    <3> QED BY <2>1, <2>3, <3>3, <3>5, <3>6, <3>7, <3>8, <3>9 DEF n
  <2> QED BY <2>2, <2>3
<1> HIDE DEF slots
<1>5. k \in 1 .. Len(slots) /\ slots[k].id = c /\ old \in Slot
  BY <1>4
<1> HIDE DEF k
<1>6. old.id = c /\ old.named \in BOOLEAN /\ old.emitted \in BOOLEAN
  BY <1>5 DEF Slot
<1> HIDE DEF old
<1>7. s \in Slot /\ s.id = c /\ s.args = <<c>> /\ s.named = isNamed /\ s.emitted = old.emitted
  <2>1. <<c>> \in Seq(Calls)
    OBVIOUS
  <2>2. s \in Slot
    BY <2>1, <1>5 DEF Slot
  <2>3. s.id = c /\ s.args = <<c>> /\ s.named = isNamed /\ s.emitted = old.emitted
    BY <1>5, <1>6 DEF Slot
  <2> QED BY <2>2, <2>3
<1> HIDE DEF s
<1>8. new \in Slot /\ new.id = c /\ new.args = <<c>> /\ new.named = isNamed /\ new.emitted = isNamed
  BY <1>7 DEF Slot
<1>9. evs = IF isNamed /\ ~old.emitted THEN <<[id |-> c, input |-> c]>> ELSE <<>>
  BY <1>7 DEF ToolUseEvent
<1>10. isNamed \in BOOLEAN /\ (to = "done" => isNamed)
  BY <1>6
<1> HIDE DEF new, evs, isNamed
<1>11. new \in Slot /\ new.id = c /\ new.args = <<c>> /\ new.named = isNamed /\ new.emitted = isNamed
  BY <1>8
<1>12. /\ acc' \in Seq(Slot) /\ Len(acc') = Len(slots) /\ DOMAIN acc' = 1 .. Len(slots)
       /\ \A i \in 1 .. Len(slots) : acc'[i] = IF i = k THEN new ELSE slots[i]
  BY <1>3, <1>4, <1>5, <1>11
<1>13. /\ sent' \in [Calls -> {"none", "nameless", "begun", "whole", "done"}]
       /\ sent'[c] = to /\ \A d \in Calls : d # c => sent'[d] = sent[d]
  BY <1>1, StreamParts
<1>14. (old.emitted <=> Heard(c)) /\ (old.emitted => isNamed)
  <2>1. CASE k \in 1 .. Len(acc)
    <3>1. SlotWell(k) /\ acc[k] = old
      BY <2>1, <1>1, <1>4 DEF SlotInv, old
    <3> QED BY <3>1, <1>2, <1>6 DEF SlotWell, isNamed
  <2>2. CASE k \notin 1 .. Len(acc)
    <3>1. ~Has(c) /\ ~old.emitted
      BY <2>2, <1>4, <1>5 DEF old
    <3>2. ~Heard(c)
      <4>1. SUFFICES ASSUME NEW i \in 1 .. Len(heard), heard[i].id = c PROVE FALSE
        BY DEF Heard
      <4>2. HeardWell(i)
        BY <4>1, <1>1, HeardCalls DEF HeardInv
      <4> QED BY <4>1, <4>2, <3>1, <1>2 DEF HeardWell
    <3> QED BY <3>1, <3>2
  <2> QED BY <2>1, <2>2
<1>15. \A d \in Calls : (Has(d) => Has(d)') /\ Has(c)'
  <2>1. Has(c)'
    BY <1>5, <1>11, <1>12 DEF Has
  <2>2. ASSUME NEW d \in Calls, Has(d), d # c PROVE Has(d)'
    <3>1. PICK i \in 1 .. Len(acc) : acc[i].id = d
      BY <2>2, <1>1, StreamParts
    <3>2. i \in 1 .. Len(slots) /\ slots[i].id = d /\ i # k
      BY <3>1, <2>2, <1>4, <1>5
    <3> QED BY <3>2, <1>12, <3>1 DEF Has
  <2> QED BY <2>1, <2>2
<1>16. /\ heard' \in Seq(Event)
       /\ \A d : Heard(d)' <=> Heard(d) \/ (isNamed /\ d = c)
       /\ HeardInv' /\ \A i \in 1 .. Len(heard') : heard'[i].id = None => heard'[i].input = None
  <2>1. CASE isNamed /\ ~old.emitted
    <3> DEFINE e == [id |-> c, input |-> c]
    <3>1. heard' = heard \o <<e>>
      BY <2>1, <1>3, <1>9
    <3>2. e \in Event /\ e.id = c /\ e.input = c
      BY DEF Event
    <3> HIDE DEF e
    <3>3. heard' \in Seq(Event) /\ \A d : Heard(d)' <=> Heard(d) \/ d = c
      BY <3>1, <3>2, <1>1, HearOne
    <3>4. HeardInv' /\ \A i \in 1 .. Len(heard') : heard'[i].id = None => heard'[i].input = None
      BY <2>1, <3>1, <3>2, <1>2, <1>13, <1>14, <1>15, HeardMore
    <3> QED BY <2>1, <3>3, <3>4
  <2>2. CASE ~(isNamed /\ ~old.emitted)
    <3>1. heard' = heard
      BY <2>2, <1>1, <1>3, <1>9, StreamParts
    <3>2. isNamed <=> Heard(c)
      BY <2>2, <1>10, <1>14
    <3>3. \A d : Heard(d)' <=> Heard(d) \/ (isNamed /\ d = c)
      BY <3>1, <3>2 DEF Heard
    <3>4. ASSUME NEW i \in 1 .. Len(heard), heard[i].id # None PROVE HeardWell(i)'
      <4>1. HeardWell(i) /\ heard[i].id \in Calls
        BY <3>4, <1>1, HeardCalls DEF HeardInv
      <4>2. CASE heard[i].id = c
        <5>1. sent[c] \in {"whole", "done"}
          BY <4>1, <4>2, <1>1, <1>2, StreamParts DEF HeardWell
        <5> QED BY <4>1, <4>2, <5>1, <3>1, <1>2, <1>13, <1>15 DEF HeardWell
      <4>3. CASE heard[i].id # c
        BY <4>1, <4>3, <3>1, <1>2, <1>13, <1>15 DEF HeardWell
      <4> QED BY <4>2, <4>3
    <3> QED BY <3>1, <3>3, <3>4, <1>1, StreamParts DEF HeardInv, PlaceInv
  <2> QED BY <2>1, <2>2
<1>17. StreamTypeOK'
  BY <1>1, <1>2, <1>12, <1>13, <1>16 DEF StreamTypeOK
<1>18. SlotInv'
  <2>1. ASSUME NEW i \in 1 .. Len(slots) PROVE SlotWell(i)'
    <3>1. CASE i = k
      <4>1. acc'[i] = new
        BY <3>1, <1>12
      <4>2. \A j \in 1 .. Len(slots) : acc'[j].id = c => j = i
        BY <3>1, <1>4, <1>5, <1>12
      <4> QED BY <4>1, <4>2, <1>2, <1>10, <1>11, <1>12, <1>13, <1>14, <1>16 DEF SlotWell
    <3>2. CASE i # k
      <4>1. i \in 1 .. Len(acc) /\ acc'[i] = acc[i] /\ slots[i] = acc[i] /\ acc[i].id # c
        BY <3>2, <1>4, <1>5, <1>12
      <4>2. SlotWell(i) /\ acc[i].id \in Calls
        BY <4>1, <1>1, HeardCalls DEF SlotInv
      <4>3. \A j \in 1 .. Len(slots) : acc'[j].id = acc[i].id => j = i
        <5>1. ASSUME NEW j \in 1 .. Len(slots), acc'[j].id = acc[i].id PROVE j = i
          <6>1. j # k
            BY <5>1, <4>1, <1>11, <1>12
          <6>2. j \in 1 .. Len(acc) /\ acc'[j] = acc[j]
            BY <6>1, <1>4, <1>5, <1>12
          <6> QED BY <5>1, <6>2, <4>2 DEF SlotWell
        <5> QED BY <5>1
      <4> QED BY <4>1, <4>2, <4>3, <1>2, <1>12, <1>13, <1>16 DEF SlotWell
    <3> QED BY <3>1, <3>2
  <2> QED BY <2>1, <1>12 DEF SlotInv
<1>19. CallInv'
  BY <1>1, <1>2, <1>10, <1>13, <1>16 DEF CallInv
<1>20. PlaceInv'
  BY <1>1, <1>2, <1>16 DEF PlaceInv
<1> QED BY <1>16, <1>17, <1>18, <1>19, <1>20 DEF StreamInv

\* Whatever the provider does.
LEMMA ProviderKeeps == StreamInv /\ Provider => StreamInv'
<1> SUFFICES ASSUME StreamInv, Provider PROVE StreamInv'
  OBVIOUS
<1>1. CASE Break \/ OpenAIFinish \/ Emitted
  BY <1>1, QuietKeeps
<1>2. CASE Wake
  <2>1. /\ acc' = <<>> /\ sent' = [c \in Calls |-> "none"] /\ over' = FALSE /\ phase' = "reading"
        /\ heard' = <<>> /\ client' \in Clients
    BY <1>2 DEF Wake, StreamInv, PlaceInv, StreamTypeOK
  <2>2. attempt' \in 0 .. MaxAttempts
    BY <1>2, AttemptsAssumption DEF Wake, StreamInv, PlaceInv, StreamTypeOK
  <2> QED BY <2>1, <2>2, BlankKeeps
<1>3. CASE Text
  BY <1>3, TextKeeps
<1>4. CASE EmitAccumulated
  BY <1>4, EmitKeeps
<1>5. CASE End
  BY <1>5, EndKeeps
<1>6. ASSUME NEW c \in Calls, AnthropicStart(c) PROVE StreamInv'
  <2>1. acc = <<>> /\ acc' = <<NewSlot(c, TRUE)>>
    BY <1>6 DEF AnthropicStart
  <2>2. acc' = Append(acc, NewSlot(c, TRUE))
    BY <2>1
  <2>3. /\ sent[c] = "none" /\ sent' = [sent EXCEPT ![c] = "begun"] /\ Chunk /\ Silent
        /\ client = "anthropic" /\ phase = "reading"
    BY <1>6 DEF AnthropicStart, Goes, Reading
  <2> QED BY <2>1, <2>2, <2>3, StartKeeps
<1>7. ASSUME NEW c \in Calls, OpenAIStart(c) PROVE StreamInv'
  <2>1. sent[c] = "none" /\ Chunk /\ Silent /\ client = "openai" /\ phase = "reading"
    BY <1>7 DEF OpenAIStart, Goes, Reading
  <2>2. CASE sent' = [sent EXCEPT ![c] = "begun"] /\ acc' = Append(acc, NewSlot(c, TRUE))
    BY <2>1, <2>2, StartKeeps
  <2>3. CASE sent' = [sent EXCEPT ![c] = "nameless"] /\ acc' = Append(acc, NewSlot(c, FALSE))
    BY <2>1, <2>3, StartKeeps
  <2> QED BY <1>7, <2>2, <2>3 DEF OpenAIStart, Goes
<1>8. ASSUME NEW c \in Calls, CodexAdded(c) PROVE StreamInv'
  <2>1. /\ sent[c] = "none" /\ sent' = [sent EXCEPT ![c] = "begun"] /\ Chunk /\ Silent
        /\ client = "codex" /\ phase = "reading"
    BY <1>8 DEF CodexAdded, Goes, Reading
  <2>2. PICK named \in BOOLEAN : acc' = Append(acc, NewSlot(c, named))
    BY <1>8 DEF CodexAdded
  <2> QED BY <2>1, <2>2, StartKeeps
<1>9. ASSUME NEW c \in Calls, CodexArgumentsDone(c) PROVE StreamInv'
  <2>1. /\ Reading("codex") /\ sent[c] # "done" /\ sent' = [sent EXCEPT ![c] = "whole"]
        /\ Completed(c, FALSE) /\ Chunk
    BY <1>9 DEF CodexArgumentsDone, Goes
  <2> QED BY <2>1, CompletedKeeps
<1>10. ASSUME NEW c \in Calls, CodexItemDone(c) PROVE StreamInv'
  <2>1. /\ Reading("codex") /\ sent[c] # "done" /\ sent' = [sent EXCEPT ![c] = "done"]
        /\ Completed(c, TRUE) /\ Chunk
    BY <1>10 DEF CodexItemDone, Goes
  <2> QED BY <2>1, CompletedKeeps
<1> QED BY <1>1, <1>2, <1>3, <1>4, <1>5, <1>6, <1>7, <1>8, <1>9, <1>10, ArgumentsKeeps, AnthropicStopKeeps DEF Provider

\* At most one event is yielded at a time.
LEMMA ProviderAppends ==
    ASSUME StreamInv, Provider
    PROVE  heard' = heard \/ \E e \in Event : heard' = heard \o <<e>>
<1>1. StreamTypeOK /\ heard \in Seq(Event) /\ acc \in Seq(Slot)
      /\ \A i \in 1 .. Len(acc) : ToolUseEvent(acc[i]) \in Event
  BY StreamParts, EventOf DEF StreamInv
<1>2. heard \o <<>> = heard
  BY <1>1
<1>3. CASE Break \/ Wake \/ OpenAIFinish \/ Emitted \/ End
  BY <1>3 DEF Break, Wake, OpenAIFinish, Emitted, End, Silent
<1>4. CASE Text
  <2>1. TextEvent \in Event
    BY DEF TextEvent, Event
  <2> QED BY <1>4, <2>1 DEF Text, Hear
<1>5. CASE EmitAccumulated
  <2>1. acc # <<>> /\ (heard' = heard \o <<>> \/ heard' = heard \o <<ToolUseEvent(Head(acc))>>)
    BY <1>5 DEF EmitAccumulated, Hear
  <2>2. Head(acc) = acc[1] /\ 1 \in 1 .. Len(acc)
    BY <1>1, <2>1, OneLess
  <2> QED BY <1>1, <1>2, <2>1, <2>2
<1>6. ASSUME NEW c \in Calls, Arguments(c) \/ AnthropicStart(c) \/ OpenAIStart(c) \/ CodexAdded(c)
      PROVE  heard' = heard
  BY <1>6 DEF Arguments, AnthropicStart, OpenAIStart, CodexAdded, Silent
<1>7. ASSUME NEW c \in Calls, AnthropicStop(c) PROVE \E e \in Event : heard' = heard \o <<e>>
  <2>1. Has(c) /\ heard' = heard \o <<ToolUseEvent(acc[1])>>
    BY <1>7 DEF AnthropicStop, Hear
  <2>2. 1 \in 1 .. Len(acc)
    <3>1. PICK i \in 1 .. Len(acc) : acc[i].id = c
      BY <1>1, <2>1, StreamParts
    <3> QED BY <3>1, <1>1, StreamParts
  <2> QED BY <1>1, <2>1, <2>2
<1>8. ASSUME NEW c \in Calls, NEW named, Completed(c, named)
      PROVE  heard' = heard \/ \E e \in Event : heard' = heard \o <<e>>
  <2> DEFINE slots == IF Has(c) THEN acc ELSE Append(acc, NewSlot(c, FALSE))
             k == CHOOSE i \in DOMAIN slots : slots[i].id = c
             s == [slots[k] EXCEPT !.args = <<c>>, !.named = @ \/ named]
  <2>1. heard' = heard \o <<>> \/ heard' = heard \o <<ToolUseEvent(s)>>
    BY <1>8 DEF Completed, Hear
  <2>2. slots \in Seq(Slot) /\ \E i \in DOMAIN slots : slots[i].id = c
    <3>1. CASE Has(c)
      BY <3>1, <1>1 DEF Has
    <3>2. CASE ~Has(c)
      <4> DEFINE new == NewSlot(c, FALSE)
      <4>1. new \in Slot /\ new.id = c
        BY DEF NewSlot, Slot
      <4> HIDE DEF new
      <4>2. Append(acc, new) \in Seq(Slot) /\ Len(acc) + 1 \in DOMAIN Append(acc, new)
            /\ Append(acc, new)[Len(acc) + 1] = new
        BY <4>1, <1>1
      <4> QED BY <4>1, <4>2, <3>2 DEF new
    <3> QED BY <3>1, <3>2
  <2> HIDE DEF slots
  <2>3. k \in DOMAIN slots
    BY <2>2
  <2> HIDE DEF k
  <2>4. slots[k] \in Slot
    BY <2>2, <2>3
  <2>5. s.id \in Calls
    BY <2>4 DEF Slot
  <2> HIDE DEF s
  <2>6. ToolUseEvent(s) \in Event
    BY <2>5 DEF ToolUseEvent, Event
  <2> QED BY <1>2, <2>1, <2>6
<1>9. ASSUME NEW c \in Calls, CodexArgumentsDone(c) \/ CodexItemDone(c)
      PROVE  heard' = heard \/ \E e \in Event : heard' = heard \o <<e>>
  BY <1>8, <1>9 DEF CodexArgumentsDone, CodexItemDone
<1> QED BY <1>3, <1>4, <1>5, <1>6, <1>7, <1>9 DEF Provider

--------------------------------------------------------------------------------
(* What the browser posts                                                       *)

\* The elements of a sequence.
LEMMA Elements ==
    ASSUME NEW T, NEW s \in Seq(T)
    PROVE  /\ \A x : x \in ToSet(s) <=> \E i \in 1 .. Len(s) : s[i] = x
           /\ ToSet(s) \subseteq T /\ Len(s) \in Nat /\ DOMAIN s = 1 .. Len(s)
           /\ \A i \in 1 .. Len(s) : s[i] \in T /\ s[i] \in ToSet(s)
<1>1. Len(s) \in Nat /\ DOMAIN s = 1 .. Len(s) /\ \A i \in 1 .. Len(s) : s[i] \in T
  OBVIOUS
<1>2. ToSet(s) = {s[i] : i \in 1 .. Len(s)}
  BY <1>1 DEF ToSet
<1> QED BY <1>1, <1>2

LEMMA OneElement == \A x : ToSet(<<x>>) = {x}
<1> SUFFICES ASSUME NEW x PROVE ToSet(<<x>>) = {x}
  OBVIOUS
<1>1. DOMAIN <<x>> = {1} /\ <<x>>[1] = x
  OBVIOUS
<1> QED BY <1>1 DEF ToSet

LEMMA MessageParts ==
    /\ \A m \in Message : m.ids \in Seq(Id) /\ m.role \in {"user", "assistant", "tool"} /\ m.text \in BOOLEAN
    /\ \A m \in ViewMessage : m.runs \in Seq(Run) /\ m.role \in {"user", "assistant"} /\ m.text \in BOOLEAN
    /\ \A r \in Run : r.id \in Id /\ r.open \in BOOLEAN
BY DEF Message, ViewMessage, Run

\* A result is a message of its own.
LEMMA ResultMessage ==
    ASSUME NEW id \in Id
    PROVE  Result(id) \in Message /\ Result(id).role = "tool" /\ ToSet(Result(id).ids) = {id}
<1>1. <<id>> \in Seq(Id)
  OBVIOUS
<1>2. Result(id) = [role |-> "tool", text |-> TRUE, ids |-> <<id>>]
  BY DEF Result, Says
<1> QED BY <1>1, <1>2, OneElement DEF Message

LEMMA IdsType ==
    ASSUME NEW runs \in Seq(Run)
    PROVE  /\ Ids(runs) \in Seq(Id) /\ Len(Ids(runs)) = Len(runs) /\ DOMAIN runs = 1 .. Len(runs)
           /\ \A i \in 1 .. Len(runs) : Ids(runs)[i] = runs[i].id
           /\ \A x \in ToSet(Ids(runs)) : \E i \in 1 .. Len(runs) : runs[i].id = x
<1>1. Len(runs) \in Nat /\ DOMAIN runs = 1 .. Len(runs) /\ \A i \in 1 .. Len(runs) : runs[i] \in Run
  OBVIOUS
<1>2. Ids(runs) \in [1 .. Len(runs) -> Id] /\ \A i \in 1 .. Len(runs) : Ids(runs)[i] = runs[i].id
  BY <1>1, MessageParts DEF Ids
<1>3. Ids(runs) \in Seq(Id) /\ Len(Ids(runs)) = Len(runs)
  BY <1>1, <1>2, SeqDef
<1>4. \A x \in ToSet(Ids(runs)) : \E i \in 1 .. Len(runs) : runs[i].id = x
  <2> DEFINE q == Ids(runs)
  <2> HIDE DEF q
  <2>1. q \in Seq(Id) /\ Len(q) = Len(runs) /\ \A i \in 1 .. Len(runs) : q[i] = runs[i].id
    BY <1>2, <1>3 DEF q
  <2>2. \A x \in ToSet(q) : \E i \in 1 .. Len(q) : q[i] = x
    BY <2>1, Elements
  <2>3. \A x \in ToSet(q) : \E i \in 1 .. Len(runs) : runs[i].id = x
    BY <2>1, <2>2
  <2> QED BY <2>3 DEF q
<1> QED BY <1>1, <1>2, <1>3, <1>4

\* One result for every run that has one.
LEMMA ResultsOf ==
    ASSUME NEW runs \in Seq(Run)
    PROVE  /\ Results(runs) \in Seq(Message)
           /\ \A k \in 1 .. Len(Results(runs)) : Results(runs)[k].role = "tool"
           /\ \A i \in 1 .. Len(runs) : ~runs[i].open =>
                 \E k \in 1 .. Len(Results(runs)) : runs[i].id \in ToSet(Results(runs)[k].ids)
<1> DEFINE R == [i \in DOMAIN runs |-> IF runs[i].open THEN <<>> ELSE <<Result(runs[i].id)>>]
           F == FlattenSeq(R)
<1>1. Len(runs) \in Nat /\ DOMAIN runs = 1 .. Len(runs) /\ \A i \in 1 .. Len(runs) : runs[i] \in Run
  OBVIOUS
<1>2. ASSUME NEW i \in 1 .. Len(runs)
      PROVE  /\ R[i] \in Seq(Message)
             /\ \A j \in 1 .. Len(R[i]) : R[i][j].role = "tool"
             /\ ~runs[i].open => 1 \in 1 .. Len(R[i]) /\ ToSet(R[i][1].ids) = {runs[i].id}
  <2>1. CASE runs[i].open
    <3>1. R[i] = <<>> /\ Len(<<>>) = 0 /\ 1 .. 0 = {}
      BY <1>1, <2>1
    <3> QED BY <2>1, <3>1
  <2>2. CASE ~runs[i].open
    <3> DEFINE m == Result(runs[i].id)
    <3>1. R[i] = <<m>>
      BY <1>1, <2>2
    <3>2. m \in Message /\ m.role = "tool" /\ ToSet(m.ids) = {runs[i].id}
      BY <1>1, MessageParts, ResultMessage
    <3> HIDE DEF m, R
    <3>3. <<m>> \in Seq(Message) /\ Len(<<m>>) = 1 /\ 1 .. 1 = {1} /\ <<m>>[1] = m
      BY <3>2
    <3> QED BY <2>2, <3>1, <3>2, <3>3
  <2> QED BY <2>1, <2>2
<1>3. R \in Seq(Seq(Message)) /\ Len(R) = Len(runs)
  <2>1. R = [i \in 1 .. Len(runs) |-> R[i]]
    BY <1>1
  <2> HIDE DEF R
  <2>2. R \in [1 .. Len(runs) -> Seq(Message)]
    BY <1>2, <2>1
  <2> QED BY <1>1, <2>2, SeqDef
<1> HIDE DEF R
<1>4. /\ F \in Seq(Message)
      /\ \A i \in 1 .. Len(R) : \A j \in 1 .. Len(R[i]) : \E k \in 1 .. Len(F) : F[k] = R[i][j]
      /\ \A k \in 1 .. Len(F) : \E i \in 1 .. Len(R) : \E j \in 1 .. Len(R[i]) : F[k] = R[i][j]
  BY <1>3, FlattenOffsets, FlattenElements
<1> HIDE DEF F
<1>5. ASSUME NEW k \in 1 .. Len(F) PROVE F[k].role = "tool"
  <2>1. PICK i \in 1 .. Len(R) : \E j \in 1 .. Len(R[i]) : F[k] = R[i][j]
    BY <1>4
  <2> QED BY <2>1, <1>2, <1>3
<1>6. ASSUME NEW i \in 1 .. Len(runs), ~runs[i].open
      PROVE  \E k \in 1 .. Len(F) : runs[i].id \in ToSet(F[k].ids)
  <2>1. i \in 1 .. Len(R) /\ 1 \in 1 .. Len(R[i]) /\ ToSet(R[i][1].ids) = {runs[i].id}
    BY <1>2, <1>3, <1>6
  <2>2. PICK k \in 1 .. Len(F) : F[k] = R[i][1]
    BY <2>1, <1>4
  <2> QED BY <2>1, <2>2
<1>7. Results(runs) = F
  BY DEF Results, F, R
<1> QED BY <1>4, <1>5, <1>6, <1>7

\* A message comes first, then its results and nothing else.
LEMMA WiredBlock ==
    ASSUME NEW m \in ViewMessage
    PROVE  /\ Wired(m) \in Seq(Message) /\ Len(Wired(m)) \in Nat /\ Len(Wired(m)) >= 1
           /\ Wired(m)[1].role = m.role /\ Wired(m)[1].ids = Ids(m.runs)
           /\ \A k \in 2 .. Len(Wired(m)) : Wired(m)[k].role = "tool"
           /\ \A i \in 1 .. Len(m.runs) : ~m.runs[i].open =>
                 \E k \in 2 .. Len(Wired(m)) : m.runs[i].id \in ToSet(Wired(m)[k].ids)
<1> DEFINE a == Says(m.role, m.text, Ids(m.runs))
           R == Results(m.runs)
           W == <<a>> \o R
<1>1. m.runs \in Seq(Run) /\ a \in Message /\ a.role = m.role /\ a.ids = Ids(m.runs)
  BY MessageParts, IdsType DEF Says, Message
<1>2. /\ R \in Seq(Message) /\ \A k \in 1 .. Len(R) : R[k].role = "tool"
      /\ \A i \in 1 .. Len(m.runs) : ~m.runs[i].open =>
            \E k \in 1 .. Len(R) : m.runs[i].id \in ToSet(R[k].ids)
  BY <1>1, ResultsOf
<1> HIDE DEF a, R
<1>3. <<a>> \in Seq(Message) /\ Len(<<a>>) = 1 /\ <<a>>[1] = a
  BY <1>1
<1>4. /\ W \in Seq(Message) /\ Len(W) = 1 + Len(R) /\ Len(R) \in Nat
      /\ W[1] = a /\ \A k \in 1 .. Len(R) : W[1 + k] = R[k]
  BY <1>2, <1>3, Concat
<1> HIDE DEF W
<1>5. \A k \in 2 .. Len(W) : k - 1 \in 1 .. Len(R) /\ 1 + (k - 1) = k
  BY <1>4
<1>6. \A k \in 2 .. Len(W) : W[k].role = "tool"
  BY <1>2, <1>4, <1>5
<1>7. ASSUME NEW i \in 1 .. Len(m.runs), ~m.runs[i].open
      PROVE  \E k \in 2 .. Len(W) : m.runs[i].id \in ToSet(W[k].ids)
  <2>1. PICK k \in 1 .. Len(R) : m.runs[i].id \in ToSet(R[k].ids)
    BY <1>2, <1>7
  <2>2. 1 + k \in 2 .. Len(W) /\ W[1 + k] = R[k]
    BY <2>1, <1>4
  <2> QED BY <2>1, <2>2
<1>8. Wired(m) = W
  BY DEF Wired, W, a, R
<1> QED BY <1>1, <1>4, <1>6, <1>7, <1>8

\* In what is posted, a call has its result right behind it, unless the browser never saw one.
LEMMA PostedCalls ==
    ASSUME NEW messages \in Seq(ViewMessage)
    PROVE  /\ ToWire(messages) \in Seq(Message)
           /\ \A k \in 1 .. Len(ToWire(messages)) : ToWire(messages)[k].role = "assistant" =>
                 \A x \in ToSet(ToWire(messages)[k].ids) :
                    \/ Follows(ToWire(messages), Len(ToWire(messages)), k, x)
                    \/ \E i \in 1 .. Len(messages) : \E r \in 1 .. Len(messages[i].runs) :
                          messages[i].runs[r].open /\ messages[i].runs[r].id = x
<1> DEFINE B == [i \in DOMAIN messages |-> Wired(messages[i])]
           F == FlattenSeq(B)
           n == Len(messages)
<1>1. n \in Nat /\ DOMAIN messages = 1 .. n /\ \A i \in 1 .. n : messages[i] \in ViewMessage
  OBVIOUS
<1> HIDE DEF n
<1>2. \A i \in 1 .. n : B[i] = Wired(messages[i]) /\ B[i] \in Seq(Message)
  BY <1>1, WiredBlock
<1>3. B \in Seq(Seq(Message)) /\ Len(B) = n
  <2>1. B = [i \in 1 .. n |-> B[i]]
    BY <1>1
  <2> HIDE DEF B
  <2>2. B \in [1 .. n -> Seq(Message)]
    BY <1>2, <2>1
  <2> QED BY <1>1, <2>2, SeqDef
<1>4. ToWire(messages) = F
  BY DEF ToWire
<1> HIDE DEF B
<1>5. F \in Seq(Message) /\ \E o : IsOffsets(o, B, n, F)
  BY <1>3, FlattenOffsets
<1> HIDE DEF F
<1>6. PICK o : IsOffsets(o, B, n, F)
  BY <1>5
<1>7. /\ o \in [0 .. n -> Nat] /\ Len(F) = o[n]
      /\ \A i \in 1 .. n :
            /\ o[i] = o[i-1] + Len(B[i])
            /\ \A j \in 1 .. Len(B[i]) : F[o[i-1] + j] = B[i][j]
      /\ \A k \in 1 .. o[n] : \E i \in 1 .. n : k - o[i-1] \in 1 .. Len(B[i])
      /\ \A i, j \in 0 .. n : i <= j => o[i] <= o[j]
  BY <1>6 DEF IsOffsets
<1>8. ASSUME NEW k \in 1 .. Len(F), F[k].role = "assistant", NEW x \in ToSet(F[k].ids)
      PROVE  \/ Follows(F, Len(F), k, x)
             \/ \E i \in 1 .. n : \E r \in 1 .. Len(messages[i].runs) :
                   messages[i].runs[r].open /\ messages[i].runs[r].id = x
  <2>1. PICK i \in 1 .. n : k - o[i-1] \in 1 .. Len(B[i])
    BY <1>7
  <2> DEFINE m == messages[i]
             b == B[i]
             p == o[i-1]
  <2>2. m \in ViewMessage /\ m.runs \in Seq(Run) /\ b = Wired(m)
    BY <1>1, <1>2, MessageParts
  <2>3. i - 1 \in 0 .. n /\ i \in 0 .. n /\ n \in 0 .. n /\ i <= n
    BY <1>1
  <2>4. p \in Nat /\ k \in Nat /\ Len(b) \in Nat /\ p + Len(b) <= Len(F) /\ Len(F) \in Nat
        /\ \A j \in 1 .. Len(b) : F[p + j] = b[j]
    <3>1. Len(b) \in Nat
      BY <2>2, WiredBlock
    <3>2. o[i-1] \in Nat /\ o[i] \in Nat /\ o[n] \in Nat /\ o[i] <= o[n]
      BY <2>3, <1>7
    <3>3. o[i] = p + Len(b) /\ \A j \in 1 .. Len(b) : F[p + j] = b[j]
      BY <1>7
    <3>4. k \in Nat
      OBVIOUS
    <3> QED BY <3>1, <3>2, <3>3, <3>4, <1>7
  <2> HIDE DEF b, p, m
  <2>5. b[k - p] = F[k] /\ k - p \in 1 .. Len(b)
    <3>1. k - p \in 1 .. Len(b) /\ p + (k - p) = k
      BY <2>1, <2>4 DEF b, p
    <3> QED BY <3>1, <2>4
  <2>6. k = p + 1 /\ F[k].ids = Ids(m.runs)
    <3>1. k - p = 1
      <4>1. k - p \in 2 .. Len(b) => b[k - p].role = "tool"
        BY <2>2, WiredBlock
      <4>2. ~(k - p \in 2 .. Len(b))
        BY <4>1, <2>5, <1>8
      <4> QED BY <4>2, <2>4, <2>5
    <3> QED BY <3>1, <2>2, <2>4, <2>5, WiredBlock
  <2>7. PICK r \in 1 .. Len(m.runs) : m.runs[r].id = x
    BY <2>2, <2>6, IdsType
  <2>8. CASE m.runs[r].open
    BY <2>7, <2>8 DEF m
  <2>9. CASE ~m.runs[r].open
    <3>1. PICK q \in 2 .. Len(b) : x \in ToSet(b[q].ids)
      BY <2>2, <2>7, <2>9, WiredBlock
    <3>2. p + q \in k + 1 .. Len(F) /\ F[p + q] = b[q]
      BY <3>1, <2>4, <2>6
    <3>3. ASSUME NEW s \in k + 1 .. p + q PROVE F[s].role = "tool"
      <4>1. s - p \in 2 .. Len(b) /\ s - p \in 1 .. Len(b) /\ p + (s - p) = s
        BY <3>1, <2>4, <2>6
      <4>2. b[s - p].role = "tool"
        BY <4>1, <2>2, WiredBlock
      <4> QED BY <4>1, <4>2, <2>4
    <3> QED BY <3>1, <3>2, <3>3 DEF Follows
  <2> QED BY <2>8, <2>9
<1>9. F \in Seq(Message)
  BY <1>5
<1> QED BY <1>4, <1>8, <1>9 DEF n

--------------------------------------------------------------------------------
(* The conversation                                                             *)

LEMMA ChatParts ==
    ASSUME TypeOK
    PROVE  /\ StreamTypeOK /\ view \in Seq(ViewMessage) /\ Len(view) \in Nat /\ DOMAIN view = 1 .. Len(view)
           /\ \A i \in 1 .. Len(view) : view[i] \in ViewMessage /\ view[i].runs \in Seq(Run)
                                        /\ Len(view[i].runs) \in Nat /\ DOMAIN view[i].runs = 1 .. Len(view[i].runs)
           /\ history \in Seq(Message) /\ Len(history) \in Nat
           /\ \A k \in 1 .. Len(history) : history[k] \in Message /\ history[k].ids \in Seq(Id)
           /\ pending \in Seq(Id) /\ Len(pending) \in Nat /\ cut \subseteq Id
           /\ sends \in Nat /\ iteration \in Nat
<1>1. /\ StreamTypeOK /\ view \in Seq(ViewMessage) /\ history \in Seq(Message) /\ pending \in Seq(Id)
      /\ cut \subseteq Id /\ sends \in 0 .. MaxSends /\ iteration \in 0 .. MaxIterations
  BY DEF TypeOK
<1>2. Len(view) \in Nat /\ DOMAIN view = 1 .. Len(view) /\ \A i \in 1 .. Len(view) : view[i] \in ViewMessage
  BY <1>1
<1>3. Len(history) \in Nat /\ \A k \in 1 .. Len(history) : history[k] \in Message
  BY <1>1
<1>4. \A i \in 1 .. Len(view) : view[i].runs \in Seq(Run)
  BY <1>2, MessageParts
<1>5. \A i \in 1 .. Len(view) : Len(view[i].runs) \in Nat /\ DOMAIN view[i].runs = 1 .. Len(view[i].runs)
  BY <1>4
<1>6. \A k \in 1 .. Len(history) : history[k].ids \in Seq(Id)
  BY <1>3, MessageParts
<1> QED BY <1>1, <1>2, <1>3, <1>4, <1>5, <1>6

\* The last message of the browser is replaced.
LEMMA Shows ==
    ASSUME TypeOK, Len(view) >= 2, NEW m \in ViewMessage, Browser(m)
    PROVE  /\ view' \in Seq(ViewMessage) /\ Len(view') = Len(view) /\ view'[Len(view)] = m
           /\ \A i \in 1 .. Len(view) : i # Len(view) => view'[i] = view[i]
           /\ Shown = view[Len(view)] /\ Len(view) \in 1 .. Len(view)
<1>1. view \in Seq(ViewMessage) /\ Len(view) \in Nat
  BY ChatParts
<1>2. view' = [view EXCEPT ![Len(view)] = m]
  BY DEF Browser
<1>3. Shown = view[Len(view)]
  BY <1>1 DEF Shown, Last
<1> QED BY <1>1, <1>2, <1>3

\* The end of a turn, however it comes.
LEMMA OverKeeps ==
    ASSUME TypeOK, TurnOver, Leave, client' = client, sends' = sends, view' \in Seq(ViewMessage), cut' \subseteq Id
    PROVE  TypeOK' /\ StreamInv' /\ TurnInv' /\ HistoryInv'
<1>1. turn' = "off" /\ history' = <<>> /\ iteration' = 0 /\ pending' = <<>>
  BY DEF TurnOver
<1>2. phase' = "idle" /\ attempt' = 0 /\ heard' = <<>> /\ acc' = <<>> /\ sent' = [c \in Calls |-> "none"] /\ over' = FALSE
  BY DEF Leave
<1>3. client \in Clients /\ sends \in 0 .. MaxSends
  BY DEF TypeOK, StreamTypeOK
<1>4. StreamInv'
  <2>1. 0 \in 0 .. MaxAttempts
    BY AttemptsAssumption
  <2> QED BY <1>2, <1>3, <2>1, BlankKeeps
<1>5. TypeOK'
  <2>1. StreamTypeOK'
    BY <1>4 DEF StreamInv
  <2>2. 0 \in 0 .. MaxIterations
    BY BoundsAssumption
  <2>3. <<>> \in Seq(Message) /\ <<>> \in Seq(Id)
    OBVIOUS
  <2> QED BY <1>1, <1>3, <2>1, <2>2, <2>3 DEF TypeOK
<1>6. TurnInv'
  BY <1>1, <1>2 DEF TurnInv
<1>7. HistoryInv'
  <2>1. Len(history') = 0 /\ 1 .. 0 = {}
    BY <1>1
  <2> QED BY <2>1 DEF HistoryInv
<1> QED BY <1>4, <1>5, <1>6, <1>7

\* What stays on the page when a turn ends has results, or is cut.
LEMMA OverView ==
    ASSUME TypeOK, ViewInv, cut \subseteq cut', Len(view') \in Nat, Len(view') <= Len(view),
           \A i \in 1 .. Len(view') : view'[i] = view[i],
           Len(view') < Len(view) \/ OpenIds \subseteq cut' \/ pending = <<>>
    PROVE  ViewInv'
<1>1. SUFFICES ASSUME NEW i \in 1 .. Len(view'), NEW r \in 1 .. Len(view[i].runs), view[i].runs[r].open
               PROVE  view[i].runs[r].id \in cut'
  BY DEF ViewInv
<1>2. i \in 1 .. Len(view) /\ Len(view) \in Nat
  BY ChatParts
<1>3. \/ view[i].runs[r].id \in cut
      \/ i = Len(view) /\ view[i].runs[r].id \in ToSet(pending)
  BY <1>1, <1>2 DEF ViewInv
<1>4. CASE i = Len(view) /\ view[i].runs[r].id \in ToSet(pending)
  <2>1. pending # <<>>
    <3>1. ToSet(<<>>) = {}
      BY DEF ToSet
    <3> QED BY <3>1, <1>4
  <2>2. OpenIds \subseteq cut'
    BY <2>1, <1>2, <1>4
  <2>3. view[i].runs[r].id \in OpenIds
    <3>1. Shown = view[i] /\ r \in DOMAIN view[i].runs
      BY <1>2, <1>4, ChatParts DEF Shown, Last
    <3> QED BY <3>1, <1>1 DEF OpenIds
  <2> QED BY <2>2, <2>3
<1> QED BY <1>3, <1>4

\* The question and its answer go.
LEMMA Withdrawn ==
    ASSUME TypeOK, Len(view) >= 2
    PROVE  /\ SubSeq(view, 1, Len(view) - 2) \in Seq(ViewMessage)
           /\ Len(SubSeq(view, 1, Len(view) - 2)) = Len(view) - 2
           /\ \A i \in 1 .. Len(view) - 2 : SubSeq(view, 1, Len(view) - 2)[i] = view[i]
<1>1. view \in Seq(ViewMessage) /\ Len(view) \in Nat
  BY ChatParts
<1> DEFINE n == Len(view) - 2
<1>2. 1 \in Int /\ n \in Int /\ n \in Nat /\ \A i \in 1 .. n : view[i] \in ViewMessage
  BY <1>1
<1> HIDE DEF n
<1>3. /\ SubSeq(view, 1, n) \in Seq(ViewMessage)
      /\ Len(SubSeq(view, 1, n)) = IF 1 <= n THEN n - 1 + 1 ELSE 0
      /\ \A i \in 1 .. n - 1 + 1 : SubSeq(view, 1, n)[i] = view[1 + i - 1]
  BY <1>2, SubSeqProperties
<1>4. n - 1 + 1 = n /\ (~(1 <= n) => n = 0) /\ \A i \in 1 .. n : 1 + i - 1 = i
  BY <1>2
<1> QED BY <1>3, <1>4 DEF n

\* The calls that are cut are calls.
LEMMA CutType ==
    ASSUME TypeOK, Len(view) >= 2
    PROVE  OpenIds \subseteq Id
<1>1. Shown \in ViewMessage /\ Shown.runs \in Seq(Run)
  <2>1. Shown = view[Len(view)] /\ Len(view) \in 1 .. Len(view)
    BY ChatParts DEF Shown, Last
  <2> QED BY <2>1, ChatParts
<1>2. \A i \in DOMAIN Shown.runs : Shown.runs[i] \in Run
  BY <1>1
<1> QED BY <1>2, MessageParts DEF OpenIds

\* Every way a turn ends.
LEMMA EndsKeeps ==
    ASSUME IInv, Ends, Len(view) >= 2, cut \subseteq cut', cut' \subseteq Id,
           OpenIds \subseteq cut' \/ pending = <<>>
    PROVE  IInv'
<1>1. TypeOK /\ ViewInv
  BY DEF IInv
<1>2. TurnOver /\ Leave /\ client' = client /\ sends' = sends /\ view' = view
  BY DEF Ends
<1>3. view \in Seq(ViewMessage) /\ Len(view) \in Nat
  BY <1>1, ChatParts
<1>4. TypeOK' /\ StreamInv' /\ TurnInv' /\ HistoryInv'
  BY <1>1, <1>2, <1>3, OverKeeps
<1>5. ViewInv'
  BY <1>1, <1>2, <1>3, OverView
<1> QED BY <1>4, <1>5 DEF IInv

\* One result more, or one message more, leaves every result where it is.
LEMMA FollowsMore ==
    ASSUME NEW h, NEW g, NEW n \in Nat, NEW m \in Nat, n <= m, \A i \in 1 .. n : g[i] = h[i],
           NEW k \in 1 .. n, NEW x, Follows(h, n, k, x)
    PROVE  Follows(g, m, k, x)
<1>1. PICK j \in k + 1 .. n : (\A b \in k + 1 .. j : h[b].role = "tool") /\ x \in ToSet(h[j].ids)
  BY DEF Follows
<1>2. j \in k + 1 .. m /\ \A b \in k + 1 .. j : b \in 1 .. n
  OBVIOUS
<1> QED BY <1>1, <1>2 DEF Follows

LEMMA FollowsLonger ==
    \A h, g, k, x :
       /\ Len(h) \in Nat /\ Len(g) \in Nat /\ Len(h) <= Len(g) /\ k \in 1 .. Len(h)
       /\ \A i \in 1 .. Len(h) : g[i] = h[i]
       /\ Follows(h, Len(h), k, x)
       => Follows(g, Len(g), k, x)
BY FollowsMore

\* Another answer is asked for.
LEMMA NextIterationKeeps ==
    ASSUME IInv, NextIteration
    PROVE  IInv'
<1>1. TypeOK /\ StreamInv /\ TurnInv /\ ViewInv /\ HistoryInv
  BY DEF IInv
<1>2. pending = <<>> /\ Len(view) >= 2 /\ turn = "asking"
  BY <1>1 DEF NextIteration, TurnInv
<1>3. CASE iteration = MaxIterations /\ Ends /\ UNCHANGED cut
  BY <1>1, <1>2, <1>3, ChatParts, EndsKeeps
<1>4. CASE /\ iteration < MaxIterations /\ iteration' = iteration + 1 /\ turn' = "answering"
           /\ Ask /\ UNCHANGED <<view, sends, history, pending, cut>>
  <2>1. /\ acc' = <<>> /\ heard' = <<>> /\ sent' = [c \in Calls |-> "none"] /\ over' = FALSE
        /\ phase' = "reading" /\ attempt' = 1 /\ client' \in Clients
    BY <1>1, <1>4 DEF Ask, TypeOK, StreamTypeOK
  <2>2. StreamInv'
    <3>1. 1 \in 0 .. MaxAttempts
      BY AttemptsAssumption
    <3> QED BY <2>1, <3>1, BlankKeeps
  <2>3. iteration \in 0 .. MaxIterations /\ MaxIterations \in Nat /\ iteration' \in 0 .. MaxIterations /\ iteration' >= 1
    <3>1. iteration \in 0 .. MaxIterations
      BY <1>1 DEF TypeOK
    <3>2. MaxIterations \in Nat
      BY BoundsAssumption
    <3> QED BY <3>1, <3>2, <1>4
  <2>4. TypeOK'
    BY <1>1, <1>4, <2>2, <2>3 DEF TypeOK, StreamInv
  <2>5. TurnInv'
    BY <1>1, <1>2, <1>4, <2>3 DEF TurnInv
  <2>6. ViewInv'
    BY <1>1, <1>2, <1>4 DEF ViewInv
  <2>7. HistoryInv'
    BY <1>1, <1>2, <1>4 DEF HistoryInv
  <2> QED BY <2>2, <2>4, <2>5, <2>6, <2>7 DEF IInv
<1> QED BY <1>3, <1>4 DEF NextIteration

\* What the browser has shown stays when nothing but its last message changes, and
\* every open run of that is pending or cut.
LEMMA ViewKeeps ==
    ASSUME TypeOK, ViewInv, Len(view) >= 2, NEW m \in ViewMessage, Browser(m), cut' = cut, turn' # "off",
           \A r \in 1 .. Len(m.runs) : m.runs[r].open =>
              m.runs[r].id \in cut \/ m.runs[r].id \in ToSet(pending')
    PROVE  ViewInv'
<1>1. /\ Len(view') = Len(view) /\ view'[Len(view)] = m
      /\ \A i \in 1 .. Len(view) : i # Len(view) => view'[i] = view[i]
  BY Shows
<1>2. SUFFICES ASSUME NEW i \in 1 .. Len(view), NEW r \in 1 .. Len(view'[i].runs), view'[i].runs[r].open
               PROVE  \/ view'[i].runs[r].id \in cut
                      \/ i = Len(view) /\ view'[i].runs[r].id \in ToSet(pending')
  BY <1>1 DEF ViewInv
<1>3. CASE i = Len(view)
  BY <1>1, <1>2, <1>3
<1>4. CASE i # Len(view)
  BY <1>1, <1>2, <1>4 DEF ViewInv
<1> QED BY <1>3, <1>4

\* An event is consumed.
LEMMA ConsumeKeeps ==
    ASSUME IInv, Consume
    PROVE  IInv'
<1>1. TypeOK /\ StreamInv /\ TurnInv /\ ViewInv /\ HistoryInv
  BY DEF IInv
<1>2. Provider /\ turn = "answering" /\ UNCHANGED <<sends, turn, history, iteration, cut>>
  BY DEF Consume
<1>3. StreamInv'
  BY <1>1, <1>2, ProviderKeeps
<1>4. Len(view) >= 2 /\ sends >= 1 /\ iteration >= 1
  BY <1>1, <1>2 DEF TurnInv
<1> DEFINE new == heard' # heard
           id == Last(heard').id
           ids == IF new /\ id # None THEN <<<<sends, iteration, id>>>> ELSE <<>>
           more == [i \in DOMAIN ids |-> [id |-> ids[i], open |-> TRUE]]
           m == [Shown EXCEPT !.text = @ \/ (new /\ id = None), !.runs = @ \o more]
<1>5. pending' = pending \o ids /\ Browser(m)
  BY DEF Consume
<1>6. /\ view \in Seq(ViewMessage) /\ Shown = view[Len(view)] /\ Len(view) \in 1 .. Len(view)
      /\ Shown \in ViewMessage /\ Shown.runs \in Seq(Run) /\ pending \in Seq(Id)
      /\ Len(Shown.runs) \in Nat
  <2>1. view \in Seq(ViewMessage) /\ Len(view) \in Nat /\ pending \in Seq(Id)
    BY <1>1, ChatParts
  <2>2. Shown = view[Len(view)] /\ Len(view) \in 1 .. Len(view)
    BY <2>1, <1>4 DEF Shown, Last
  <2> QED BY <1>1, <2>1, <2>2, ChatParts
<1>7. \/ ids = <<>> /\ more = <<>>
      \/ \E x \in Id : ids = <<x>> /\ more = <<[id |-> x, open |-> TRUE]>>
  <2>1. CASE new /\ id # None
    <3> DEFINE x == <<sends, iteration, id>>
    <3>1. id \in Calls
      <4>1. PICK e \in Event : heard' = heard \o <<e>>
        BY <1>1, <1>2, <2>1, ProviderAppends
      <4>2. Last(heard') = e
        BY <4>1, <1>1, HearOne DEF Last, StreamInv
      <4> QED BY <4>1, <4>2, <2>1 DEF Event
    <3>2. x \in Id
      <4>1. sends \in 1 .. MaxSends /\ iteration \in 1 .. MaxIterations
        BY <1>1, <1>4 DEF TypeOK
      <4> QED BY <3>1, <4>1 DEF Id
    <3>3. ids = <<x>>
      BY <2>1
    <3> HIDE DEF x, ids
    <3>4. more = <<[id |-> x, open |-> TRUE]>>
      <4>1. DOMAIN <<x>> = {1} /\ <<x>>[1] = x
        OBVIOUS
      <4>2. more = [i \in {1} |-> [id |-> x, open |-> TRUE]]
        BY <3>3, <4>1
      <4> QED BY <4>2
    <3> QED BY <3>2, <3>3, <3>4
  <2>2. CASE ~(new /\ id # None)
    <3>1. ids = <<>>
      BY <2>2
    <3>2. more = <<>>
      BY <3>1
    <3> QED BY <3>1, <3>2
  <2> QED BY <2>1, <2>2
<1> DEFINE text == Shown.text \/ (new /\ id = None)
           runs == Shown.runs \o more
<1>8. text \in BOOLEAN
  OBVIOUS
<1> HIDE DEF ids, more, new, id
<1>9. /\ pending' \in Seq(Id) /\ ToSet(pending) \subseteq ToSet(pending')
      /\ runs \in Seq(Run)
      /\ \A r \in 1 .. Len(runs) : runs[r].open =>
            \/ runs[r].id \in ToSet(pending')
            \/ r \in 1 .. Len(Shown.runs) /\ runs[r] = Shown.runs[r]
  <2>1. CASE ids = <<>> /\ more = <<>>
    <3>1. pending' = pending /\ runs = Shown.runs
      BY <2>1, <1>5, <1>6
    <3> QED BY <3>1, <1>6
  <2>2. CASE \E x \in Id : ids = <<x>> /\ more = <<[id |-> x, open |-> TRUE]>>
    <3>1. PICK x \in Id : ids = <<x>> /\ more = <<[id |-> x, open |-> TRUE]>>
      BY <2>2
    <3> DEFINE run == [id |-> x, open |-> TRUE]
    <3>2. run \in Run /\ run.id = x
      BY DEF Run
    <3> HIDE DEF run, runs
    <3>3. pending' = pending \o <<x>> /\ runs = Shown.runs \o <<run>>
      BY <3>1, <1>5 DEF run, runs
    <3>4. /\ pending' \in Seq(Id) /\ Len(pending') = Len(pending) + 1 /\ Len(pending) \in Nat
          /\ pending'[Len(pending) + 1] = x /\ \A i \in 1 .. Len(pending) : pending'[i] = pending[i]
      BY <3>3, <1>6, OneMore
    <3>5. /\ runs \in Seq(Run) /\ Len(runs) = Len(Shown.runs) + 1
          /\ runs[Len(Shown.runs) + 1] = run /\ \A i \in 1 .. Len(Shown.runs) : runs[i] = Shown.runs[i]
          /\ \A i \in 1 .. Len(runs) : i \in 1 .. Len(Shown.runs) \/ i = Len(Shown.runs) + 1
      BY <3>2, <3>3, <1>6, OneMore
    <3>6. \A y : y \in ToSet(pending) => \E i \in 1 .. Len(pending) : pending[i] = y
      BY <1>6, Elements
    <3>7. \A i \in 1 .. Len(pending') : pending'[i] \in ToSet(pending')
      BY <3>4, Elements
    <3>8. ToSet(pending) \subseteq ToSet(pending')
      <4>1. ASSUME NEW y \in ToSet(pending) PROVE y \in ToSet(pending')
        <5>1. PICK i \in 1 .. Len(pending) : pending[i] = y
          BY <3>6
        <5>2. i \in 1 .. Len(pending') /\ pending'[i] = y
          BY <5>1, <3>4
        <5> QED BY <5>2, <3>7
      <4> QED BY <4>1
    <3>9. x \in ToSet(pending')
      <4>1. Len(pending) + 1 \in 1 .. Len(pending')
        BY <3>4
      <4> QED BY <4>1, <3>4, <3>7
    <3> QED BY <3>2, <3>4, <3>5, <3>8, <3>9
  <2> QED BY <1>7, <2>1, <2>2
<1>10. m \in ViewMessage /\ m.runs = runs
  <2> HIDE DEF text, runs
  <2>1. m = [Shown EXCEPT !.text = text, !.runs = runs]
    BY DEF m, text, runs
  <2> HIDE DEF m
  <2> QED BY <2>1, <1>6, <1>8, <1>9 DEF ViewMessage
<1> HIDE DEF m, runs, text
<1>11. view' \in Seq(ViewMessage) /\ Len(view') = Len(view)
  BY <1>1, <1>4, <1>5, <1>10, Shows
<1>12. TypeOK'
  BY <1>1, <1>2, <1>3, <1>9, <1>11 DEF TypeOK, StreamInv
<1>13. TurnInv'
  BY <1>1, <1>2, <1>4, <1>11 DEF TurnInv
<1>14. ViewInv'
  <2>1. ASSUME NEW r \in 1 .. Len(m.runs), m.runs[r].open
        PROVE  m.runs[r].id \in cut \/ m.runs[r].id \in ToSet(pending')
    <3>1. CASE r \in 1 .. Len(Shown.runs) /\ runs[r] = Shown.runs[r]
      <4>1. Shown.runs[r].id \in cut \/ Shown.runs[r].id \in ToSet(pending)
        BY <3>1, <2>1, <1>1, <1>6, <1>10 DEF ViewInv
      <4> QED BY <3>1, <4>1, <1>9, <1>10
    <3> QED BY <2>1, <3>1, <1>9, <1>10
  <2>2. turn' # "off"
    BY <1>2
  <2> QED BY <2>1, <2>2, <1>1, <1>2, <1>4, <1>5, <1>10, ViewKeeps
<1>15. HistoryInv'
  BY <1>1, <1>2 DEF HistoryInv
<1> QED BY <1>3, <1>12, <1>13, <1>14, <1>15 DEF IInv

\* The answer is complete.
LEMMA AnsweredKeeps ==
    ASSUME IInv, Answered
    PROVE  IInv'
<1>1. TypeOK /\ StreamInv /\ TurnInv /\ ViewInv /\ HistoryInv
  BY DEF IInv
<1>2. turn = "answering" /\ cut' = cut /\ Len(view) >= 2
  BY <1>1 DEF Answered, TurnInv
<1>3. CASE pending = <<>> /\ Ends
  BY <1>1, <1>2, <1>3, ChatParts, EndsKeeps
<1>4. CASE /\ pending # <<>> /\ turn' = "running" /\ Leave
           /\ history' = Append(history, Says("assistant", TextEvent \in ToSet(heard), pending))
           /\ UNCHANGED <<client, view, sends, iteration, pending>>
  <2> DEFINE m == Says("assistant", TextEvent \in ToSet(heard), pending)
  <2>1. m \in Message /\ m.ids = pending /\ m.role = "assistant"
    <3>1. (TextEvent \in ToSet(heard)) \in BOOLEAN
      OBVIOUS
    <3>2. pending \in Seq(Id)
      BY <1>1, ChatParts
    <3> QED BY <3>1, <3>2 DEF Says, Message
  <2> HIDE DEF m
  <2>2. /\ history' \in Seq(Message) /\ Len(history') = Len(history) + 1 /\ Len(history) \in Nat
        /\ history'[Len(history) + 1] = m /\ \A i \in 1 .. Len(history) : history'[i] = history[i]
        /\ \A i \in 1 .. Len(history') : i \in 1 .. Len(history) \/ i = Len(history) + 1
    <3>1. history' = Append(history, m) /\ history \in Seq(Message)
      BY <1>1, <1>4, ChatParts DEF m
    <3> QED BY <2>1, <3>1, OneMore
  <2>3. /\ acc' = <<>> /\ heard' = <<>> /\ sent' = [c \in Calls |-> "none"] /\ over' = FALSE
        /\ phase' = "idle" /\ attempt' = 0 /\ client' \in Clients
    BY <1>1, <1>4 DEF Leave, TypeOK, StreamTypeOK
  <2>4. StreamInv'
    <3>1. 0 \in 0 .. MaxAttempts
      BY AttemptsAssumption
    <3> QED BY <2>3, <3>1, BlankKeeps
  <2>5. TypeOK'
    BY <1>1, <1>2, <1>4, <2>2, <2>4 DEF TypeOK, StreamInv
  <2>6. TurnInv'
    BY <1>1, <1>2, <1>4, <2>3 DEF TurnInv
  <2>7. ViewInv'
    BY <1>1, <1>2, <1>4 DEF ViewInv
  <2>8. HistoryInv'
    <3>1. ASSUME NEW k \in 1 .. Len(history'), history'[k].role = "assistant", NEW x \in ToSet(history'[k].ids)
          PROVE  \/ x \in cut \/ Follows(history', Len(history'), k, x)
                 \/ /\ x \in ToSet(pending)
                    /\ \A b \in k + 1 .. Len(history') : history'[b].role = "tool"
      <4>1. CASE k \in 1 .. Len(history)
        <5>1. x \in cut \/ Follows(history, Len(history), k, x)
          BY <4>1, <3>1, <2>2, <1>1, <1>2 DEF HistoryInv
        <5>2. Len(history') \in Nat /\ Len(history) <= Len(history')
          BY <2>2
        <5>3. Follows(history, Len(history), k, x) => Follows(history', Len(history'), k, x)
          BY <4>1, <5>2, <2>2, FollowsLonger
        <5> QED BY <5>1, <5>3
      <4>2. CASE k = Len(history) + 1
        <5>1. x \in ToSet(pending) /\ k + 1 .. Len(history') = {}
          BY <4>2, <3>1, <2>1, <2>2
        <5> QED BY <5>1
      <4> QED BY <4>1, <4>2, <2>2
    <3> QED BY <3>1, <1>2, <1>4 DEF HistoryInv
  <2> QED BY <2>4, <2>5, <2>6, <2>7, <2>8 DEF IInv
<1> QED BY <1>3, <1>4 DEF Answered

\* A tool is run, or refused.
LEMMA RunToolKeeps ==
    ASSUME IInv, RunTool
    PROVE  IInv'
<1>1. TypeOK /\ StreamInv /\ TurnInv /\ ViewInv /\ HistoryInv
  BY DEF IInv
<1> DEFINE x == Head(pending)
           m == [Shown EXCEPT !.runs = [i \in DOMAIN @ |-> Close(@[i], Head(pending))]]
<1>2. /\ turn = "running" /\ pending # <<>> /\ Browser(m)
      /\ history' = Append(history, Result(x)) /\ pending' = Tail(pending)
      /\ turn' = IF Tail(pending) = <<>> THEN "asking" ELSE turn
      /\ UNCHANGED <<client, phase, attempt, acc, sent, over, heard, sends, iteration, cut>>
  BY DEF RunTool
<1>3. Len(view) >= 2
  BY <1>1, <1>2 DEF TurnInv
<1>4. /\ view \in Seq(ViewMessage) /\ Shown = view[Len(view)] /\ Len(view) \in 1 .. Len(view)
      /\ Shown \in ViewMessage /\ Shown.runs \in Seq(Run) /\ pending \in Seq(Id)
      /\ Len(Shown.runs) \in Nat /\ history \in Seq(Message)
  <2>1. view \in Seq(ViewMessage) /\ Len(view) \in Nat /\ pending \in Seq(Id) /\ history \in Seq(Message)
    BY <1>1, ChatParts
  <2>2. Shown = view[Len(view)] /\ Len(view) \in 1 .. Len(view)
    BY <2>1, <1>3 DEF Shown, Last
  <2> QED BY <1>1, <2>1, <2>2, ChatParts
<1>5. /\ Tail(pending) \in Seq(Id) /\ x = pending[1] /\ Len(pending) \in Nat /\ Len(pending) >= 1
      /\ Len(Tail(pending)) = Len(pending) - 1
      /\ \A i \in 1 .. Len(Tail(pending)) : Tail(pending)[i] = pending[i+1]
  BY <1>2, <1>4, OneLess
<1>6. x \in Id /\ \A y \in ToSet(pending) : y = x \/ y \in ToSet(Tail(pending))
  <2>1. x \in Id
    BY <1>4, <1>5
  <2>2. ASSUME NEW y \in ToSet(pending), y # x PROVE y \in ToSet(Tail(pending))
    <3>1. PICK i \in 1 .. Len(pending) : pending[i] = y
      BY <1>4, Elements
    <3>2. i - 1 \in 1 .. Len(Tail(pending)) /\ (i - 1) + 1 = i
      BY <3>1, <2>2, <1>5
    <3>3. Tail(pending)[i-1] = y
      BY <3>1, <3>2, <1>5
    <3> QED BY <3>2, <3>3, <1>5, Elements
  <2> QED BY <2>1, <2>2
<1> HIDE DEF x
<1> DEFINE runs == [i \in 1 .. Len(Shown.runs) |-> Close(Shown.runs[i], x)]
<1>7. /\ runs \in Seq(Run) /\ Len(runs) = Len(Shown.runs)
      /\ \A i \in 1 .. Len(runs) :
            /\ runs[i].id = Shown.runs[i].id
            /\ runs[i].open => Shown.runs[i].open /\ Shown.runs[i].id # x
  <2>1. \A i \in 1 .. Len(Shown.runs) : Shown.runs[i] \in Run
    BY <1>4
  <2>2. ASSUME NEW i \in 1 .. Len(Shown.runs)
        PROVE  /\ runs[i] \in Run /\ runs[i].id = Shown.runs[i].id
               /\ runs[i].open => Shown.runs[i].open /\ Shown.runs[i].id # x
    <3> DEFINE old == Shown.runs[i]
    <3>1. old \in Run
      BY <2>1
    <3>2. runs[i] = [old EXCEPT !.open = old.open /\ old.id # x]
      BY DEF Close
    <3> HIDE DEF old, runs
    <3>3. runs[i] \in Run /\ runs[i].id = old.id /\ (runs[i].open <=> (old.open /\ old.id # x))
      BY <3>1, <3>2 DEF Run
    <3> QED BY <3>3 DEF old
  <2>3. runs = [i \in 1 .. Len(Shown.runs) |-> runs[i]]
    OBVIOUS
  <2> HIDE DEF runs
  <2>4. runs \in [1 .. Len(Shown.runs) -> Run]
    BY <2>2, <2>3
  <2>5. runs \in Seq(Run)
    <3>1. Len(Shown.runs) \in Nat
      BY <1>4
    <3> QED BY <2>4, <3>1, SeqDef
  <2>6. Len(runs) = Len(Shown.runs)
    <3>1. Len(Shown.runs) \in Nat /\ DOMAIN runs = 1 .. Len(Shown.runs)
      BY <1>4, <2>4
    <3>2. Len(runs) \in Nat /\ DOMAIN runs = 1 .. Len(runs)
      BY <2>5
    <3> QED BY <3>1, <3>2
  <2> QED BY <2>2, <2>5, <2>6
<1>8. m \in ViewMessage /\ m.runs = runs
  <2>1. DOMAIN Shown.runs = 1 .. Len(Shown.runs)
    BY <1>4
  <2> DEFINE same == [i \in DOMAIN Shown.runs |-> Close(Shown.runs[i], Head(pending))]
  <2>3. m = [Shown EXCEPT !.runs = same]
    OBVIOUS
  <2>4. same = runs
    BY <2>1, Zenon DEF x
  <2> HIDE DEF same
  <2>2. m = [Shown EXCEPT !.runs = runs]
    BY <2>3, <2>4
  <2> HIDE DEF m, runs
  <2> QED BY <2>2, <1>4, <1>7 DEF ViewMessage
<1> HIDE DEF m, runs
<1>9. view' \in Seq(ViewMessage) /\ Len(view') = Len(view)
  BY <1>1, <1>2, <1>3, <1>8, Shows
<1>10. /\ history' \in Seq(Message) /\ Len(history') = Len(history) + 1 /\ Len(history) \in Nat
       /\ history'[Len(history) + 1] = Result(x) /\ \A i \in 1 .. Len(history) : history'[i] = history[i]
       /\ \A i \in 1 .. Len(history') : i \in 1 .. Len(history) \/ i = Len(history) + 1
       /\ Result(x).role = "tool" /\ ToSet(Result(x).ids) = {x}
  <2>1. Result(x) \in Message /\ Result(x).role = "tool" /\ ToSet(Result(x).ids) = {x}
    BY <1>6, ResultMessage
  <2> DEFINE r == Result(x)
  <2> HIDE DEF r
  <2>2. history' = Append(history, r) /\ r \in Message
    BY <2>1, <1>2 DEF r
  <2>3. /\ history' \in Seq(Message) /\ Len(history') = Len(history) + 1 /\ Len(history) \in Nat
        /\ history'[Len(history) + 1] = r /\ \A i \in 1 .. Len(history) : history'[i] = history[i]
        /\ \A i \in 1 .. Len(history') : i \in 1 .. Len(history) \/ i = Len(history) + 1
    BY <2>2, <1>4, OneMore
  <2> QED BY <2>1, <2>3 DEF r
<1>11. StreamInv'
  <2>1. \A d : (Heard(d)' <=> Heard(d)) /\ (Has(d)' <=> Has(d))
    BY <1>2 DEF Heard, Has
  <2>2. SlotInv'
    BY <1>1, <1>2, <2>1 DEF StreamInv, SlotInv, SlotWell
  <2>3. HeardInv'
    BY <1>1, <1>2, <2>1 DEF StreamInv, HeardInv, HeardWell
  <2>4. CallInv' /\ PlaceInv' /\ StreamTypeOK'
    BY <1>1, <1>2, <2>1 DEF StreamInv, CallInv, PlaceInv, StreamTypeOK
  <2> QED BY <2>2, <2>3, <2>4 DEF StreamInv
<1>12. TypeOK'
  BY <1>1, <1>2, <1>5, <1>9, <1>10, <1>11 DEF TypeOK, StreamInv
<1>13. TurnInv'
  BY <1>1, <1>2, <1>9 DEF TurnInv
<1>14. ViewInv'
  <2>1. ASSUME NEW r \in 1 .. Len(m.runs), m.runs[r].open
        PROVE  m.runs[r].id \in cut \/ m.runs[r].id \in ToSet(pending')
    <3>1. /\ m.runs[r].id = Shown.runs[r].id /\ Shown.runs[r].open /\ Shown.runs[r].id # x
          /\ r \in 1 .. Len(Shown.runs)
      BY <2>1, <1>7, <1>8
    <3>2. Shown.runs[r].id \in cut \/ Shown.runs[r].id \in ToSet(pending)
      BY <3>1, <1>1, <1>4 DEF ViewInv
    <3> QED BY <3>1, <3>2, <1>2, <1>6
  <2>2. turn' # "off"
    BY <1>2
  <2> QED BY <2>1, <2>2, <1>1, <1>2, <1>3, <1>8, ViewKeeps
<1>15. HistoryInv'
  <2>1. ASSUME NEW k \in 1 .. Len(history'), history'[k].role = "assistant", NEW y \in ToSet(history'[k].ids)
        PROVE  \/ y \in cut \/ Follows(history', Len(history'), k, y)
               \/ /\ turn' = "running" /\ y \in ToSet(pending')
                  /\ \A b \in k + 1 .. Len(history') : history'[b].role = "tool"
    <3>1. k \in 1 .. Len(history) /\ history'[k] = history[k]
      BY <2>1, <1>10
    <3>2. \/ y \in cut \/ Follows(history, Len(history), k, y)
          \/ /\ y \in ToSet(pending)
             /\ \A b \in k + 1 .. Len(history) : history[b].role = "tool"
      BY <3>1, <2>1, <1>1 DEF HistoryInv
    <3>3. Follows(history, Len(history), k, y) => Follows(history', Len(history'), k, y)
      <4>1. Len(history') \in Nat /\ Len(history) <= Len(history')
        BY <1>10
      <4> QED BY <4>1, <3>1, <1>10, FollowsLonger
    <3>4. CASE /\ y \in ToSet(pending)
               /\ \A b \in k + 1 .. Len(history) : history[b].role = "tool"
      <4>1. \A b \in k + 1 .. Len(history') : history'[b].role = "tool"
        BY <3>1, <3>4, <1>10
      <4>2. CASE y = x
        <5>1. Len(history) + 1 \in k + 1 .. Len(history') /\ y \in ToSet(history'[Len(history) + 1].ids)
          BY <3>1, <4>2, <1>10
        <5>2. \A b \in k + 1 .. Len(history) + 1 : history'[b].role = "tool"
          BY <4>1, <1>10
        <5> QED BY <5>1, <5>2 DEF Follows
      <4>3. CASE y \in ToSet(Tail(pending))
        <5>1. Tail(pending) # <<>>
          <6>1. ToSet(<<>>) = {}
            BY DEF ToSet
          <6> QED BY <6>1, <4>3
        <5> QED BY <5>1, <4>1, <4>3, <1>2
      <4> QED BY <3>4, <4>2, <4>3, <1>6
    <3> QED BY <3>2, <3>3, <3>4
  <2> QED BY <2>1, <1>2 DEF HistoryInv
<1> QED BY <1>11, <1>12, <1>13, <1>14, <1>15 DEF IInv

\* The browser posts what it shows.
LEMMA SendKeeps ==
    ASSUME IInv, Send
    PROVE  IInv'
<1>1. TypeOK /\ StreamInv /\ TurnInv /\ ViewInv /\ HistoryInv
  BY DEF IInv
<1>2. /\ turn = "off" /\ sends < MaxSends /\ sends' = sends + 1
      /\ view' = view \o <<User, Placeholder>> /\ history' = ToWire(Append(view, User))
      /\ turn' = "asking" /\ client' \in Clients
      /\ UNCHANGED <<phase, attempt, acc, sent, over, heard, iteration, pending, cut>>
  BY DEF Send
<1>3. phase = "idle" /\ pending = <<>>
  BY <1>1, <1>2 DEF TurnInv
<1>4. view \in Seq(ViewMessage) /\ Len(view) \in Nat
  BY <1>1, ChatParts
<1>5. User \in ViewMessage /\ User.runs = <<>> /\ Placeholder \in ViewMessage /\ Placeholder.runs = <<>>
  <2>1. <<>> \in Seq(Run)
    OBVIOUS
  <2> QED BY <2>1 DEF User, Placeholder, ViewMessage
<1> DEFINE messages == Append(view, User)
<1>6. /\ messages \in Seq(ViewMessage) /\ Len(messages) = Len(view) + 1
      /\ messages[Len(view) + 1] = User /\ \A i \in 1 .. Len(view) : messages[i] = view[i]
      /\ \A i \in 1 .. Len(messages) : i \in 1 .. Len(view) \/ i = Len(view) + 1
  BY <1>4, <1>5, OneMore
<1> HIDE DEF messages
<1>7. /\ view' \in Seq(ViewMessage) /\ Len(view') = Len(view) + 2
      /\ view'[Len(view) + 1].runs = <<>> /\ view'[Len(view) + 2].runs = <<>>
      /\ \A i \in 1 .. Len(view) : view'[i] = view[i]
      /\ \A i \in 1 .. Len(view') : i \in 1 .. Len(view) \/ i = Len(view) + 1 \/ i = Len(view) + 2
  <2> DEFINE two == <<User, Placeholder>>
  <2>1. two \in Seq(ViewMessage) /\ Len(two) = 2 /\ two[1].runs = <<>> /\ two[2].runs = <<>>
        /\ 1 \in 1 .. 2 /\ 2 \in 1 .. 2
    BY <1>5
  <2>2. view' = view \o two
    BY <1>2
  <2> HIDE DEF two
  <2>3. /\ view \o two \in Seq(ViewMessage) /\ Len(view \o two) = Len(view) + 2
        /\ \A i \in 1 .. Len(view) : (view \o two)[i] = view[i]
        /\ \A i \in 1 .. Len(two) : (view \o two)[Len(view) + i] = two[i]
    BY <1>4, <2>1, Concat
  <2> QED BY <1>4, <2>1, <2>2, <2>3
<1>8. \A i \in 1 .. Len(view) : \A r \in 1 .. Len(view[i].runs) : view[i].runs[r].open => view[i].runs[r].id \in cut
  BY <1>1, <1>2 DEF ViewInv
<1>9. Len(<<>>) = 0 /\ 1 .. 0 = {}
  OBVIOUS
<1>10. StreamInv'
  <2>1. /\ acc' = <<>> /\ heard' = <<>> /\ over' \in BOOLEAN /\ phase' = "idle" /\ attempt' \in 0 .. MaxAttempts
        /\ sent \in [Calls -> {"none", "nameless", "begun", "whole", "done"}] /\ \A c \in Calls : sent[c] = "none"
    BY <1>1, <1>2, <1>3 DEF StreamInv, StreamTypeOK, PlaceInv
  <2>2. sent' = [c \in Calls |-> "none"]
    <3>1. sent = [c \in Calls |-> sent[c]]
      BY <2>1
    <3>2. sent = [c \in Calls |-> "none"]
      BY <2>1, <3>1
    <3> QED BY <3>2, <1>2
  <2> QED BY <1>2, <2>1, <2>2, BlankKeeps
<1>11. history' \in Seq(Message) /\ history' = ToWire(messages)
  <2>1. history' = ToWire(messages)
    BY <1>2 DEF messages
  <2> QED BY <2>1, <1>6, PostedCalls
<1>12. TypeOK'
  <2>1. sends' \in 0 .. MaxSends
    BY <1>1, <1>2, BoundsAssumption DEF TypeOK
  <2> QED BY <1>1, <1>2, <1>7, <1>10, <1>11, <2>1 DEF TypeOK, StreamInv
<1>13. TurnInv'
  <2>1. sends' >= 1
    BY <1>1, <1>2, ChatParts
  <2> QED BY <2>1, <1>2, <1>3, <1>4, <1>7 DEF TurnInv
<1>14. ViewInv'
  <2>1. ASSUME NEW i \in 1 .. Len(view'), NEW r \in 1 .. Len(view'[i].runs), view'[i].runs[r].open
        PROVE  view'[i].runs[r].id \in cut
    <3>1. i \in 1 .. Len(view)
      BY <2>1, <1>7, <1>9
    <3> QED BY <3>1, <2>1, <1>7, <1>8
  <2> QED BY <2>1, <1>2 DEF ViewInv
<1>15. HistoryInv'
  <2>1. ASSUME NEW k \in 1 .. Len(history'), history'[k].role = "assistant", NEW x \in ToSet(history'[k].ids)
        PROVE  x \in cut \/ Follows(history', Len(history'), k, x)
    <3>1. \/ Follows(history', Len(history'), k, x)
          \/ \E i \in 1 .. Len(messages) : \E r \in 1 .. Len(messages[i].runs) :
                messages[i].runs[r].open /\ messages[i].runs[r].id = x
      BY <2>1, <1>6, <1>11, PostedCalls
    <3>2. ASSUME NEW i \in 1 .. Len(messages), NEW r \in 1 .. Len(messages[i].runs), messages[i].runs[r].open
          PROVE  messages[i].runs[r].id \in cut
      <4>1. i \in 1 .. Len(view)
        BY <3>2, <1>5, <1>6, <1>9
      <4> QED BY <4>1, <3>2, <1>6, <1>8
    <3> QED BY <3>1, <3>2
  <2> QED BY <2>1, <1>2 DEF HistoryInv
<1> QED BY <1>10, <1>12, <1>13, <1>14, <1>15 DEF IInv

\* A turn is stopped, or fails, or the page is loaded again.
LEMMA TurnEnds ==
    ASSUME IInv, Stop \/ Lose \/ Fails \/ Refresh
    PROVE  IInv'
<1>1. TypeOK /\ TurnInv /\ ViewInv
  BY DEF IInv
<1>2. Len(view) >= 2 /\ view \in Seq(ViewMessage) /\ Len(view) \in Nat /\ cut \subseteq Id /\ OpenIds \subseteq Id
  <2>1. turn # "off"
    BY DEF Stop, Lose, Fails, Refresh
  <2>2. Len(view) >= 2
    BY <1>1, <2>1 DEF TurnInv
  <2> QED BY <1>1, <2>2, ChatParts, CutType
<1>3. CASE Lose \/ Fails
  <2>1. Ends /\ cut' = cut \cup OpenIds
    BY <1>3 DEF Lose, Fails
  <2> QED BY <1>2, <2>1, EndsKeeps
<1>4. CASE Stop \/ Refresh
  <2>1. /\ TurnOver /\ Leave /\ client' = client /\ sends' = sends
        /\ cut' = cut \/ cut' = cut \cup OpenIds
        /\ view' = SubSeq(view, 1, Len(view) - 2) \/ (view' = view /\ cut' = cut \cup OpenIds)
    BY <1>4 DEF Stop, Refresh
  <2>2. cut \subseteq cut' /\ cut' \subseteq Id
    BY <1>2, <2>1
  <2>3. /\ view' \in Seq(ViewMessage) /\ Len(view') \in Nat /\ Len(view') <= Len(view)
        /\ \A i \in 1 .. Len(view') : view'[i] = view[i]
        /\ Len(view') < Len(view) \/ OpenIds \subseteq cut'
    <3>1. CASE view' = SubSeq(view, 1, Len(view) - 2)
      BY <1>1, <1>2, <3>1, Withdrawn
    <3>2. CASE view' = view /\ cut' = cut \cup OpenIds
      BY <1>2, <3>2
    <3> QED BY <2>1, <3>1, <3>2
  <2>4. TypeOK' /\ StreamInv' /\ TurnInv' /\ HistoryInv'
    BY <1>1, <2>1, <2>2, <2>3, OverKeeps
  <2>5. ViewInv'
    BY <1>1, <2>2, <2>3, OverView
  <2> QED BY <2>4, <2>5 DEF IInv
<1> QED BY <1>3, <1>4

\* The conversation is forgotten.
LEMMA ClearKeeps ==
    ASSUME IInv, Clear
    PROVE  IInv'
<1>1. TypeOK
  BY DEF IInv
<1>2. /\ TurnOver /\ Leave /\ client' = client /\ sends' = sends /\ cut' = {} /\ view' = <<>>
  BY DEF Clear
<1>3. view' \in Seq(ViewMessage) /\ cut' \subseteq Id /\ Len(view') = 0 /\ 1 .. 0 = {}
  BY <1>2
<1>4. TypeOK' /\ StreamInv' /\ TurnInv' /\ HistoryInv'
  BY <1>1, <1>2, <1>3, OverKeeps
<1>5. ViewInv'
  BY <1>3 DEF ViewInv
<1> QED BY <1>4, <1>5 DEF IInv

--------------------------------------------------------------------------------
(* The invariant                                                                *)

LEMMA Begins == Init => IInv
<1> SUFFICES ASSUME Init PROVE IInv
  OBVIOUS
<1>1. /\ client \in Clients /\ phase = "idle" /\ attempt = 0 /\ acc = <<>>
      /\ sent = [c \in Calls |-> "none"] /\ over = FALSE /\ heard = <<>>
      /\ view = <<>> /\ sends = 0 /\ turn = "off"
      /\ history = <<>> /\ iteration = 0 /\ pending = <<>> /\ cut = {}
  BY DEF Init, StreamInit
<1>2. Len(<<>>) = 0 /\ 1 .. 0 = {} /\ \A T : <<>> \in Seq(T)
  OBVIOUS
<1>3. StreamTypeOK
  <2>1. 0 \in 0 .. MaxAttempts
    BY AttemptsAssumption
  <2>2. sent \in [Calls -> {"none", "nameless", "begun", "whole", "done"}]
    BY <1>1
  <2> QED BY <1>1, <1>2, <2>1, <2>2 DEF StreamTypeOK
<1>4. SlotInv /\ HeardInv
  BY <1>1, <1>2 DEF SlotInv, HeardInv
<1>5. \A c \in Calls : sent[c] = "none"
  BY <1>1
<1>6. CallInv /\ PlaceInv
  BY <1>1, <1>2, <1>5 DEF CallInv, PlaceInv
<1>7. TypeOK
  BY <1>1, <1>2, <1>3, BoundsAssumption DEF TypeOK
<1>8. TurnInv /\ ViewInv /\ HistoryInv
  BY <1>1, <1>2 DEF TurnInv, ViewInv, HistoryInv
<1> QED BY <1>3, <1>4, <1>6, <1>7, <1>8 DEF IInv, StreamInv

LEMMA Stutters == IInv /\ UNCHANGED vars => IInv'
<1> SUFFICES ASSUME IInv, UNCHANGED vars PROVE IInv'
  OBVIOUS
<1>1. UNCHANGED <<client, phase, attempt, acc, sent, over, heard, view, sends, turn, history, iteration, pending, cut>>
  BY DEF vars
<1>2. \A d : (Heard(d)' <=> Heard(d)) /\ (Has(d)' <=> Has(d))
  BY <1>1 DEF Heard, Has
<1>3. SlotInv'
  BY <1>1, <1>2 DEF IInv, StreamInv, SlotInv, SlotWell
<1>4. HeardInv'
  BY <1>1, <1>2 DEF IInv, StreamInv, HeardInv, HeardWell
<1>5. CallInv' /\ PlaceInv' /\ StreamTypeOK'
  BY <1>1, <1>2 DEF IInv, StreamInv, CallInv, PlaceInv, StreamTypeOK
<1>6. TypeOK' /\ TurnInv'
  BY <1>1, <1>5 DEF IInv, TypeOK, TurnInv
<1>7. ViewInv' /\ HistoryInv'
  BY <1>1 DEF IInv, ViewInv, HistoryInv
<1> QED BY <1>3, <1>4, <1>5, <1>6, <1>7 DEF IInv, StreamInv

LEMMA StepKeeps == IInv /\ [Next]_vars => IInv'
<1> SUFFICES ASSUME IInv, [Next]_vars PROVE IInv'
  OBVIOUS
<1>1. CASE NextIteration
  BY <1>1, NextIterationKeeps
<1>2. CASE Consume
  BY <1>2, ConsumeKeeps
<1>3. CASE Answered
  BY <1>3, AnsweredKeeps
<1>4. CASE RunTool
  BY <1>4, RunToolKeeps
<1>5. CASE Send
  BY <1>5, SendKeeps
<1>6. CASE Stop \/ Lose \/ Fails \/ Refresh
  BY <1>6, TurnEnds
<1>7. CASE Clear
  BY <1>7, ClearKeeps
<1>8. CASE UNCHANGED vars
  BY <1>8, Stutters
<1> QED BY <1>1, <1>2, <1>3, <1>4, <1>5, <1>6, <1>7, <1>8 DEF Next, Serve

(* Every reachable state of the chat satisfies the inductive invariant.         *)
THEOREM InvariantHolds == Spec => []IInv
BY Begins, StepKeeps, PTL DEF Spec

(* The streams, the browser's and the server's messages, the pending and the    *)
(* cut calls stay well typed.                                                   *)
THEOREM TypeCorrect == Spec => []TypeOK
<1>1. IInv => TypeOK
  BY DEF IInv
<1> QED BY <1>1, InvariantHolds, PTL

--------------------------------------------------------------------------------
(* Calls are whole                                                              *)

LEMMA WholeByInvariant == StreamInv => CallsWhole
<1> SUFFICES ASSUME StreamInv PROVE CallsWhole
  OBVIOUS
<1>1. StreamTypeOK /\ HeardInv /\ CallInv /\ PlaceInv
  BY DEF StreamInv
<1>2. heard \in Seq(Event) /\ DOMAIN heard = 1 .. Len(heard) /\ \A i \in 1 .. Len(heard) : heard[i] \in Event
  BY <1>1 DEF StreamTypeOK
<1>3. ASSUME NEW i \in 1 .. Len(heard), heard[i].id # None, heard[i].input = None
      PROVE  sent[heard[i].id] = "begun"
  <2>1. HeardWell(i) /\ heard[i].id \in Calls
    BY <1>1, <1>3, HeardCalls DEF HeardInv
  <2>2. sent[heard[i].id] \in {"none", "nameless", "begun", "whole", "done"}
    BY <2>1, <1>1, StreamParts
  <2> QED BY <2>1, <2>2, <1>3 DEF HeardWell
<1>4. ASSUME phase = "ended", NEW c \in Calls, Finished(c)
      PROVE  Contains(heard, [id |-> c, input |-> c])
  <2>1. acc = <<>>
    BY <1>1, <1>4 DEF PlaceInv
  <2>2. ~Has(c)
    <3>1. Len(acc) = 0 /\ 1 .. 0 = {}
      BY <2>1
    <3> QED BY <3>1, <1>1, StreamParts
  <2>3. sent[c] \in {"whole", "done"} /\ Heard(c) /\ c # None
    BY <1>1, <1>4, <2>2, HeardCalls DEF Finished, CallInv
  <2>4. PICK i \in 1 .. Len(heard) : heard[i].id = c
    BY <2>3 DEF Heard
  <2>5. heard[i].input = c /\ heard[i] \in Event
    BY <1>1, <1>2, <2>3, <2>4 DEF HeardInv, HeardWell
  <2>6. heard[i] = [id |-> c, input |-> c]
    BY <2>4, <2>5 DEF Event
  <2> QED BY <1>2, <2>4, <2>6 DEF Contains
<1> QED BY <1>2, <1>3, <1>4 DEF CallsWhole

(* However the three providers cut their answers up, a call that is yielded    *)
(* without arguments was cut short by the provider, and every call the         *)
(* provider finished is yielded, with its arguments, by the end of the stream. *)
THEOREM CallsWholeHolds == Spec => []CallsWhole
<1>1. IInv => CallsWhole
  BY WholeByInvariant DEF IInv
<1> QED BY <1>1, InvariantHolds, PTL

--------------------------------------------------------------------------------
(* The streams are ModelStreams                                                 *)

OnceAndOwn == Abstract!Distinct(heard) /\ Abstract!Own(heard)

LEMMA EachOnce == StreamInv => OnceAndOwn
<1> SUFFICES ASSUME StreamInv PROVE OnceAndOwn
  OBVIOUS
<1>1. StreamTypeOK /\ HeardInv /\ PlaceInv
  BY DEF StreamInv
<1>2. DOMAIN heard = 1 .. Len(heard)
  BY <1>1 DEF StreamTypeOK
<1>3. \A i \in 1 .. Len(heard) : heard[i].id # None => HeardWell(i)
  BY <1>1 DEF HeardInv
<1>4. Abstract!Distinct(heard)
  BY <1>2, <1>3 DEF HeardWell, Abstract!Distinct
<1>5. Abstract!Own(heard)
  BY <1>1, <1>2, <1>3 DEF HeardWell, PlaceInv, Abstract!Own
<1> QED BY <1>4, <1>5 DEF OnceAndOwn

LEMMA EachOnceNext == StreamInv' => OnceAndOwn'
BY EachOnce, PTL

\* What a stream yields is added to what it has yielded.
LEMMA Delivers ==
    ASSUME StreamInv, StreamInv', heard' = heard \/ \E e \in Event : heard' = heard \o <<e>>,
           phase \in Streaming, phase' \in Streaming \cup {"ended"}, attempt' = attempt
    PROVE  Abstract!Deliver
<1>1. heard \in Seq(Event) /\ Len(heard) \in Nat
  BY StreamParts DEF StreamInv
<1>2. Len(heard') >= Len(heard) /\ SubSeq(heard', 1, Len(heard)) = heard
  <2>1. CASE heard' = heard
    BY <1>1, <2>1
  <2>2. CASE \E e \in Event : heard' = heard \o <<e>>
    <3>1. PICK e \in Event : heard' = heard \o <<e>>
      BY <2>2
    <3> DEFINE h == heard \o <<e>>
    <3>2. h \in Seq(Event) /\ Len(h) = Len(heard) + 1 /\ \A i \in 1 .. Len(heard) : h[i] = heard[i]
      BY <1>1, OneMore
    <3> HIDE DEF h
    <3>3. SubSeq(h, 1, Len(heard)) = heard
      <4>1. SubSeq(h, 1, Len(heard)) = [i \in 1 .. Len(heard) |-> heard[i]]
        BY <1>1, <3>2
      <4> QED BY <4>1, <1>1
    <3>4. heard' = h
      BY <3>1 DEF h
    <3> QED BY <1>1, <3>2, <3>3, <3>4
  <2> QED BY <2>1, <2>2
<1>3. "ended" \notin Streaming
  BY DEF Streaming
<1>4. Abstract!Distinct(heard') /\ Abstract!Own(heard')
  BY EachOnceNext DEF OnceAndOwn, Abstract!Distinct, Abstract!Own
<1> QED BY <1>2, <1>3, <1>4 DEF Abstract!Deliver

\* Whatever the provider does, the loop sees a step of a ModelStream.
LEMMA ProviderImplements ==
    ASSUME StreamInv, Provider
    PROVE  Abstract!Deliver \/ Abstract!Retry \/ Abstract!Fail \/ Abstract!Overflow
           \/ UNCHANGED <<IF phase \in Streaming THEN "streaming" ELSE phase, attempt, heard>>
<1>1. StreamInv'
  BY ProviderKeeps
<1>2. heard' = heard \/ \E e \in Event : heard' = heard \o <<e>>
  BY ProviderAppends
<1>3. {"reading", "sleeping", "finishing", "ending"} = Streaming /\ "failed" \notin Streaming /\ "overflowed" \notin Streaming
  BY DEF Streaming
<1>4. CASE Break
  <2>1. PICK error \in Errors :
           phase' = IF error \in Transient /\ heard = <<>> /\ attempt < MaxAttempts
                    THEN "sleeping" ELSE Translated(error)
    BY <1>4 DEF Break
  <2>2. phase = "reading" /\ attempt' = attempt /\ heard' = heard
    BY <1>4 DEF Break
  <2>3. CASE phase' = "sleeping"
    BY <1>3, <2>2, <2>3
  <2>4. CASE phase' = Translated(error)
    <3>1. client \in {"anthropic", "openai", "codex"}
      BY ClientsAssumption DEF StreamInv, StreamTypeOK
    <3>2. Translated(error) = IF error = "too long" THEN "overflowed" ELSE "failed"
      BY <3>1 DEF Translated, AnthropicTranslated, OpenAITranslated, CodexTranslated, IsContextOverflow
    <3>3. error = "too long" => heard = <<>>
      BY <2>1 DEF Errors, Opening
    <3> QED BY <1>3, <2>2, <2>4, <3>2, <3>3 DEF Abstract!Fail, Abstract!Overflow
  <2> QED BY <2>1, <2>3, <2>4
<1>5. CASE Wake
  <2>1. phase = "sleeping" /\ phase' = "reading" /\ attempt' = attempt + 1 /\ heard' = heard
    BY <1>5 DEF Wake
  <2>2. heard = <<>> /\ attempt < MaxAttempts
    BY <2>1 DEF StreamInv, PlaceInv
  <2> QED BY <1>3, <2>1, <2>2 DEF Abstract!Retry
<1>6. CASE phase \in Streaming /\ phase' \in Streaming \cup {"ended"} /\ attempt' = attempt
  BY <1>1, <1>2, <1>6, Delivers
<1>7. CASE Text \/ OpenAIFinish \/ EmitAccumulated \/ Emitted \/ End
  <2>1. phase \in Streaming /\ phase' \in Streaming \cup {"ended"} /\ attempt' = attempt
    BY <1>3, <1>7 DEF Text, OpenAIFinish, EmitAccumulated, Emitted, End, Reading, Chunk
  <2> QED BY <2>1, <1>6
<1>8. ASSUME NEW c \in Calls,
             \/ Arguments(c) \/ AnthropicStart(c) \/ AnthropicStop(c) \/ OpenAIStart(c)
             \/ CodexAdded(c) \/ CodexArgumentsDone(c) \/ CodexItemDone(c)
      PROVE  Abstract!Deliver
  <2>1. phase \in Streaming /\ phase' = phase /\ attempt' = attempt
    BY <1>3, <1>8 DEF Arguments, AnthropicStart, AnthropicStop, OpenAIStart, CodexAdded,
                      CodexArgumentsDone, CodexItemDone, Reading, Chunk
  <2> QED BY <1>1, <1>2, <2>1, Delivers
<1> QED BY <1>4, <1>5, <1>7, <1>8 DEF Provider

LEMMA LeaveImplements == Leave => Abstract!Leave
BY DEF Leave, Streaming, Abstract!Leave

LEMMA StreamSteps == IInv /\ [Next]_vars => [Abstract!Next]_(Abstract!vars)
<1> SUFFICES ASSUME IInv, [Next]_vars PROVE [Abstract!Next]_(Abstract!vars)
  OBVIOUS
<1>1. CASE Leave
  BY <1>1, LeaveImplements DEF Abstract!Next
<1>2. CASE Ask
  <2>1. Abstract!Ask
    BY <1>2 DEF Ask, Streaming, Abstract!Ask
  <2> QED BY <2>1 DEF Abstract!Next
<1>3. CASE Provider
  BY <1>3, ProviderImplements DEF IInv, Abstract!Next, Abstract!vars
<1>4. CASE UNCHANGED <<phase, attempt, heard>>
  BY <1>4 DEF Abstract!vars
<1>5. NextIteration => Leave \/ Ask
  BY DEF NextIteration, Ends
<1>6. Consume => Provider
  BY DEF Consume
<1>7. Answered \/ Fails \/ Stop \/ Lose \/ Refresh \/ Clear => Leave
  BY DEF Answered, Fails, Stop, Lose, Refresh, Clear, Ends
<1>8. Send \/ RunTool \/ UNCHANGED vars => UNCHANGED <<phase, attempt, heard>>
  BY DEF Send, RunTool, vars
<1> QED BY <1>1, <1>2, <1>3, <1>4, <1>5, <1>6, <1>7, <1>8 DEF Next, Serve

(* Each of the three clients, with the retries of stream_message around it,     *)
(* gives the loop what ModelStream promises: nothing is retried once anything   *)
(* was yielded, no call comes twice, none has another's arguments, and an       *)
(* overflow comes before any content.                                           *)
THEOREM StreamsImplement == Spec => ImplementsModelStream
<1>1. Init => Abstract!Init
  BY DEF Init, StreamInit, Streaming, Abstract!Init
<1> QED BY <1>1, InvariantHolds, StreamSteps, PTL DEF Spec, ImplementsModelStream, Abstract!Spec

--------------------------------------------------------------------------------
(* What the providers are sent                                                  *)

\* Every call of a list of messages has its result or was cut off.
Explained(h) ==
    \A k \in 1 .. Len(h) : h[k].role = "assistant" =>
       \A x \in ToSet(h[k].ids) : x \in cut \/ Follows(h, Len(h), k, x)

LEMMA AfterFollows ==
    ASSUME NEW h, Len(h) \in Nat, NEW k \in Nat, NEW x, Follows(h, Len(h), k, x)
    PROVE  x \in AnsweredAfter(h, k)
BY DEF Follows, AnsweredAfter

\* Message by message.
LEMMA MergedSteps ==
    ASSUME NEW h, Len(h) \in Nat
    PROVE  \E f : /\ AnthropicMessages(h) = f[Len(h)] /\ f[0] = <<>>
                  /\ \A n \in 1 .. Len(h) : f[n] = AnthropicMerged(f[n-1], h[n])
<1> DEFINE Of(n, f) == f = [i \in 0 .. n |-> IF i = 0 THEN <<>> ELSE AnthropicMerged(f[i-1], h[i])]
           L == Len(h)
           Reached == {n \in Nat : \E f : Of(n, f)}
           G == CHOOSE g : Of(L, g)
<1>1. \A n \in Nat : n \in Reached
  <2>1. 0 \in Reached
    <3> DEFINE g == [i \in 0 .. 0 |-> <<>>]
    <3>1. g = [i \in 0 .. 0 |-> IF i = 0 THEN <<>> ELSE AnthropicMerged(g[i-1], h[i])]
      <4>1. \A i \in 0 .. 0 : i = 0
        OBVIOUS
      <4> QED BY <4>1
    <3> QED BY <3>1
  <2>2. ASSUME NEW n \in Nat, n \in Reached
        PROVE  n + 1 \in Reached
    <3>1. PICK f : Of(n, f)
      BY <2>2
    <3> DEFINE g == [i \in 0 .. n+1 |-> IF i \in 0 .. n THEN f[i]
                                        ELSE IF i = 0 THEN <<>> ELSE AnthropicMerged(f[i-1], h[i])]
    <3>2. \A i \in 0 .. n : g[i] = f[i]
      OBVIOUS
    <3>3. \A i \in 0 .. n+1 : i - 1 \in 0 .. n \/ i = 0
      OBVIOUS
    <3>4. \A i \in 0 .. n+1 : g[i] = IF i = 0 THEN <<>> ELSE AnthropicMerged(g[i-1], h[i])
      <4> SUFFICES ASSUME NEW i \in 0 .. n+1
                   PROVE  g[i] = IF i = 0 THEN <<>> ELSE AnthropicMerged(g[i-1], h[i])
        OBVIOUS
      <4>1. g[i] = IF i = 0 THEN <<>> ELSE AnthropicMerged(f[i-1], h[i])
        BY <3>1
      <4>2. CASE i = 0
        BY <4>1, <4>2
      <4>3. CASE i # 0
        <5>1. g[i-1] = f[i-1]
          BY <3>2, <3>3, <4>3
        <5> HIDE DEF g
        <5> QED BY <5>1, <4>1, <4>3
      <4> QED BY <4>2, <4>3
    <3>5. Of(n+1, g)
      <4>1. g = [i \in 0 .. n+1 |-> g[i]]
        OBVIOUS
      <4> HIDE DEF g
      <4> QED BY <4>1, <3>4
    <3> HIDE DEF g, Of
    <3>6. n + 1 \in Nat
      OBVIOUS
    <3> QED BY <3>5, <3>6
  <2> HIDE DEF Reached
  <2> QED BY <2>1, <2>2, Induction
<1>2. Of(L, G)
  <2>1. \E g : Of(L, g)
    BY <1>1
  <2> HIDE DEF Of
  <2> QED BY <2>1
<1>3. AnthropicMessages(h) = G[L]
  BY DEF AnthropicMessages
<1> HIDE DEF G
<1>4. G[0] = <<>>
  <2>1. 0 \in 0 .. L
    OBVIOUS
  <2>2. G[0] = IF 0 = 0 THEN <<>> ELSE AnthropicMerged(G[0-1], h[0])
    BY <2>1, <1>2
  <2> QED BY <2>2
<1>5. ASSUME NEW n \in 1 .. L
      PROVE  G[n] = AnthropicMerged(G[n-1], h[n])
  <2>1. n \in 0 .. L /\ n # 0
    OBVIOUS
  <2>2. G[n] = IF n = 0 THEN <<>> ELSE AnthropicMerged(G[n-1], h[n])
    BY <2>1, <1>2
  <2> QED BY <2>1, <2>2
<1> QED BY <1>3, <1>4, <1>5

\* Every answer in g is one of the first n messages of h, and what follows that follows it.
Mirrors(g, h, n) ==
    \A k \in 1 .. Len(g) : g[k].role = "assistant" =>
       \E i \in 1 .. n :
          /\ h[i].role = "assistant" /\ h[i].ids = g[k].ids
          /\ \A x : Follows(h, n, i, x) => Follows(g, Len(g), k, x)
          /\ (\A b \in i + 1 .. n : h[b].role = "tool") => \A b \in k + 1 .. Len(g) : g[b].role = "tool"

\* A result that follows among n + 1 messages follows among n, or is the last of them.
LEMMA FollowsLess ==
    ASSUME NEW h, NEW n \in Nat, NEW i \in 1 .. n, NEW x, Follows(h, n + 1, i, x)
    PROVE  \/ Follows(h, n, i, x)
           \/ /\ h[n+1].role = "tool" /\ x \in ToSet(h[n+1].ids)
              /\ \A b \in i + 1 .. n : h[b].role = "tool"
<1>1. PICK j \in i + 1 .. n + 1 : (\A b \in i + 1 .. j : h[b].role = "tool") /\ x \in ToSet(h[j].ids)
  BY DEF Follows
<1>2. CASE j = n + 1
  <2>1. n + 1 \in i + 1 .. n + 1 /\ \A b \in i + 1 .. n : b \in i + 1 .. n + 1
    OBVIOUS
  <2> QED BY <1>1, <1>2, <2>1
<1>3. CASE j # n + 1
  <2>1. j \in i + 1 .. n
    BY <1>3
  <2> QED BY <1>1, <2>1 DEF Follows
<1> QED BY <1>2, <1>3

\* An empty answer is left out.
LEMMA MirrorsSkip ==
    ASSUME NEW h, NEW g, NEW n \in Nat, h[n+1].role # "tool", Mirrors(g, h, n)
    PROVE  Mirrors(g, h, n + 1)
<1> SUFFICES ASSUME NEW k \in 1 .. Len(g), g[k].role = "assistant"
             PROVE  \E i \in 1 .. n + 1 :
                       /\ h[i].role = "assistant" /\ h[i].ids = g[k].ids
                       /\ \A x : Follows(h, n + 1, i, x) => Follows(g, Len(g), k, x)
                       /\ (\A b \in i + 1 .. n + 1 : h[b].role = "tool") =>
                             \A b \in k + 1 .. Len(g) : g[b].role = "tool"
  BY DEF Mirrors
<1>1. PICK i \in 1 .. n :
        /\ h[i].role = "assistant" /\ h[i].ids = g[k].ids
        /\ \A x : Follows(h, n, i, x) => Follows(g, Len(g), k, x)
  BY DEF Mirrors
<1>2. i \in 1 .. n + 1 /\ n + 1 \in i + 1 .. n + 1
  OBVIOUS
<1>3. \A x : Follows(h, n + 1, i, x) => Follows(h, n, i, x)
  BY FollowsLess
<1> QED BY <1>1, <1>2, <1>3

\* A message is added as it is.
LEMMA MirrorsAdd ==
    ASSUME NEW h, NEW n \in Nat, h[n+1] \in Message, NEW g \in Seq(Message), NEW q, q = Append(g, h[n+1]),
           Mirrors(g, h, n)
    PROVE  Mirrors(q, h, n + 1)
<1>1. /\ Len(q) = Len(g) + 1 /\ Len(g) \in Nat /\ q[Len(g) + 1] = h[n+1]
      /\ \A i \in 1 .. Len(g) : q[i] = g[i]
      /\ \A i \in 1 .. Len(q) : i \in 1 .. Len(g) \/ i = Len(g) + 1
  BY OneMore
<1> SUFFICES ASSUME NEW k \in 1 .. Len(q), q[k].role = "assistant"
             PROVE  \E i \in 1 .. n + 1 :
                       /\ h[i].role = "assistant" /\ h[i].ids = q[k].ids
                       /\ \A x : Follows(h, n + 1, i, x) => Follows(q, Len(q), k, x)
                       /\ (\A b \in i + 1 .. n + 1 : h[b].role = "tool") =>
                             \A b \in k + 1 .. Len(q) : q[b].role = "tool"
  BY DEF Mirrors
<1>2. CASE k = Len(g) + 1
  <2>1. n + 1 \in 1 .. n + 1 /\ (n + 1) + 1 .. n + 1 = {} /\ k + 1 .. Len(q) = {}
    BY <1>1, <1>2
  <2>2. \A x : ~Follows(h, n + 1, n + 1, x)
    BY <2>1 DEF Follows
  <2> QED BY <1>1, <1>2, <2>1, <2>2
<1>3. CASE k \in 1 .. Len(g)
  <2>1. PICK i \in 1 .. n :
          /\ h[i].role = "assistant" /\ h[i].ids = g[k].ids
          /\ \A x : Follows(h, n, i, x) => Follows(g, Len(g), k, x)
          /\ (\A b \in i + 1 .. n : h[b].role = "tool") => \A b \in k + 1 .. Len(g) : g[b].role = "tool"
    BY <1>1, <1>3 DEF Mirrors
  <2>2. i \in 1 .. n + 1 /\ n + 1 \in i + 1 .. n + 1 /\ \A b \in i + 1 .. n : b \in i + 1 .. n + 1
    OBVIOUS
  <2>3. ASSUME NEW x, Follows(h, n + 1, i, x) PROVE Follows(q, Len(q), k, x)
    <3>1. CASE Follows(h, n, i, x)
      <4>1. Follows(g, Len(g), k, x) /\ Len(q) \in Nat /\ Len(g) <= Len(q)
        BY <1>1, <2>1, <3>1
      <4> QED BY <4>1, <1>1, <1>3, FollowsMore
    <3>2. CASE /\ h[n+1].role = "tool" /\ x \in ToSet(h[n+1].ids)
               /\ \A b \in i + 1 .. n : h[b].role = "tool"
      <4>1. \A b \in k + 1 .. Len(g) : g[b].role = "tool"
        BY <2>1, <3>2
      <4>2. \A b \in k + 1 .. Len(q) : q[b].role = "tool"
        BY <4>1, <3>2, <1>1, <1>3
      <4>3. Len(q) \in k + 1 .. Len(q) /\ x \in ToSet(q[Len(q)].ids)
        BY <1>1, <1>3, <3>2
      <4> QED BY <4>2, <4>3 DEF Follows
    <3> QED BY <2>3, <3>1, <3>2, FollowsLess
  <2>4. ASSUME \A b \in i + 1 .. n + 1 : h[b].role = "tool"
        PROVE  \A b \in k + 1 .. Len(q) : q[b].role = "tool"
    <3>1. \A b \in k + 1 .. Len(g) : g[b].role = "tool"
      BY <2>1, <2>2, <2>4
    <3> QED BY <3>1, <2>2, <2>4, <1>1, <1>3
  <2> QED BY <2>1, <2>2, <2>3, <2>4, <1>1, <1>3
<1> QED BY <1>1, <1>2, <1>3

\* A result is put into the message of the results before it.
LEMMA MirrorsMerge ==
    ASSUME NEW h, NEW n \in Nat, h[n+1] \in Message, NEW g \in Seq(Message), g # <<>>,
           Last(g).role = "tool", h[n+1].role = "tool",
           NEW q, q = [g EXCEPT ![Len(g)].ids = @ \o h[n+1].ids],
           Mirrors(g, h, n)
    PROVE  q \in Seq(Message) /\ Mirrors(q, h, n + 1)
<1>1. Len(g) \in Nat /\ Len(g) \in 1 .. Len(g) /\ g[Len(g)].role = "tool" /\ g[Len(g)] \in Message
      /\ g \in [1 .. Len(g) -> Message]
  <2>1. Len(g) \in Nat /\ Len(g) >= 1
    BY OneLess
  <2> QED BY <2>1 DEF Last
<1> DEFINE old == g[Len(g)]
           ids == old.ids \o h[n+1].ids
           new == [old EXCEPT !.ids = ids]
<1>2. old.ids \in Seq(Id) /\ h[n+1].ids \in Seq(Id)
  BY <1>1, MessageParts
<1>3. ids \in Seq(Id) /\ ToSet(old.ids) \subseteq ToSet(ids) /\ ToSet(h[n+1].ids) \subseteq ToSet(ids)
  <2> DEFINE s == old.ids
             t == h[n+1].ids
  <2> HIDE DEF s, t
  <2>1. s \in Seq(Id) /\ t \in Seq(Id)
    BY <1>2 DEF s, t
  <2> DEFINE st == s \o t
  <2>2. /\ st \in Seq(Id) /\ Len(st) = Len(s) + Len(t) /\ Len(s) \in Nat /\ Len(t) \in Nat
        /\ \A i \in 1 .. Len(s) : st[i] = s[i]
        /\ \A i \in 1 .. Len(t) : st[Len(s) + i] = t[i]
    BY <2>1, Concat
  <2> HIDE DEF st
  <2>3. \A i \in 1 .. Len(st) : st[i] \in ToSet(st)
    BY <2>2, Elements
  <2>4. ASSUME NEW x \in ToSet(s) PROVE x \in ToSet(st)
    <3>1. PICK i \in 1 .. Len(s) : s[i] = x
      BY <2>1, Elements
    <3>2. i \in 1 .. Len(st) /\ st[i] = x
      BY <3>1, <2>2
    <3> QED BY <3>2, <2>3
  <2>5. ASSUME NEW x \in ToSet(t) PROVE x \in ToSet(st)
    <3>1. PICK i \in 1 .. Len(t) : t[i] = x
      BY <2>1, Elements
    <3>2. Len(s) + i \in 1 .. Len(st) /\ st[Len(s) + i] = x
      BY <3>1, <2>2
    <3> QED BY <3>2, <2>3
  <2> QED BY <2>2, <2>4, <2>5 DEF st, s, t
<1> HIDE DEF ids
<1>4. new \in Message /\ new.role = "tool" /\ new.ids = ids
  BY <1>1, <1>3 DEF Message
<1>5. q = [g EXCEPT ![Len(g)] = new]
  BY <1>1 DEF ids
<1> HIDE DEF new, old
<1>6. /\ q \in [1 .. Len(g) -> Message] /\ q[Len(g)] = new
      /\ \A i \in 1 .. Len(g) : i # Len(g) => q[i] = g[i]
  BY <1>1, <1>4, <1>5
<1>7. q \in Seq(Message) /\ Len(q) = Len(g)
  <2>1. q \in Seq(Message)
    BY <1>1, <1>6, SeqDef
  <2>2. Len(q) \in Nat /\ DOMAIN q = 1 .. Len(q) /\ DOMAIN q = 1 .. Len(g)
    BY <2>1, <1>6
  <2> QED BY <1>1, <2>1, <2>2
<1>8. \A i \in 1 .. Len(g) : q[i].role = g[i].role /\ ToSet(g[i].ids) \subseteq ToSet(q[i].ids)
  <2>1. q[Len(g)].role = g[Len(g)].role /\ ToSet(g[Len(g)].ids) \subseteq ToSet(q[Len(g)].ids)
    BY <1>1, <1>3, <1>4, <1>6 DEF old
  <2> QED BY <2>1, <1>6
<1>9. ASSUME NEW k \in 1 .. Len(q), q[k].role = "assistant"
      PROVE  \E i \in 1 .. n + 1 :
                /\ h[i].role = "assistant" /\ h[i].ids = q[k].ids
                /\ \A x : Follows(h, n + 1, i, x) => Follows(q, Len(q), k, x)
                /\ (\A b \in i + 1 .. n + 1 : h[b].role = "tool") =>
                      \A b \in k + 1 .. Len(q) : q[b].role = "tool"
  <2>1. k \in 1 .. Len(g) /\ k # Len(g) /\ q[k] = g[k]
    BY <1>1, <1>4, <1>6, <1>7, <1>9
  <2>2. PICK i \in 1 .. n :
          /\ h[i].role = "assistant" /\ h[i].ids = g[k].ids
          /\ \A x : Follows(h, n, i, x) => Follows(g, Len(g), k, x)
          /\ (\A b \in i + 1 .. n : h[b].role = "tool") => \A b \in k + 1 .. Len(g) : g[b].role = "tool"
    BY <1>9, <2>1 DEF Mirrors
  <2>3. i \in 1 .. n + 1 /\ \A b \in i + 1 .. n : b \in i + 1 .. n + 1
    OBVIOUS
  <2>4. \A b \in k + 1 .. Len(g) : b \in 1 .. Len(g)
    BY <2>1
  <2>5. ASSUME NEW x, Follows(h, n + 1, i, x) PROVE Follows(q, Len(q), k, x)
    <3>1. CASE Follows(h, n, i, x)
      <4>1. Follows(g, Len(g), k, x)
        BY <2>2, <3>1
      <4>2. PICK j \in k + 1 .. Len(g) : (\A b \in k + 1 .. j : g[b].role = "tool") /\ x \in ToSet(g[j].ids)
        BY <4>1 DEF Follows
      <4>3. \A b \in k + 1 .. j : b \in 1 .. Len(g)
        BY <4>2, <1>1, <2>1
      <4>4. (\A b \in k + 1 .. j : q[b].role = "tool") /\ x \in ToSet(q[j].ids)
        BY <4>2, <4>3, <1>8, <2>4
      <4> QED BY <4>2, <4>4, <1>7 DEF Follows
    <3>2. CASE /\ h[n+1].role = "tool" /\ x \in ToSet(h[n+1].ids)
               /\ \A b \in i + 1 .. n : h[b].role = "tool"
      <4>1. \A b \in k + 1 .. Len(q) : q[b].role = "tool"
        BY <2>2, <2>4, <3>2, <1>7, <1>8
      <4>2. Len(q) \in k + 1 .. Len(q) /\ x \in ToSet(q[Len(q)].ids)
        <5>1. Len(q) \in k + 1 .. Len(q)
          BY <1>1, <1>7, <2>1
        <5>2. q[Len(q)].ids = ids
          BY <1>4, <1>6, <1>7
        <5> QED BY <5>1, <5>2, <1>3, <3>2
      <4> QED BY <4>1, <4>2 DEF Follows
    <3> QED BY <2>5, <3>1, <3>2, FollowsLess
  <2>6. (\A b \in i + 1 .. n + 1 : h[b].role = "tool") => \A b \in k + 1 .. Len(q) : q[b].role = "tool"
    BY <2>2, <2>3, <2>4, <1>7, <1>8
  <2> QED BY <2>1, <2>2, <2>3, <2>5, <2>6
<1> QED BY <1>7, <1>9 DEF Mirrors

\* Merged as Anthropic wants them, the messages keep their results.
LEMMA AnthropicKeeps ==
    ASSUME NEW h \in Seq(Message), Explained(h)
    PROVE  AnthropicMessages(h) \in Seq(Message) /\ Explained(AnthropicMessages(h))
<1> DEFINE L == Len(h)
<1>1. L \in Nat /\ \A i \in 1 .. L : h[i] \in Message
  OBVIOUS
<1>2. PICK f : /\ AnthropicMessages(h) = f[L] /\ f[0] = <<>>
               /\ \A n \in 1 .. L : f[n] = AnthropicMerged(f[n-1], h[n])
  BY <1>1, MergedSteps
<1> HIDE DEF L
<1> DEFINE Good == {n \in Nat : n <= L => f[n] \in Seq(Message) /\ Mirrors(f[n], h, n)}
<1>3. \A n \in Nat : n \in Good
  <2>1. 0 \in Good
    <3>1. <<>> \in Seq(Message) /\ Len(<<>>) = 0 /\ 1 .. 0 = {}
      OBVIOUS
    <3>2. Mirrors(<<>>, h, 0)
      BY <3>1 DEF Mirrors
    <3> QED BY <3>1, <3>2, <1>2
  <2>2. ASSUME NEW n \in Nat, n \in Good PROVE n + 1 \in Good
    <3>1. SUFFICES ASSUME n + 1 <= L PROVE f[n+1] \in Seq(Message) /\ Mirrors(f[n+1], h, n + 1)
      OBVIOUS
    <3>2. n <= L /\ n + 1 \in 1 .. L /\ (n + 1) - 1 = n
      BY <3>1, <1>1
    <3> DEFINE g == f[n]
               q == f[n+1]
               m == h[n+1]
    <3>3. g \in Seq(Message) /\ Mirrors(g, h, n)
      BY <2>2, <3>2
    <3>4. q = AnthropicMerged(g, m) /\ m \in Message
      <4>1. f[n+1] = AnthropicMerged(f[(n+1)-1], h[n+1])
        BY <3>2, <1>2
      <4> QED BY <4>1, <3>2, <1>1
    <3> HIDE DEF g, q
    <3>5. CASE Empty(m)
      <4>1. q = g /\ m.role # "tool"
        BY <3>4, <3>5 DEF AnthropicMerged, Empty
      <4>2. Mirrors(g, h, n + 1)
        BY <3>3, <4>1, MirrorsSkip
      <4> QED BY <3>3, <4>1, <4>2 DEF q
    <3>6. CASE ~Empty(m) /\ m.role = "tool" /\ g # <<>> /\ Last(g).role = "tool"
      <4>1. q = [g EXCEPT ![Len(g)].ids = @ \o m.ids]
        BY <3>4, <3>6 DEF AnthropicMerged
      <4>2. q \in Seq(Message) /\ Mirrors(q, h, n + 1)
        BY <3>3, <3>4, <3>6, <4>1, MirrorsMerge
      <4> QED BY <4>2 DEF q
    <3>7. CASE ~Empty(m) /\ ~(m.role = "tool" /\ g # <<>> /\ Last(g).role = "tool")
      <4>1. q = Append(g, m)
        BY <3>4, <3>7 DEF AnthropicMerged
      <4>2. q \in Seq(Message) /\ Mirrors(q, h, n + 1)
        BY <3>3, <3>4, <4>1, MirrorsAdd, OneMore
      <4> QED BY <4>2 DEF q
    <3> QED BY <3>5, <3>6, <3>7
  <2> HIDE DEF Good
  <2> QED BY <2>1, <2>2, Induction
<1> DEFINE F == f[L]
<1>4. F \in Seq(Message) /\ Mirrors(F, h, L)
  <2>1. L \in Good /\ L <= L
    BY <1>1, <1>3
  <2> QED BY <2>1
<1> HIDE DEF F
<1>5. ASSUME NEW k \in 1 .. Len(F), F[k].role = "assistant", NEW x \in ToSet(F[k].ids)
      PROVE  x \in cut \/ Follows(F, Len(F), k, x)
  <2>1. PICK i \in 1 .. L : /\ h[i].role = "assistant" /\ h[i].ids = F[k].ids
                            /\ \A y : Follows(h, L, i, y) => Follows(F, Len(F), k, y)
    BY <1>4, <1>5 DEF Mirrors
  <2>2. x \in cut \/ Follows(h, L, i, x)
    BY <1>5, <2>1 DEF Explained, L
  <2> QED BY <2>1, <2>2
<1>6. Explained(F)
  BY <1>5 DEF Explained
<1> QED BY <1>2, <1>4, <1>6 DEF F

\* The items of a message.
LEMMA ItemsOf ==
    ASSUME NEW m \in Message
    PROVE  /\ CodexItems(m) \in Seq(Message) /\ Len(CodexItems(m)) \in Nat
           /\ m.role # "assistant" => CodexItems(m) = <<m>>
           /\ m.role = "assistant" =>
                 \A k \in 1 .. Len(CodexItems(m)) :
                    /\ CodexItems(m)[k].role = "assistant"
                    /\ ToSet(CodexItems(m)[k].ids) \subseteq ToSet(m.ids)
<1>1. CASE m.role # "assistant"
  BY <1>1 DEF CodexItems
<1>2. CASE m.role = "assistant"
  <2> DEFINE text == Says("assistant", TRUE, <<>>)
             s == IF m.text THEN <<text>> ELSE <<>>
             t == [i \in DOMAIN m.ids |-> Says("assistant", FALSE, <<m.ids[i]>>)]
             Own == {e \in Message : e.role = "assistant" /\ ToSet(e.ids) \subseteq ToSet(m.ids)}
  <2>1. m.ids \in Seq(Id) /\ Len(m.ids) \in Nat /\ DOMAIN m.ids = 1 .. Len(m.ids)
    BY MessageParts
  <2>2. s \in Seq(Own)
    <3>1. text \in Own
      <4>1. <<>> \in Seq(Id) /\ ToSet(<<>>) = {}
        BY DEF ToSet
      <4> QED BY <4>1 DEF Says, Message
    <3> HIDE DEF text, Own
    <3>2. <<text>> \in Seq(Own) /\ <<>> \in Seq(Own)
      BY <3>1
    <3> QED BY <3>2
  <2>3. t \in Seq(Own)
    <3>1. ASSUME NEW i \in 1 .. Len(m.ids) PROVE Says("assistant", FALSE, <<m.ids[i]>>) \in Own
      <4>1. m.ids[i] \in Id /\ m.ids[i] \in ToSet(m.ids)
        BY <2>1, Elements
      <4>2. <<m.ids[i]>> \in Seq(Id) /\ ToSet(<<m.ids[i]>>) = {m.ids[i]}
        BY <4>1, OneElement
      <4> QED BY <4>1, <4>2 DEF Says, Message
    <3> HIDE DEF Own
    <3>2. t \in [1 .. Len(m.ids) -> Own]
      BY <2>1, <3>1
    <3> QED BY <2>1, <3>2, SeqDef
  <2> HIDE DEF s, t
  <2>4. s \o t \in Seq(Own)
    BY <2>2, <2>3, Concat
  <2>5. CodexItems(m) = s \o t
    BY <1>2 DEF CodexItems, s, t
  <2> DEFINE items == CodexItems(m)
  <2> HIDE DEF items
  <2>6. items \in Seq(Own)
    BY <2>4, <2>5 DEF items
  <2>7. Len(items) \in Nat /\ \A k \in 1 .. Len(items) : items[k] \in Own
    BY <2>6
  <2>8. items \in Seq(Message)
    <3>1. items \in [1 .. Len(items) -> Own] /\ Own \subseteq Message
      BY <2>6
    <3>2. items \in [1 .. Len(items) -> Message]
      BY <3>1
    <3> QED BY <3>2, <2>7, SeqDef
  <2> QED BY <1>2, <2>7, <2>8 DEF items
<1> QED BY <1>1, <1>2

\* The items of an answer end where those of the result behind it begin.
RunEnds(request, k) ==
    {i \in k .. Len(request) : /\ \A j \in k .. i : request[j].role = "assistant"
                               /\ i = Len(request) \/ request[i + 1].role # "assistant"}

LEMMA RunEnd ==
    ASSUME NEW F, Len(F) \in Nat, NEW k \in 1 .. Len(F), F[k].role = "assistant"
    PROVE  \E e \in RunEnds(F, k) : TRUE
<1> DEFINE S == {i \in k .. Len(F) : i = Len(F) \/ F[i + 1].role # "assistant"}
<1>1. S \subseteq Nat /\ S # {}
  <2>1. Len(F) \in S
    OBVIOUS
  <2> QED BY <2>1
<1>2. PICK e \in S : \A y \in S : e <= y
  BY <1>1, LeastElement
<1>3. ASSUME NEW j \in k .. e PROVE F[j].role = "assistant"
  <2>1. CASE j = k
    BY <2>1
  <2>2. CASE j # k
    <3>1. j - 1 \in k .. Len(F) /\ j - 1 < e /\ (j - 1) + 1 = j
      BY <1>2, <2>2
    <3>2. j - 1 \notin S
      <4>1. e \in Nat /\ j - 1 \in Nat
        BY <1>1, <1>2
      <4> HIDE DEF S
      <4> QED BY <1>2, <3>1, <4>1
    <3> QED BY <3>1, <3>2
  <2> QED BY <2>1, <2>2
<1> QED BY <1>2, <1>3 DEF RunEnds

\* Cut up into items, an answer still has its results behind its last item.
LEMMA CodexKeeps ==
    ASSUME NEW h \in Seq(Message), Explained(h)
    PROVE  /\ CodexMessages(h) \in Seq(Message)
           /\ \A k \in 1 .. Len(CodexMessages(h)) : CodexMessages(h)[k].role = "assistant" =>
                 \A x \in ToSet(CodexMessages(h)[k].ids) : \A e \in RunEnds(CodexMessages(h), k) :
                    x \in cut \/ Follows(CodexMessages(h), Len(CodexMessages(h)), e, x)
<1> DEFINE B == [i \in DOMAIN h |-> CodexItems(h[i])]
           F == FlattenSeq(B)
           n == Len(h)
<1>1. n \in Nat /\ DOMAIN h = 1 .. n /\ \A i \in 1 .. n : h[i] \in Message
  OBVIOUS
<1> HIDE DEF n
<1>2. \A i \in 1 .. n : B[i] = CodexItems(h[i]) /\ B[i] \in Seq(Message) /\ Len(B[i]) \in Nat
  BY <1>1, ItemsOf
<1>3. B \in Seq(Seq(Message)) /\ Len(B) = n
  <2>1. B = [i \in 1 .. n |-> B[i]]
    BY <1>1
  <2> HIDE DEF B
  <2>2. B \in [1 .. n -> Seq(Message)]
    BY <1>2, <2>1
  <2> QED BY <1>1, <2>2, SeqDef
<1>4. CodexMessages(h) = F
  BY DEF CodexMessages
<1> HIDE DEF B
<1>5. F \in Seq(Message) /\ \E o : IsOffsets(o, B, n, F)
  BY <1>3, FlattenOffsets
<1> HIDE DEF F
<1>6. PICK o : IsOffsets(o, B, n, F)
  BY <1>5
<1>7. /\ o \in [0 .. n -> Nat] /\ Len(F) = o[n]
      /\ \A i \in 1 .. n :
            /\ o[i] = o[i-1] + Len(B[i])
            /\ \A j \in 1 .. Len(B[i]) : F[o[i-1] + j] = B[i][j]
      /\ \A k \in 1 .. o[n] : \E i \in 1 .. n : k - o[i-1] \in 1 .. Len(B[i])
      /\ \A i, j \in 0 .. n : i <= j => o[i] <= o[j]
  BY <1>6 DEF IsOffsets
<1>8. \A i \in 1 .. n : /\ i \in 0 .. n /\ i - 1 \in 0 .. n
                        /\ o[i] \in Nat /\ o[i-1] \in Nat /\ o[i] <= Len(F) /\ Len(F) \in Nat
                        /\ o[i] = o[i-1] + Len(B[i]) /\ Len(B[i]) \in Nat
  <2>1. \A i \in 1 .. n : i \in 0 .. n /\ i - 1 \in 0 .. n /\ n \in 0 .. n /\ i <= n
    BY <1>1
  <2> QED BY <2>1, <1>2, <1>7
\* A message that is no answer is an item of its own.
<1>9. ASSUME NEW i \in 1 .. n, h[i].role # "assistant"
      PROVE  o[i] = o[i-1] + 1 /\ F[o[i]] = h[i]
  <2>1. B[i] = <<h[i]>> /\ Len(<<h[i]>>) = 1 /\ 1 .. 1 = {1} /\ <<h[i]>>[1] = h[i]
    BY <1>1, <1>2, <1>9, ItemsOf
  <2>2. o[i] = o[i-1] + 1 /\ F[o[i-1] + 1] = h[i]
    BY <2>1, <1>7
  <2> QED BY <2>2
\* The items of an answer.
<1>10. ASSUME NEW i \in 1 .. n, h[i].role = "assistant", NEW k \in o[i-1] + 1 .. o[i]
       PROVE  F[k].role = "assistant" /\ ToSet(F[k].ids) \subseteq ToSet(h[i].ids)
  <2> DEFINE p == k - o[i-1]
  <2>1. p \in 1 .. Len(B[i]) /\ o[i-1] + p = k
    BY <1>8
  <2> HIDE DEF p
  <2>2. F[k] = B[i][p]
    BY <2>1, <1>7
  <2>3. h[i] \in Message /\ B[i] = CodexItems(h[i])
    BY <1>1, <1>2
  <2>4. /\ CodexItems(h[i])[p].role = "assistant"
        /\ ToSet(CodexItems(h[i])[p].ids) \subseteq ToSet(h[i].ids)
    BY <2>1, <2>3, <1>10, ItemsOf
  <2> QED BY <2>2, <2>3, <2>4
<1>11. ASSUME NEW k \in 1 .. Len(F) PROVE \E i \in 1 .. n : k \in o[i-1] + 1 .. o[i]
  <2>1. PICK i \in 1 .. n : k - o[i-1] \in 1 .. Len(B[i])
    BY <1>7
  <2> QED BY <2>1, <1>8
<1>12. ASSUME NEW k \in 1 .. Len(F), F[k].role = "assistant", NEW x \in ToSet(F[k].ids),
              NEW e \in RunEnds(F, k), x \notin cut
       PROVE  Follows(F, Len(F), e, x)
  <2>1. PICK i \in 1 .. n : k \in o[i-1] + 1 .. o[i]
    BY <1>11
  <2>2. h[i].role = "assistant"
    <3>1. SUFFICES ASSUME h[i].role # "assistant" PROVE FALSE
      OBVIOUS
    <3>2. k = o[i] /\ F[k] = h[i]
      BY <2>1, <3>1, <1>8, <1>9
    <3> QED BY <3>1, <3>2, <1>12
  <2>3. x \in ToSet(h[i].ids)
    BY <2>1, <2>2, <1>10, <1>12
  <2>4. PICK j \in i + 1 .. n : (\A b \in i + 1 .. j : h[b].role = "tool") /\ x \in ToSet(h[j].ids)
    BY <2>2, <2>3, <1>12 DEF Explained, Follows, n
  <2>5. i + 1 \in 1 .. n /\ j \in 1 .. n /\ (i + 1) - 1 = i /\ h[i+1].role = "tool" /\ h[j].role = "tool"
    BY <2>4, <1>1
  <2>6. o[i+1] = o[i] + 1 /\ F[o[i+1]] = h[i+1] /\ o[i+1] \in 1 .. Len(F)
    BY <2>5, <1>8, <1>9
  <2>7. e = o[i]
    <3>1. /\ e \in k .. Len(F) /\ \A q \in k .. e : F[q].role = "assistant"
          /\ e = Len(F) \/ F[e+1].role # "assistant"
      BY DEF RunEnds
    <3>2. ~(e >= o[i] + 1)
      <4>1. SUFFICES ASSUME e >= o[i] + 1 PROVE FALSE
        OBVIOUS
      <4>2. o[i+1] \in k .. e
        BY <2>1, <2>6, <3>1, <4>1, <1>8
      <4> QED BY <4>2, <3>1, <2>5, <2>6
    <3>3. ~(e < o[i])
      <4>1. SUFFICES ASSUME e < o[i] PROVE FALSE
        OBVIOUS
      <4>2. e + 1 \in o[i-1] + 1 .. o[i] /\ e # Len(F)
        BY <2>1, <3>1, <4>1, <1>8
      <4> QED BY <4>2, <3>1, <2>2, <1>10
    <3> QED BY <3>1, <3>2, <3>3, <1>8
  <2>8. o[j] \in o[i] + 1 .. Len(F)
    <3>1. o[i+1] <= o[j]
      BY <2>4, <2>5, <1>7, <1>8
    <3> QED BY <3>1, <2>5, <2>6, <1>8
  <2>9. ASSUME NEW b \in o[i] + 1 .. o[j] PROVE F[b].role = "tool"
    <3>1. b \in 1 .. Len(F)
      BY <2>8, <1>8
    <3>2. PICK p \in 1 .. n : b \in o[p-1] + 1 .. o[p]
      BY <3>1, <1>11
    <3>7. o[p-1] \in Nat /\ o[p] \in Nat /\ o[i] \in Nat /\ o[j] \in Nat /\ b \in Nat
      BY <2>5, <3>1, <1>8
    <3>3. p > i
      <4>1. SUFFICES ASSUME p <= i PROVE FALSE
        BY <1>1
      <4>2. o[p] <= o[i]
        BY <4>1, <1>7, <1>8
      <4> QED BY <4>2, <3>2, <1>8
    <3>4. p <= j
      <4>1. SUFFICES ASSUME j <= p - 1 PROVE FALSE
        BY <1>1
      <4>2. o[j] <= o[p-1]
        BY <4>1, <2>5, <1>7, <1>8
      <4> QED BY <4>2, <3>2, <3>7
    <3>5. h[p].role = "tool"
      BY <2>4, <3>3, <3>4
    <3>6. b = o[p] /\ F[b] = h[p]
      <4>1. o[p] = o[p-1] + 1 /\ F[o[p]] = h[p]
        BY <3>5, <1>9
      <4> QED BY <4>1, <3>2, <3>7
    <3> QED BY <3>5, <3>6
  <2>10. x \in ToSet(F[o[j]].ids)
    BY <2>4, <2>5, <1>9
  <2> QED BY <2>7, <2>8, <2>9, <2>10 DEF Follows
<1>13. F \in Seq(Message)
  BY <1>5
<1> QED BY <1>4, <1>12, <1>13

LEMMA ExplainedByInvariant == IInv => UnansweredExplained
<1> SUFFICES ASSUME IInv, turn = "answering" PROVE UnansweredExplained
  BY DEF UnansweredExplained
<1>1. history \in Seq(Message) /\ client \in {"anthropic", "openai", "codex"}
  BY ClientsAssumption DEF IInv, TypeOK, StreamTypeOK
<1>2. Explained(history)
  BY DEF IInv, HistoryInv, Explained
<1> DEFINE request == Converted(history)
           end(k) == IF client = "codex"
                     THEN CHOOSE i \in k .. Len(request) :
                             /\ \A j \in k .. i : request[j].role = "assistant"
                             /\ i = Len(request) \/ request[i + 1].role # "assistant"
                     ELSE k
<1>3. request \in Seq(Message) /\ (client # "codex" => Explained(request))
  <2>1. CASE client = "anthropic"
    BY <1>1, <1>2, <2>1, AnthropicKeeps DEF Converted
  <2>2. CASE client = "openai"
    BY <1>1, <1>2, <2>2 DEF Converted
  <2>3. CASE client = "codex"
    BY <1>1, <1>2, <2>3, CodexKeeps DEF Converted
  <2> QED BY <1>1, <2>1, <2>2, <2>3
<1>4. client = "codex" => request = CodexMessages(history)
  BY DEF Converted
<1>5. Len(request) \in Nat /\ DOMAIN request = 1 .. Len(request)
  BY <1>3
<1> HIDE DEF request
<1>6. ASSUME NEW k \in 1 .. Len(request), request[k].role = "assistant", NEW x \in ToSet(request[k].ids)
      PROVE  x \in AnsweredAfter(request, end(k)) \cup cut
  <2>1. CASE client # "codex"
    <3>1. end(k) = k /\ k \in Nat
      BY <2>1
    <3>2. x \in cut \/ Follows(request, Len(request), k, x)
      BY <2>1, <1>3, <1>6 DEF Explained
    <3> QED BY <3>1, <3>2, <1>5, AfterFollows
  <2>2. CASE client = "codex"
    <3>1. end(k) \in RunEnds(request, k)
      <4>1. PICK e : e \in RunEnds(request, k)
        BY <1>5, <1>6, RunEnd
      <4> QED BY <4>1, <2>2 DEF RunEnds
    <3> DEFINE e == end(k)
    <3>2. e \in RunEnds(request, k)
      BY <3>1
    <3> HIDE DEF e
    <3>3. x \in cut \/ Follows(request, Len(request), e, x)
      BY <2>2, <3>2, <1>1, <1>2, <1>4, <1>6, CodexKeeps
    <3>4. e \in Nat
      <4>1. e \in k .. Len(request)
        BY <3>2 DEF RunEnds
      <4> QED BY <4>1, <1>5
    <3>5. x \in AnsweredAfter(request, e) \cup cut
      BY <3>3, <3>4, <1>5, AfterFollows
    <3> QED BY <3>5 DEF e
  <2> QED BY <2>1, <2>2
<1> QED BY <1>5, <1>6 DEF UnansweredExplained, request

(* Whatever the user did before, and whichever providers answered, every call   *)
(* the next provider is sent has its result right behind it, except the calls   *)
(* of a turn that was stopped or failed first.                                  *)
THEOREM UnansweredIsExplained == Spec => []UnansweredExplained
BY ExplainedByInvariant, InvariantHolds, PTL
================================================================================
