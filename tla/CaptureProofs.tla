---------------------------- MODULE CaptureProofs ----------------------------
(***************************************************************************)
(* Proofs about Capture, for every set of invocations, every number of     *)
(* sessions and reports and every limit: what a session counts was         *)
(* reported to it, disconnect() hands over what report() queued, and a     *)
(* preview is of entries that were shown.                                  *)
(***************************************************************************)
EXTENDS Capture, FiniteSetTheorems, TLAPS

\* A frame is on its way from the client's queue to the session's worker.
InSequence(s, S) == Cardinality({i \in DOMAIN s : s[i] \in S})
InHand(f, S) == IF f \in S THEN 1 ELSE 0
Flight(S) == InSequence(pending, S) + InHand(frame, S) + InSequence(backlog, S) + InHand(peer, S)

OfSession(s) == {f \in Frame : f.token = s}
Exactly(s, event) == {f \in Frame : f.token = s /\ f.event = event}

\* What is counted, or still may be, was queued; of this session, reported to
\* it: each frame is counted at most once.
CountedOnce ==
    /\ accepted + rejected + Flight(Frame) <= queued
    /\ \A event \in Invocation :
          /\ entries[event] + Flight(Exactly(secret, event)) <= reported[event]
          /\ reported[event] <= queued
    /\ accepted + Flight(OfSession(secret)) <= SumFunction(reported)

\* Tokens are those of sessions that were started.
Known(f) == f # <<>> => f.token <= issued
Issued ==
    /\ secret <= issued /\ token <= issued /\ shown.session <= issued
    /\ Known(frame) /\ Known(peer)
    /\ \A i \in DOMAIN pending : pending[i].token <= issued
    /\ \A i \in DOMAIN backlog : backlog[i].token <= issued

\* Who is where.
Places ==
    /\ handler # "none" => ~running
    /\ handler \in {"start", "open"} => issued < MaxSessions
    /\ handler = "open" => /\ worker = "none" /\ secret = NoSession
                           /\ entries = NoCounts /\ reported = NoCounts
                           /\ accepted = 0 /\ rejected = 0 /\ overflow = 0
    /\ running => secret # NoSession
    /\ peer # <<>> <=> worker = "peer"
    /\ frame # <<>> <=> sender = "send"
    /\ control = "off" <=> sender = "none"
    /\ control = "off" => pending = <<>>
    /\ control # "off" => endpoint \in Session /\ token \in Session
    /\ enabled => control = "on"
    /\ stopping => control \in {"off", "join"}
    /\ sender = "ended" => control = "join" /\ pending = <<>>

\* What the client has not handed over is of its connection, and is what is due.
Undelivered == Len(pending) + InHand(frame, Frame)
DueIsUndelivered ==
    /\ \A i \in DOMAIN pending : pending[i].token = token
    /\ frame # <<>> => frame.token = token
    /\ \A e, t \in Session :
          due[<<e, t>>] = IF e = endpoint /\ t = token THEN Undelivered ELSE 0

ShownIsRetained ==
    /\ shown.session # NoSession /\ shown.session = secret => shown.events \subseteq Retained
    /\ merged.shownIn = merged.of

IInv ==
    /\ TypeOK
    /\ CountsAddUp
    /\ CountedOnce
    /\ Issued
    /\ Places
    /\ DueIsUndelivered
    /\ ShownIsRetained

-----------------------------------------------------------------------------
(* SumFunction is a fold: the sum over a set is that over the set without   *)
(* the element that is chosen, plus its value.                              *)

Chosen(s) == CHOOSE x \in s : TRUE
IsSum(g, f, S) ==
  g = [s \in SUBSET S |-> IF s = {} THEN 0 ELSE f[Chosen(s)] + g[s \ {Chosen(s)}]]

\* A nonempty set of finite sets has a member with no other inside it.
LEMMA Minimal ==
  ASSUME NEW S, IsFiniteSet(S), NEW B, B \subseteq SUBSET S, B # {}
  PROVE  \E m \in B : \A u \in B : u \subseteq m => u = m
<1>1. IsWellFoundedOn(StrictSubsetOrdering(S), FiniteSubsetsOf(S))
  BY FS_StrictSubsetOrderingWellFounded
<1>2. B \subseteq FiniteSubsetsOf(S)
  BY FS_FiniteSubsetsOfFinite
<1>3. PICK m \in B : \A u \in B : ~(<<u, m>> \in StrictSubsetOrdering(S))
  BY <1>1, <1>2, WFMin, Zenon
<1>4. ASSUME NEW u \in B, u \subseteq m PROVE u = m
  BY <1>3, <1>4 DEF StrictSubsetOrdering
<1> QED
  BY <1>4

LEMMA ChosenIsIn == ASSUME NEW s, s # {} PROVE Chosen(s) \in s
BY DEF Chosen

LEMMA SumStep ==
  ASSUME NEW g, NEW f, NEW S, IsSum(g, f, S), NEW s \in SUBSET S
  PROVE  /\ s = {} => g[s] = 0
         /\ s # {} => g[s] = f[Chosen(s)] + g[s \ {Chosen(s)}]
BY DEF IsSum

\* Two folds of a function agree wherever both are defined.
LEMMA SumUnique ==
  ASSUME NEW f, NEW g, NEW h, NEW S, NEW T, IsFiniteSet(S),
         IsSum(g, f, S), IsSum(h, f, T), NEW U, U \subseteq S, U \subseteq T
  PROVE  g[U] = h[U]
<1> DEFINE B == {W \in SUBSET U : g[W] # h[W]}
<1>1. SUFFICES ASSUME B # {} PROVE FALSE
  OBVIOUS
<1>2. IsFiniteSet(U) /\ B \subseteq SUBSET U
  BY FS_Subset
<1>3. PICK m \in B : \A u \in B : u \subseteq m => u = m
  <2> HIDE DEF B
  <2> QED
    BY <1>1, <1>2, Minimal
<1>4. /\ m = {} => g[m] = 0 /\ h[m] = 0
      /\ m # {} => /\ g[m] = f[Chosen(m)] + g[m \ {Chosen(m)}]
                   /\ h[m] = f[Chosen(m)] + h[m \ {Chosen(m)}]
  BY SumStep
<1>5. m # {} /\ Chosen(m) \in m
  BY <1>4, ChosenIsIn
<1>6. m \ {Chosen(m)} \notin B
  BY <1>3, <1>5
<1>7. g[m \ {Chosen(m)}] = h[m \ {Chosen(m)}]
  BY <1>6
<1> QED
  BY <1>4, <1>5, <1>7

LEMMA SumExists ==
  ASSUME NEW f, NEW S, IsFiniteSet(S)
  PROVE  \E g : IsSum(g, f, S)
<1> DEFINE B == {W \in SUBSET S : ~ \E g : IsSum(g, f, W)}
<1>1. SUFFICES ASSUME B # {} PROVE FALSE
  OBVIOUS
<1>2. PICK m \in B : \A u \in B : u \subseteq m => u = m
  <2>1. B \subseteq SUBSET S
    OBVIOUS
  <2> HIDE DEF B
  <2> QED
    BY <1>1, <2>1, Minimal
<1> DEFINE p(u) == CHOOSE g : IsSum(g, f, u)
           less(s) == s \ {Chosen(s)}
           G == [s \in SUBSET m |-> IF s = {} THEN 0 ELSE f[Chosen(s)] + p(less(s))[less(s)]]
<1>3. ASSUME NEW u, u \subseteq m, u # m PROVE IsSum(p(u), f, u) /\ IsFiniteSet(u)
  <2>1. u \in SUBSET S /\ u \notin B
    BY <1>2, <1>3
  <2>2. \E g : IsSum(g, f, u)
    BY <2>1
  <2> QED
    BY <2>1, <2>2, FS_Subset
<1> HIDE DEF p
<1>4. ASSUME NEW s \in SUBSET m, s # {} PROVE G[less(s)] = p(less(s))[less(s)]
  <2> DEFINE u == less(s)
  <2>1. u \subseteq m /\ u # m
    BY <1>4, ChosenIsIn
  <2>2. IsSum(p(u), f, u)
    BY <1>3, <2>1
  <2>3. CASE u = {}
    <3>1. G[u] = 0
      BY <2>1, <2>3
    <3>2. p(u)[u] = 0
      BY <2>2, <2>3, SumStep
    <3> QED
      BY <3>1, <3>2
  <2>4. CASE u # {}
    <3> DEFINE v == less(u)
    <3>1. v \subseteq u /\ v \subseteq m /\ v # m
      BY <2>1, <2>4, ChosenIsIn
    <3>2. IsSum(p(v), f, v) /\ IsFiniteSet(v)
      BY <1>3, <3>1
    <3>3. p(u)[v] = p(v)[v]
      <4> HIDE DEF u, v
      <4> QED
        BY <2>2, <3>1, <3>2, SumUnique
    <3>4. p(u)[u] = f[Chosen(u)] + p(u)[v]
      <4>1. u \in SUBSET u
        OBVIOUS
      <4> HIDE DEF u
      <4> QED
        BY <2>2, <2>4, <4>1, SumStep
    <3>5. G[u] = f[Chosen(u)] + p(v)[v]
      BY <2>1, <2>4
    <3> QED
      BY <3>3, <3>4, <3>5
  <2> QED
    BY <2>3, <2>4
<1>5. \A s \in SUBSET m : G[s] = IF s = {} THEN 0 ELSE f[Chosen(s)] + G[s \ {Chosen(s)}]
  BY <1>4
<1>6. G = [s \in SUBSET m |-> G[s]]
  OBVIOUS
<1> HIDE DEF G
<1>7. G = [s \in SUBSET m |-> IF s = {} THEN 0 ELSE f[Chosen(s)] + G[s \ {Chosen(s)}]]
  BY <1>5, <1>6
<1>8. IsSum(G, f, m)
  BY <1>7 DEF IsSum
<1> QED
  BY <1>2, <1>8

\* What any fold of the values of f over its domain comes to.
LEMMA SumIs ==
  ASSUME NEW f, IsFiniteSet(DOMAIN f), NEW g, IsSum(g, f, DOMAIN f)
  PROVE  SumFunction(f) = g[DOMAIN f]
<1> DEFINE h == CHOOSE h : IsSum(h, f, DOMAIN f)
<1>1. SumFunction(f) = h[DOMAIN f]
  BY DEF SumFunction, SumFunctionOnSet, FoldFunctionOnSet, MapThenFoldSet, IsSum, Chosen
<1>2. IsSum(h, f, DOMAIN f)
  OBVIOUS
<1> HIDE DEF h
<1> QED
  BY <1>1, <1>2, SumUnique

\* Nothing sums up to zero, and one more to one more.
LEMMA SumOfNothing ==
  ASSUME NEW S, IsFiniteSet(S)
  PROVE  SumFunction([x \in S |-> 0]) = 0
<1> DEFINE f == [x \in S |-> 0]
           g == [s \in SUBSET S |-> 0]
<1>1. \A s \in SUBSET S : s # {} => f[Chosen(s)] = 0 /\ g[s \ {Chosen(s)}] = 0
  BY ChosenIsIn
<1>2. IsSum(g, f, S)
  BY <1>1 DEF IsSum
<1> QED
  BY <1>2, SumIs

LEMMA SumIsNat ==
  ASSUME NEW S, IsFiniteSet(S), NEW f \in [S -> Nat], NEW g, IsSum(g, f, S)
  PROVE  \A s \in SUBSET S : g[s] \in Nat
<1> DEFINE B == {s \in SUBSET S : g[s] \notin Nat}
<1>1. SUFFICES ASSUME B # {} PROVE FALSE
  OBVIOUS
<1>2. PICK m \in B : \A u \in B : u \subseteq m => u = m
  <2>1. B \subseteq SUBSET S
    OBVIOUS
  <2> HIDE DEF B
  <2> QED
    BY <1>1, <2>1, Minimal
<1>3. /\ m = {} => g[m] = 0
      /\ m # {} => g[m] = f[Chosen(m)] + g[m \ {Chosen(m)}]
  BY <1>2, SumStep
<1>4. m # {} /\ Chosen(m) \in m
  BY <1>2, <1>3, ChosenIsIn
<1>5. m \ {Chosen(m)} \notin B
  BY <1>2, <1>4
<1>6. g[m \ {Chosen(m)}] \in Nat /\ f[Chosen(m)] \in Nat
  BY <1>4, <1>5
<1> QED
  BY <1>2, <1>3, <1>4, <1>6

LEMMA SumIsANumber ==
  ASSUME NEW S, IsFiniteSet(S), NEW f \in [S -> Nat]
  PROVE  SumFunction(f) \in Nat
<1>1. PICK g : IsSum(g, f, S)
  BY SumExists
<1>2. g[S] \in Nat
  BY <1>1, SumIsNat
<1>3. SumFunction(f) = g[S]
  BY <1>1, SumIs
<1> QED
  BY <1>2, <1>3

LEMMA SumOfOneMore ==
  ASSUME NEW S, IsFiniteSet(S), NEW f \in [S -> Nat], NEW e \in S
  PROVE  SumFunction([f EXCEPT ![e] = @ + 1]) = SumFunction(f) + 1
<1>1. PICK g : IsSum(g, f, S)
  BY SumExists
<1>2. \A s \in SUBSET S : g[s] \in Nat
  BY <1>1, SumIsNat
<1> DEFINE k == [f EXCEPT ![e] = @ + 1]
           h == [s \in SUBSET S |-> g[s] + IF e \in s THEN 1 ELSE 0]
<1>3. ASSUME NEW s \in SUBSET S
      PROVE  h[s] = IF s = {} THEN 0 ELSE k[Chosen(s)] + h[s \ {Chosen(s)}]
  <2>1. CASE s = {}
    <3>1. g[s] = 0
      BY <1>1, <2>1, SumStep
    <3> QED
      BY <2>1, <3>1
  <2>2. CASE s # {}
    <3>1. Chosen(s) \in s /\ g[s] = f[Chosen(s)] + g[s \ {Chosen(s)}]
      BY <1>1, <2>2, SumStep, ChosenIsIn
    <3>2. f[Chosen(s)] \in Nat /\ g[s] \in Nat /\ g[s \ {Chosen(s)}] \in Nat
      BY <1>2, <3>1
    <3>3. k[Chosen(s)] = f[Chosen(s)] + IF Chosen(s) = e THEN 1 ELSE 0
      BY <3>1
    <3>4. h[s \ {Chosen(s)}] = g[s \ {Chosen(s)}]
                                + IF e \in s /\ Chosen(s) # e THEN 1 ELSE 0
      BY <3>1
    <3>5. h[s] = g[s] + IF e \in s THEN 1 ELSE 0
      OBVIOUS
    <3> HIDE DEF h, k
    <3> QED
      BY <2>2, <3>1, <3>2, <3>3, <3>4, <3>5
  <2> QED
    BY <2>1, <2>2
<1>4. h = [s \in SUBSET S |-> h[s]]
  OBVIOUS
<1>5. DOMAIN k = S /\ DOMAIN f = S
  OBVIOUS
<1>6. h[S] = g[S] + 1 /\ g[S] \in Nat
  BY <1>2
<1> HIDE DEF h, k
<1>7. h = [s \in SUBSET S |-> IF s = {} THEN 0 ELSE k[Chosen(s)] + h[s \ {Chosen(s)}]]
  BY <1>3, <1>4
<1>8. IsSum(h, k, S)
  BY <1>7 DEF IsSum
<1>9. SumFunction(k) = h[S] /\ SumFunction(f) = g[S]
  BY <1>1, <1>5, <1>8, SumIs
<1> QED
  BY <1>6, <1>9 DEF k

-----------------------------------------------------------------------------
(* How often frames of a set are in a sequence.                             *)

LEMMA InSequenceIsNat ==
  ASSUME NEW T, NEW s \in Seq(T), NEW S
  PROVE  /\ IsFiniteSet({i \in DOMAIN s : s[i] \in S})
         /\ InSequence(s, S) \in Nat
<1>1. DOMAIN s = 1 .. Len(s) /\ Len(s) \in Nat
  OBVIOUS
<1>2. IsFiniteSet(DOMAIN s)
  BY <1>1, FS_Interval
<1> QED
  BY <1>2, FS_Subset, FS_CardinalityType DEF InSequence

LEMMA NoneInSequence ==
  ASSUME NEW T, NEW s \in Seq(T), NEW S, \A i \in DOMAIN s : s[i] \notin S
  PROVE  InSequence(s, S) = 0
BY FS_EmptySet DEF InSequence

LEMMA AllInSequence ==
  ASSUME NEW T, NEW s \in Seq(T)
  PROVE  InSequence(s, T) = Len(s)
<1>1. DOMAIN s = 1 .. Len(s) /\ Len(s) \in Nat
  OBVIOUS
<1>2. {i \in DOMAIN s : s[i] \in T} = 1 .. Len(s)
  BY <1>1
<1>3. Cardinality(1 .. Len(s)) = Len(s)
  <2>1. Cardinality(1 .. Len(s)) = IF 1 > Len(s) THEN 0 ELSE Len(s) - 1 + 1
    BY <1>1, FS_Interval
  <2> QED
    BY <1>1, <2>1
<1> QED
  BY <1>2, <1>3 DEF InSequence

LEMMA AppendInSequence ==
  ASSUME NEW T, NEW s \in Seq(T), NEW x \in T, NEW S
  PROVE  /\ Append(s, x) \in Seq(T)
         /\ InSequence(Append(s, x), S) = InSequence(s, S) + InHand(x, S)
<1> DEFINE a == Append(s, x)
           I == {i \in DOMAIN s : s[i] \in S}
           J == {i \in DOMAIN a : a[i] \in S}
           n == Len(s) + 1
<1>1. /\ a \in Seq(T) /\ DOMAIN s = 1 .. Len(s) /\ DOMAIN a = 1 .. n
      /\ Len(s) \in Nat
      /\ \A i \in DOMAIN s : a[i] = s[i]
      /\ a[n] = x
  OBVIOUS
<1>2. IsFiniteSet(I) /\ Cardinality(I) \in Nat /\ n \notin I
  <2>1. IsFiniteSet(I)
    BY InSequenceIsNat
  <2> QED
    BY <1>1, <2>1, FS_CardinalityType
<1> HIDE DEF a
<1>3. CASE x \in S
  <2>1. J = I \cup {n}
    BY <1>1, <1>3
  <2> HIDE DEF I, n
  <2>2. Cardinality(J) = Cardinality(I) + 1
    BY <1>2, <2>1, FS_AddElement
  <2> QED
    BY <1>1, <1>3, <2>2 DEF InSequence, InHand, a, I
<1>4. CASE x \notin S
  <2>1. J = I
    BY <1>1, <1>4
  <2> HIDE DEF I
  <2>2. InSequence(a, S) = Cardinality(I)
    BY <2>1 DEF InSequence
  <2>3. InSequence(s, S) = Cardinality(I)
    BY DEF InSequence, I
  <2> HIDE DEF J, n
  <2> QED
    BY <1>2, <1>4, <2>2, <2>3 DEF InHand, a
<1> QED
  BY <1>3, <1>4

LEMMA TailInSequence ==
  ASSUME NEW T, NEW s \in Seq(T), s # <<>>, NEW S
  PROVE  /\ Tail(s) \in Seq(T) /\ Head(s) \in T
         /\ InSequence(s, S) = InSequence(Tail(s), S) + InHand(Head(s), S)
<1> DEFINE t == Tail(s)
           I == {i \in DOMAIN s : s[i] \in S}
           J == {i \in DOMAIN t : t[i] \in S}
<1>1. /\ t \in Seq(T) /\ Len(s) \in Nat /\ Len(s) >= 1
      /\ DOMAIN s = 1 .. Len(s) /\ DOMAIN t = 1 .. Len(s) - 1
      /\ \A i \in DOMAIN t : t[i] = s[i + 1]
      /\ Head(s) = s[1] /\ s[1] \in T
  OBVIOUS
<1>2. IsFiniteSet(J) /\ IsFiniteSet(I) /\ IsFiniteSet(I \ {1})
  <2>1. IsFiniteSet(J)
    BY <1>1, InSequenceIsNat
  <2>2. IsFiniteSet(I)
    BY InSequenceIsNat
  <2> HIDE DEF I
  <2> QED
    BY <2>1, <2>2, FS_RemoveElement
<1> HIDE DEF t
<1>3. Cardinality(I \ {1}) = Cardinality(J)
  <2> DEFINE next == [i \in J |-> i + 1]
  <2>1. ASSUME NEW i \in I \ {1} PROVE i - 1 \in J /\ next[i - 1] = i
    <3>1. i \in 2 .. Len(s) /\ i - 1 \in DOMAIN t /\ t[i - 1] = s[i]
      BY <1>1, <2>1
    <3> QED
      BY <3>1, <2>1
  <2>2. next \in [J -> I \ {1}]
    BY <1>1
  <2>3. \A i, j \in J : next[i] = next[j] => i = j
    BY <1>1
  <2> HIDE DEF next, I, J
  <2>4. next \in Bijection(J, I \ {1})
    BY <2>1, <2>2, <2>3 DEF Bijection, Injection, Surjection, IsInjective
  <2> QED
    BY <1>2, <2>4, FS_Bijection DEF ExistsBijection
<1>4. Cardinality(J) \in Nat
  BY <1>2, FS_CardinalityType
<1>5. Cardinality(I) = Cardinality(I \ {1}) + InHand(Head(s), S)
  <2>1. Cardinality(I \ {1}) = IF 1 \in I THEN Cardinality(I) - 1 ELSE Cardinality(I)
    BY <1>2, FS_RemoveElement
  <2>2. 1 \in I <=> Head(s) \in S
    BY <1>1
  <2>3. Cardinality(I) \in Nat
    BY <1>2, FS_CardinalityType
  <2> HIDE DEF I
  <2> QED
    BY <2>1, <2>2, <2>3 DEF InHand
<1> QED
  BY <1>1, <1>3, <1>4, <1>5 DEF InSequence, t

-----------------------------------------------------------------------------
(* What is in flight.                                                       *)

LEMMA FrameFacts ==
  /\ <<>> \notin Frame
  /\ \A S \in SUBSET Frame : InHand(<<>>, S) = 0
  /\ \A f, S : InHand(f, S) \in {0, 1}
  /\ \A f \in Frame : InHand(f, Frame) = 1
<1>1. \A f \in Frame : DOMAIN f = {"token", "event"}
  BY DEF Frame
<1>2. DOMAIN <<>> = {}
  OBVIOUS
<1>3. <<>> \notin Frame
  BY <1>1, <1>2
<1> QED
  BY <1>3 DEF InHand

LEMMA FlightIsNat ==
  ASSUME TypeOK, NEW S
  PROVE  /\ InSequence(pending, S) \in Nat /\ InSequence(backlog, S) \in Nat
         /\ Flight(S) \in Nat
<1>1. InSequence(pending, S) \in Nat /\ InSequence(backlog, S) \in Nat
  BY InSequenceIsNat DEF TypeOK
<1>2. InHand(frame, S) \in Nat /\ InHand(peer, S) \in Nat
  BY FrameFacts
<1> QED
  BY <1>1, <1>2 DEF Flight

\* Nothing enters: whatever the frames, no more of them are in flight.
NothingEnters == \A S \in SUBSET Frame : Flight(S)' \in Nat /\ Flight(S)' <= Flight(S)

LEMMA FlightStays ==
  ASSUME TypeOK, UNCHANGED <<pending, frame, backlog, peer>>
  PROVE  NothingEnters
<1> SUFFICES ASSUME NEW S PROVE Flight(S)' = Flight(S) /\ Flight(S) \in Nat
  BY DEF NothingEnters
<1> QED
  BY FlightIsNat DEF Flight

LEMMA LenIsNat == \A T : \A s \in Seq(T) : Len(s) \in Nat
OBVIOUS

LEMMA SubsetsOfFrame ==
  /\ Frame \in SUBSET Frame
  /\ \A s, event : Exactly(s, event) \in SUBSET Frame
  /\ \A s : OfSession(s) \in SUBSET Frame
BY DEF Exactly, OfSession

LEMMA CountsStay ==
  ASSUME IInv, UNCHANGED <<countVars, secret, reported>>, NothingEnters,
         queued' \in Nat, queued' >= queued
  PROVE  CountsAddUp' /\ CountedOnce' /\ Retained' = Retained
<1>1. UNCHANGED <<entries, accepted, rejected, overflow>>
  BY DEF countVars
<1>2. CountsAddUp' /\ Retained' = Retained
  BY <1>1 DEF IInv, CountsAddUp, Retained
<1>3. /\ queued \in Nat /\ accepted \in Nat /\ rejected \in Nat
      /\ \A event \in Invocation : entries[event] \in Nat /\ reported[event] \in Nat
  BY CaptureAssumption DEF IInv, TypeOK
<1>4. \A S \in SUBSET Frame : /\ Flight(S) \in Nat /\ Flight(S)' \in Nat
                              /\ Flight(S)' <= Flight(S)
  BY FlightIsNat DEF IInv, NothingEnters
<1>5. accepted + rejected + Flight(Frame)' <= queued'
  BY <1>3, <1>4, SubsetsOfFrame DEF IInv, CountedOnce
<1>6. ASSUME NEW event \in Invocation
      PROVE  /\ entries[event] + Flight(Exactly(secret, event))' <= reported[event]
             /\ reported[event] <= queued'
  <2>1. /\ entries[event] + Flight(Exactly(secret, event)) <= reported[event]
        /\ reported[event] <= queued
    BY DEF IInv, CountedOnce
  <2>2. LET S == Exactly(secret, event) IN
        Flight(S)' <= Flight(S) /\ Flight(S)' \in Nat /\ Flight(S) \in Nat
    BY <1>4, SubsetsOfFrame
  <2>3. Flight(Exactly(secret, event))' <= Flight(Exactly(secret, event))
        /\ Flight(Exactly(secret, event))' \in Nat /\ Flight(Exactly(secret, event)) \in Nat
    BY <2>2 DEF Exactly
  <2> QED
    BY <1>3, <2>1, <2>3
<1>7. accepted + Flight(OfSession(secret))' <= SumFunction(reported)
  <2>1. reported \in [Invocation -> Nat]
    BY CaptureAssumption DEF IInv, TypeOK
  <2>2. SumFunction(reported) \in Nat
    BY <2>1, SumIsANumber, CaptureAssumption
  <2>3. accepted + Flight(OfSession(secret)) <= SumFunction(reported)
    BY DEF IInv, CountedOnce
  <2>4. LET S == OfSession(secret) IN
        Flight(S)' <= Flight(S) /\ Flight(S)' \in Nat /\ Flight(S) \in Nat
    BY <1>4, SubsetsOfFrame
  <2> QED
    BY <1>3, <2>2, <2>3, <2>4
<1>8. CountedOnce'
  BY <1>1, <1>5, <1>6, <1>7 DEF CountedOnce
<1> QED
  BY <1>2, <1>8

-----------------------------------------------------------------------------
(* The parts of the type invariant.                                         *)

ServerTypes ==
    /\ up \in BOOLEAN /\ handler \in {"none", "start", "stop", "shutdown", "open"}
    /\ running \in BOOLEAN
    /\ secret \in Session \cup {NoSession} /\ issued \in Session \cup {NoSession}
    /\ listener \in Session \cup {NoSession}
    /\ worker \in {"none", "loop", "poll", "peer", "reply", "ended"}
    /\ shown \in [session: Session \cup {NoSession}, events: SUBSET Invocation]
    /\ merged \in [shownIn: Session \cup {NoSession}, of: Session \cup {NoSession}]

ClientTypes ==
    /\ enabled \in BOOLEAN /\ stopping \in BOOLEAN
    /\ endpoint \in Session \cup {NoSession} /\ token \in Session \cup {NoSession}
    /\ control \in {"off", "on", "disabled", "join"}
    /\ sender \in {"none", "wait", "send", "await", "ended"}
    /\ reporter \in {"idle", "checked"}

FrameTypes ==
    /\ backlog \in Seq(Frame) /\ Len(backlog) <= Backlog
    /\ pending \in Seq(Frame) /\ Len(pending) <= PendingLimit
    /\ peer \in {<<>>} \cup Frame /\ frame \in {<<>>} \cup Frame

CountTypes ==
    /\ entries \in [Invocation -> 0..MaxReports] /\ Cardinality(Retained) <= EntryLimit
    /\ accepted \in 0..MaxReports /\ rejected \in 0..MaxReports
    /\ overflow \in 0..MaxReports /\ queued \in 0..MaxReports
    /\ reported \in [Invocation -> 0..MaxReports]
    /\ due \in [Session \X Session -> Int]

LEMMA TypeParts == TypeOK <=> ServerTypes /\ ClientTypes /\ FrameTypes /\ CountTypes
<1>1. TypeOK => ServerTypes /\ ClientTypes /\ FrameTypes /\ CountTypes
  BY DEF TypeOK, ServerTypes, ClientTypes, FrameTypes, CountTypes
<1>2. ServerTypes /\ ClientTypes /\ FrameTypes /\ CountTypes => TypeOK
  BY DEF TypeOK, ServerTypes, ClientTypes, FrameTypes, CountTypes
<1> QED
  BY <1>1, <1>2

LEMMA TypePartsNext ==
  ServerTypes' /\ ClientTypes' /\ FrameTypes' /\ CountTypes' => TypeOK'
BY DEF TypeOK, ServerTypes, ClientTypes, FrameTypes, CountTypes, Retained

-----------------------------------------------------------------------------
LEMMA InitCapture == Init => IInv
<1> SUFFICES ASSUME Init PROVE IInv
  OBVIOUS
<1>1. Retained = {} /\ Cardinality(Retained) = 0
  BY FS_EmptySet DEF Init, Retained, NoCounts
<1>2. TypeOK
  <2>1. ServerTypes /\ ClientTypes
    BY DEF Init, ServerTypes, ClientTypes, NoSession
  <2>2. FrameTypes
    BY CaptureAssumption DEF Init, FrameTypes
  <2>3. CountTypes
    BY <1>1, CaptureAssumption DEF Init, CountTypes, NoCounts, NothingDue
  <2> QED
    BY <2>1, <2>2, <2>3, TypeParts
<1>3. SumFunction(NoCounts) = 0
  BY SumOfNothing, CaptureAssumption DEF NoCounts
<1>4. CountsAddUp
  BY <1>3 DEF Init, CountsAddUp
<1>5. ASSUME NEW S \in SUBSET Frame PROVE Flight(S) = 0
  <2>1. InSequence(<<>>, S) = 0
    BY FS_EmptySet DEF InSequence
  <2> QED
    BY <2>1, FrameFacts DEF Init, Flight
<1>6. CountedOnce
  <2>1. Flight(Frame) = 0 /\ Flight(OfSession(secret)) = 0
    BY <1>5, SubsetsOfFrame
  <2>2. \A event \in Invocation : Flight(Exactly(secret, event)) = 0
    BY <1>5, SubsetsOfFrame
  <2> QED
    BY <1>3, <2>1, <2>2 DEF Init, CountedOnce, NoCounts
<1>7. Issued
  BY DEF Init, Issued, Known, NoSession
<1>8. Places
  BY DEF Init, Places, NoSession
<1>9. DueIsUndelivered
  <2>1. Undelivered = 0
    BY FrameFacts DEF Init, Undelivered
  <2> QED
    BY <2>1 DEF Init, DueIsUndelivered, NothingDue
<1>10. ShownIsRetained
  BY DEF Init, ShownIsRetained, NoSession
<1> QED
  BY <1>2, <1>4, <1>6, <1>7, <1>8, <1>9, <1>10 DEF IInv

-----------------------------------------------------------------------------
(* Requests and threads that move no frame.                                 *)

LEMMA QuietKeeps ==
  ASSUME IInv,
         \/ RequestStart \/ RequestStop \/ RequestShutdown \/ Snapshot \/ Preview \/ OpenFails
         \/ Loop \/ Reply \/ Connect \/ Disable \/ StopSending \/ JoinSender
         \/ BeginReport \/ EndAwait
  PROVE  IInv'
<1> USE DEF serverVars, countVars, editorVars, sessionVars, clientVars, ghostVars
<1>1. /\ UNCHANGED <<countVars, secret, issued, peer, backlog, pending, frame, ghostVars>>
  BY DEF RequestStart, RequestStop, RequestShutdown, BeginStop, Snapshot, Preview, OpenFails,
         Loop, Reply, Connect, Disable, StopSending, JoinSender, BeginReport, EndAwait,
         WorkerUnchanged, HostUnchanged
<1>2. NothingEnters
  BY <1>1, FlightStays DEF IInv
<1>3. queued' \in Nat /\ queued' >= queued
  BY <1>1 DEF IInv, TypeOK
<1>4. CountsAddUp' /\ CountedOnce' /\ Retained' = Retained
  BY <1>1, <1>2, <1>3, CountsStay
<1>5. TypeOK'
  <2>1. ServerTypes /\ ClientTypes /\ FrameTypes /\ CountTypes
    BY TypeParts DEF IInv
  <2>2. FrameTypes' /\ CountTypes'
    BY <1>1, <1>4, <2>1 DEF FrameTypes, CountTypes
  <2>3. ServerTypes'
    <3>1. CASE RequestStart \/ RequestStop \/ RequestShutdown \/ OpenFails \/ Loop \/ Reply
      BY <1>1, <2>1, <3>1
         DEF ServerTypes, RequestStart, RequestStop, RequestShutdown, BeginStop, OpenFails, Loop,
             Reply, WorkerUnchanged
    <3>2. CASE Snapshot
      <4>1. Identifier \in Session \cup {NoSession} /\ Retained \in SUBSET Invocation
        BY <2>1 DEF ServerTypes, Identifier, Retained
      <4> QED
        BY <1>1, <2>1, <3>2, <4>1 DEF ServerTypes, Snapshot
    <3>3. CASE Preview
      BY <1>1, <2>1, <3>3 DEF ServerTypes, Preview
    <3>4. CASE Connect \/ Disable \/ StopSending \/ JoinSender \/ BeginReport \/ EndAwait
      BY <1>1, <2>1, <3>4 DEF ServerTypes, Connect, Disable, StopSending, JoinSender, BeginReport,
                              EndAwait, HostUnchanged
    <3> QED
      BY <3>1, <3>2, <3>3, <3>4
  <2>4. ClientTypes'
    <3>1. CASE Connect
      <4>1. endpoint' \in Session /\ token' \in Session
        BY <2>1, <3>1, CaptureAssumption DEF Connect, ServerTypes, Session, NoSession
      <4> QED
        BY <1>1, <2>1, <3>1, <4>1 DEF ClientTypes, Connect
    <3>2. CASE Disable \/ StopSending \/ JoinSender \/ BeginReport \/ EndAwait
      BY <2>1, <3>2 DEF ClientTypes, Disable, StopSending, JoinSender, BeginReport, EndAwait
    <3>3. CASE \/ RequestStart \/ RequestStop \/ RequestShutdown \/ Snapshot \/ Preview
               \/ OpenFails \/ Loop \/ Reply
      BY <2>1, <3>3
         DEF ClientTypes, RequestStart, RequestStop, RequestShutdown, BeginStop, Snapshot, Preview,
             OpenFails, Loop, Reply, WorkerUnchanged
    <3> QED
      BY <3>1, <3>2, <3>3
  <2> QED
    BY <2>2, <2>3, <2>4, TypePartsNext
<1>6. Issued'
  <2>1. CASE Snapshot
    BY <1>1, <2>1, CaptureAssumption DEF IInv, TypeOK, Issued, Known, Snapshot, Identifier, NoSession, Session
  <2>2. CASE Connect
    BY <1>1, <2>2 DEF IInv, Issued, Known, Connect, HostUnchanged
  <2>3. CASE ~Snapshot /\ ~Connect
    <3>1. shown'.session = shown.session /\ (token' = token \/ token' = NoSession)
      BY <2>3 DEF RequestStart, RequestStop, RequestShutdown, BeginStop, Preview,
         OpenFails, Loop, Reply, Disable, StopSending, JoinSender, BeginReport, EndAwait,
         WorkerUnchanged, HostUnchanged
    <3> QED
      BY <1>1, <3>1, CaptureAssumption DEF IInv, TypeOK, Issued, Known, NoSession, Session
  <2> QED
    BY <2>1, <2>2, <2>3
<1>7. Places'
  <2>1. CASE RequestStart \/ RequestStop \/ RequestShutdown \/ OpenFails \/ Loop \/ Reply
              \/ Snapshot \/ Preview
    BY <1>1, <2>1
       DEF IInv, Places, RequestStart, RequestStop, RequestShutdown, BeginStop, OpenFails, Loop,
           Reply, WorkerUnchanged, Snapshot, Preview
  <2>2. CASE Connect
    BY <1>1, <2>2, CaptureAssumption DEF Connect, IInv, TypeOK, Session, NoSession, Places, HostUnchanged
  <2>3. CASE Disable \/ StopSending \/ JoinSender \/ BeginReport \/ EndAwait
    BY <1>1, <2>3 DEF IInv, Places, Disable, StopSending, JoinSender, BeginReport, EndAwait,
                      HostUnchanged
  <2> QED
    BY <2>1, <2>2, <2>3
<1>8. DueIsUndelivered'
  <2>1. Undelivered' = Undelivered
    BY <1>1 DEF Undelivered
  <2>2. CASE Connect \/ JoinSender
    <3>1. pending = <<>> /\ frame = <<>>
      BY <2>2 DEF Connect, JoinSender, IInv, Places
    <3>2. Undelivered = 0
      BY <3>1, FrameFacts DEF Undelivered
    <3> QED
      BY <1>1, <2>1, <3>1, <3>2 DEF IInv, DueIsUndelivered
  <2>3. CASE ~Connect /\ ~JoinSender
    <3>1. UNCHANGED <<endpoint, token>>
      BY <2>3 DEF RequestStart, RequestStop, RequestShutdown, BeginStop, Preview,
         OpenFails, Loop, Reply, Disable, StopSending, BeginReport, EndAwait, Snapshot,
         WorkerUnchanged, HostUnchanged
    <3> QED
      BY <1>1, <2>1, <3>1 DEF IInv, DueIsUndelivered
  <2> QED
    BY <2>2, <2>3
<1>9. ShownIsRetained'
  <2>1. CASE Snapshot
    BY <1>1, <1>4, <2>1 DEF IInv, ShownIsRetained, Snapshot, Identifier
  <2>2. CASE Preview
    BY <1>1, <1>4, <2>2 DEF IInv, ShownIsRetained, Preview, SessionIsCurrent
  <2>3. CASE ~Snapshot /\ ~Preview
    <3>1. UNCHANGED <<shown, merged>>
      BY <2>3 DEF RequestStart, RequestStop, RequestShutdown, BeginStop,
         OpenFails, Loop, Reply, Connect, JoinSender, Disable, StopSending, BeginReport, EndAwait,
         WorkerUnchanged, HostUnchanged
    <3> QED
      BY <1>1, <1>4, <3>1 DEF IInv, ShownIsRetained
  <2> QED
    BY <2>1, <2>2, <2>3
<1> QED
  BY <1>4, <1>5, <1>6, <1>7, <1>8, <1>9 DEF IInv

-----------------------------------------------------------------------------
(* Frames move, and some are lost.                                          *)

LEMMA MovesEnterNothing ==
  ASSUME IInv, PollTimesOut \/ Accept \/ PipeFails \/ Take \/ Transmit \/ TransmitFails \/ HostDies
  PROVE  NothingEnters
<1> USE DEF serverVars, countVars, editorVars, sessionVars, clientVars, ghostVars
<1> SUFFICES ASSUME NEW S \in SUBSET Frame
             PROVE  Flight(S)' \in Nat /\ Flight(S)' <= Flight(S)
  BY DEF NothingEnters
<1> DEFINE P == InSequence(pending, S)
           B == InSequence(backlog, S)
<1>1. /\ P \in Nat /\ B \in Nat
      /\ Flight(S) = P + InHand(frame, S) + B + InHand(peer, S)
      /\ InHand(frame, S) \in {0, 1} /\ InHand(peer, S) \in {0, 1}
  BY FlightIsNat, FrameFacts DEF IInv, Flight
<1>2. /\ pending \in Seq(Frame) /\ backlog \in Seq(Frame)
      /\ peer \in {<<>>} \cup Frame /\ frame \in {<<>>} \cup Frame
  BY DEF IInv, TypeOK
<1>3. pending # <<>> => P = InSequence(Tail(pending), S) + InHand(Head(pending), S)
  BY <1>2, TailInSequence
<1>4. backlog # <<>> => B = InSequence(Tail(backlog), S) + InHand(Head(backlog), S)
  BY <1>2, TailInSequence
<1>5. /\ pending # <<>> => InSequence(Tail(pending), S) \in Nat
      /\ backlog # <<>> => InSequence(Tail(backlog), S) \in Nat
  <2>1. /\ pending # <<>> => Tail(pending) \in Seq(Frame)
        /\ backlog # <<>> => Tail(backlog) \in Seq(Frame)
    BY <1>2
  <2> QED
    BY <2>1, InSequenceIsNat
<1>6. InSequence(<<>>, S) = 0 /\ InHand(<<>>, S) = 0 /\ \A f : InHand(f, S) \in {0, 1}
  BY FS_EmptySet, FrameFacts DEF InSequence
<1>7. Flight(S)' = InSequence(pending', S) + InHand(frame', S) + InSequence(backlog', S)
                    + InHand(peer', S)
  BY DEF Flight
<1>8. CASE PollTimesOut
  <2>1. /\ UNCHANGED <<pending, frame, peer>>
        /\ backlog' = backlog \/ (backlog # <<>> /\ backlog' = Tail(backlog))
    BY <1>8 DEF PollTimesOut, WorkerUnchanged
  <2>2. CASE backlog' = backlog
    BY <1>1, <1>7, <2>1, <2>2
  <2>3. CASE backlog # <<>> /\ backlog' = Tail(backlog)
    BY <1>1, <1>4, <1>5, <1>6, <1>7, <2>1, <2>3
  <2> QED
    BY <2>1, <2>2, <2>3
<1>9. CASE Accept
  <2>1. /\ UNCHANGED <<pending, frame>>
        /\ backlog # <<>> /\ backlog' = Tail(backlog) /\ peer' = Head(backlog)
    BY <1>9 DEF Accept, WorkerUnchanged
  <2> QED
    BY <1>1, <1>4, <1>5, <1>6, <1>7, <2>1
<1>10. CASE PipeFails
  <2>1. UNCHANGED <<pending, frame, peer>> /\ backlog' = <<>>
    BY <1>10 DEF PipeFails, WorkerUnchanged
  <2> QED
    BY <1>1, <1>6, <1>7, <2>1
<1>11. CASE Take
  <2>1. UNCHANGED <<backlog, peer>>
    BY <1>11 DEF Take, HostUnchanged
  <2>2. CASE UNCHANGED <<pending, frame>>
    BY <1>1, <1>7, <2>1, <2>2
  <2>3. CASE ~UNCHANGED <<pending, frame>>
    <3>1. pending # <<>> /\ pending' = Tail(pending) /\ frame' = Head(pending)
      BY <1>11, <2>3 DEF Take, Ends, Woken
    <3> QED
      BY <1>1, <1>3, <1>5, <1>6, <1>7, <2>1, <3>1
  <2> QED
    BY <2>2, <2>3
<1>12. CASE Transmit
  <2>1. /\ UNCHANGED <<pending, peer>> /\ sender = "send"
        /\ backlog' = Append(backlog, frame) /\ frame' = <<>>
    BY <1>12 DEF Transmit, HostUnchanged
  <2>2. frame \in Frame
    BY <1>2, <2>1 DEF IInv, Places
  <2>3. InSequence(backlog', S) = B + InHand(frame, S)
    BY <1>2, <2>1, <2>2, AppendInSequence
  <2> QED
    BY <1>1, <1>6, <1>7, <2>1, <2>3
<1>13. CASE TransmitFails
  <2>1. UNCHANGED <<pending, backlog, peer>> /\ frame' = <<>>
    BY <1>13 DEF TransmitFails, HostUnchanged
  <2> QED
    BY <1>1, <1>6, <1>7, <2>1
<1>14. CASE HostDies
  <2>1. UNCHANGED <<backlog, peer>> /\ pending' = <<>> /\ frame' = <<>>
    BY <1>14 DEF HostDies, HostUnchanged
  <2> QED
    BY <1>1, <1>6, <1>7, <2>1
<1> QED
  BY <1>8, <1>9, <1>10, <1>11, <1>12, <1>13, <1>14

LEMMA MovesKeep ==
  ASSUME IInv, PollTimesOut \/ Accept \/ PipeFails \/ Take \/ Transmit \/ TransmitFails \/ HostDies
  PROVE  IInv'
<1> USE DEF serverVars, countVars, editorVars, sessionVars, clientVars, ghostVars
<1>1. UNCHANGED <<countVars, secret, issued, reported, queued, shown, merged, handler, up>>
  BY DEF PollTimesOut, Accept, PipeFails, Take, Transmit, TransmitFails, HostDies,
         WorkerUnchanged, HostUnchanged
<1>2. NothingEnters
  BY MovesEnterNothing
<1>3. queued' \in Nat /\ queued' >= queued
  BY <1>1 DEF IInv, TypeOK
<1>4. CountsAddUp' /\ CountedOnce' /\ Retained' = Retained
  BY <1>1, <1>2, <1>3, CountsStay
<1>5. ServerTypes /\ ClientTypes /\ FrameTypes /\ CountTypes
  BY TypeParts DEF IInv
<1>6. /\ pending # <<>> => /\ Tail(pending) \in Seq(Frame) /\ Head(pending) \in Frame
                           /\ Len(Tail(pending)) = Len(pending) - 1
                           /\ Head(pending) = pending[1] /\ 1 \in DOMAIN pending
                           /\ \A i \in DOMAIN Tail(pending) :
                                Tail(pending)[i] = pending[i + 1] /\ i + 1 \in DOMAIN pending
      /\ backlog # <<>> => /\ Tail(backlog) \in Seq(Frame) /\ Head(backlog) \in Frame
                           /\ Len(Tail(backlog)) = Len(backlog) - 1
                           /\ Head(backlog) = backlog[1] /\ 1 \in DOMAIN backlog
                           /\ \A i \in DOMAIN Tail(backlog) :
                                Tail(backlog)[i] = backlog[i + 1] /\ i + 1 \in DOMAIN backlog
  BY <1>5 DEF FrameTypes
<1>13. /\ Len(pending) \in Nat /\ Len(backlog) \in Nat
       /\ Backlog \in Nat \ {0} /\ PendingLimit \in Nat \ {0}
       /\ Len(pending) <= PendingLimit /\ Len(backlog) <= Backlog
  BY <1>5, LenIsNat, CaptureAssumption DEF FrameTypes
<1>7. ASSUME UNCHANGED <<control, enabled, stopping, pending, endpoint, token, sender, frame,
                         reporter, due>>,
             FrameTypes', ServerTypes', worker = "peer" <=> peer # <<>>,
             worker' = "peer" <=> peer' # <<>>, running' => running, handler # "open", Known(peer)',
             \A i \in DOMAIN backlog' : backlog'[i].token <= issued
      PROVE  IInv'
  <2>1. ClientTypes' /\ CountTypes'
    BY <1>1, <1>4, <1>5, <1>7 DEF ClientTypes, CountTypes
  <2>2. TypeOK'
    BY <1>7, <2>1, TypePartsNext
  <2>3. Issued'
    BY <1>1, <1>7 DEF IInv, Issued, Known
  <2>4. Places'
    BY <1>1, <1>7 DEF IInv, Places
  <2>5. DueIsUndelivered'
    BY <1>7 DEF IInv, DueIsUndelivered, Undelivered
  <2>6. ShownIsRetained'
    BY <1>1, <1>4 DEF IInv, ShownIsRetained
  <2> QED
    BY <1>4, <2>2, <2>3, <2>4, <2>5, <2>6 DEF IInv
<1>8. CASE PollTimesOut \/ Accept \/ PipeFails
  <2>1. UNCHANGED <<control, enabled, stopping, pending, endpoint, token, sender, frame,
                    reporter, due>>
    BY <1>8 DEF PollTimesOut, Accept, PipeFails, WorkerUnchanged
  <2>2. FrameTypes'
    <3>1. CASE PollTimesOut \/ Accept
      <4>1. /\ peer' = peer \/ (backlog # <<>> /\ peer' = Head(backlog))
            /\ backlog' = backlog \/ (backlog # <<>> /\ backlog' = Tail(backlog))
        BY <3>1 DEF PollTimesOut, Accept
      <4>2. peer' \in {<<>>} \cup Frame
        BY <1>5, <1>6, <4>1 DEF FrameTypes
      <4>3. backlog' \in Seq(Frame) /\ Len(backlog') <= Backlog
        BY <1>5, <1>6, <1>13, <4>1 DEF FrameTypes
      <4> QED
        BY <1>5, <2>1, <4>2, <4>3 DEF FrameTypes
    <3>2. CASE PipeFails
      <4>1. peer' = peer /\ backlog' = <<>>
        BY <3>2 DEF PipeFails
      <4> QED
        BY <1>5, <2>1, <4>1, CaptureAssumption DEF FrameTypes
    <3> QED
      BY <1>8, <3>1, <3>2
  <2>3. ServerTypes'
    BY <1>1, <1>5, <1>8 DEF ServerTypes, PollTimesOut, Accept, PipeFails
  <2>4. /\ worker = "peer" <=> peer # <<>>
        /\ worker' = "peer" <=> peer' # <<>>
        /\ running' => running
        /\ handler # "open"
    BY <1>6, <1>8, FrameFacts DEF IInv, Places, PollTimesOut, Accept, PipeFails
  <2>5. Known(peer)' /\ \A i \in DOMAIN backlog' : backlog'[i].token <= issued
    BY <1>1, <1>6, <1>8 DEF IInv, Issued, Known, PollTimesOut, Accept, PipeFails
  <2> QED
    BY <1>7, <2>1, <2>2, <2>3, <2>4, <2>5
<1>9. ASSUME UNCHANGED <<running, listener, worker, peer>>, ClientTypes', FrameTypes',
             due' \in [Session \X Session -> Int], DueIsUndelivered', Places',
             token' <= issued, Known(frame)',
             \A i \in DOMAIN pending' : pending'[i].token <= issued,
             \A i \in DOMAIN backlog' : backlog'[i].token <= issued
      PROVE  IInv'
  <2>1. ServerTypes' /\ CountTypes'
    BY <1>1, <1>4, <1>5, <1>9 DEF ServerTypes, CountTypes
  <2>2. TypeOK'
    BY <1>9, <2>1, TypePartsNext
  <2>3. Issued'
    BY <1>1, <1>9 DEF IInv, Issued, Known
  <2>4. ShownIsRetained'
    BY <1>1, <1>4 DEF IInv, ShownIsRetained
  <2> QED
    BY <1>4, <1>9, <2>2, <2>3, <2>4 DEF IInv
<1>10. CASE Take
  <2>1. /\ UNCHANGED <<running, listener, worker, peer, control, enabled, stopping, endpoint,
                       token, reporter, due, backlog>>
        /\ sender = "wait"
    BY <1>10 DEF Take, HostUnchanged
  <2>2. /\ \/ /\ Ends /\ sender' = "ended" /\ UNCHANGED <<pending, frame>>
           \/ /\ sender' = "send" /\ pending # <<>>
              /\ frame' = Head(pending) /\ pending' = Tail(pending)
    BY <1>10 DEF Take, Ends, Woken
  <2>3. ClientTypes' /\ FrameTypes'
    <3>1. ClientTypes'
      BY <1>5, <2>1, <2>2 DEF ClientTypes
    <3>2. frame' \in {<<>>} \cup Frame
      BY <1>5, <1>6, <2>2 DEF FrameTypes
    <3>3. pending' \in Seq(Frame) /\ Len(pending') <= PendingLimit
      <4>1. CASE pending' = pending
        BY <1>5, <4>1 DEF FrameTypes
      <4>2. CASE pending # <<>> /\ pending' = Tail(pending)
        BY <1>6, <1>13, <4>2
      <4> QED
        BY <2>2, <4>1, <4>2
    <3> QED
      BY <1>5, <2>1, <3>1, <3>2, <3>3 DEF FrameTypes
  <2>4. frame = <<>>
    BY <2>1 DEF IInv, Places
  <2>5. Undelivered' = Undelivered
    <3>1. CASE UNCHANGED <<pending, frame>>
      BY <3>1 DEF Undelivered
    <3>2. CASE pending # <<>> /\ frame' = Head(pending) /\ pending' = Tail(pending)
      BY <1>5, <1>6, <2>4, <3>2, FrameFacts DEF Undelivered, FrameTypes
    <3> QED
      BY <2>2, <3>1, <3>2
  <2>6. DueIsUndelivered'
    BY <1>6, <2>1, <2>2, <2>5 DEF IInv, DueIsUndelivered
  <2>7. Places'
    BY <1>1, <1>6, <2>1, <2>2, <2>4, FrameFacts DEF IInv, Places, Ends
  <2>8. /\ Known(frame)' /\ token' <= issued
        /\ \A i \in DOMAIN pending' : pending'[i].token <= issued
        /\ \A i \in DOMAIN backlog' : backlog'[i].token <= issued
    BY <1>1, <1>6, <2>1, <2>2 DEF IInv, Issued, Known
  <2>9. due' \in [Session \X Session -> Int]
    BY <1>5, <2>1 DEF CountTypes
  <2> QED
    BY <1>9, <2>1, <2>3, <2>6, <2>7, <2>8, <2>9
<1>11. CASE Transmit \/ TransmitFails
  <2>1. /\ UNCHANGED <<running, listener, worker, peer, control, enabled, stopping, pending,
                       endpoint, token, reporter>>
        /\ sender = "send" /\ sender' \in {"await", "wait"} /\ frame' = <<>>
        /\ due' = [due EXCEPT ![<<endpoint, frame.token>>] = @ - 1]
        /\ \/ UNCHANGED backlog
           \/ Len(backlog) < Backlog /\ backlog' = Append(backlog, frame)
    BY <1>11 DEF Transmit, TransmitFails, Transmitted, HostUnchanged
  <2>2. frame \in Frame /\ frame.token = token /\ token \in Session /\ endpoint \in Session
        /\ frame.token <= issued
    BY <1>5, <2>1 DEF IInv, Places, FrameTypes, DueIsUndelivered, Issued, Known
  <2>3. /\ Append(backlog, frame) \in Seq(Frame)
        /\ Len(Append(backlog, frame)) = Len(backlog) + 1
        /\ \A i \in DOMAIN Append(backlog, frame) :
             \/ i \in DOMAIN backlog /\ Append(backlog, frame)[i] = backlog[i]
             \/ Append(backlog, frame)[i] = frame
    BY <1>5, <2>2 DEF FrameTypes
  <2>4. ClientTypes'
    BY <1>5, <2>1 DEF ClientTypes
  <2>5. FrameTypes'
    <3>1. backlog' \in Seq(Frame) /\ Len(backlog') <= Backlog
      BY <1>5, <1>13, <2>1, <2>3 DEF FrameTypes
    <3> QED
      BY <1>5, <2>1, <3>1 DEF FrameTypes
  <2>6. Undelivered' = Undelivered - 1 /\ Undelivered \in Nat
    <3>1. Len(pending) \in Nat
      BY <1>5 DEF FrameTypes
    <3>2. InHand(frame, Frame) = 1 /\ InHand(<<>>, Frame) = 0
      BY <2>2, FrameFacts
    <3> QED
      BY <2>1, <3>1, <3>2 DEF Undelivered
  <2>7. due' \in [Session \X Session -> Int]
    <3> DEFINE here == <<endpoint, frame.token>>
    <3>1. due \in [Session \X Session -> Int] /\ here \in Session \X Session
      BY <1>5, <2>2 DEF CountTypes
    <3>2. due' = [due EXCEPT ![here] = due[here] - 1]
      BY <2>1
    <3> HIDE DEF here
    <3>3. due[here] - 1 \in Int
      BY <3>1
    <3> QED
      BY <3>1, <3>2, <3>3
  <2>8. DueIsUndelivered'
    <3>1. \A i \in DOMAIN pending' : pending'[i].token = token'
      BY <2>1 DEF IInv, DueIsUndelivered
    <3>2. ASSUME NEW e \in Session, NEW t \in Session
          PROVE  due'[<<e, t>>] = IF e = endpoint /\ t = token THEN Undelivered' ELSE 0
      <4>1. due[<<e, t>>] = IF e = endpoint /\ t = token THEN Undelivered ELSE 0
        BY DEF IInv, DueIsUndelivered
      <4>2. due \in [Session \X Session -> Int] /\ <<e, t>> \in Session \X Session
        BY <1>5 DEF CountTypes
      <4>3. due'[<<e, t>>] = IF <<e, t>> = <<endpoint, token>> THEN due[<<e, t>>] - 1 ELSE due[<<e, t>>]
        BY <2>1, <2>2, <4>2
      <4> QED
        BY <2>6, <4>1, <4>3
    <3> QED
      BY <2>1, <3>1, <3>2 DEF DueIsUndelivered
  <2>9. Places'
    BY <1>1, <2>1 DEF IInv, Places
  <2>10. /\ Known(frame)' /\ token' <= issued
         /\ \A i \in DOMAIN pending' : pending'[i].token <= issued
         /\ \A i \in DOMAIN backlog' : backlog'[i].token <= issued
    BY <1>1, <2>1, <2>2, <2>3 DEF IInv, Issued, Known
  <2> QED
    BY <1>9, <2>1, <2>4, <2>5, <2>7, <2>8, <2>9, <2>10
<1>12. CASE HostDies
  <2>1. /\ UNCHANGED <<running, listener, worker, peer, backlog>>
        /\ control' = "off" /\ enabled' = FALSE /\ stopping' = FALSE /\ pending' = <<>>
        /\ endpoint' = NoSession /\ token' = NoSession /\ sender' = "none" /\ frame' = <<>>
        /\ reporter' = "idle" /\ due' = NothingDue
    BY <1>12 DEF HostDies, HostUnchanged
  <2>2. ClientTypes' /\ FrameTypes' /\ due' \in [Session \X Session -> Int]
    <3>1. ClientTypes'
      BY <2>1 DEF ClientTypes
    <3>2. FrameTypes'
      BY <1>5, <2>1, CaptureAssumption DEF FrameTypes
    <3>3. due' \in [Session \X Session -> Int]
      BY <2>1 DEF NothingDue
    <3> QED
      BY <3>1, <3>2, <3>3
  <2>3. Undelivered' = 0
    BY <2>1, FrameFacts DEF Undelivered
  <2>4. DueIsUndelivered'
    BY <2>1, <2>3 DEF DueIsUndelivered, NothingDue
  <2>5. Places'
    BY <1>1, <2>1 DEF IInv, Places
  <2>6. issued \in Nat
    BY <1>5, CaptureAssumption DEF ServerTypes, Session, NoSession
  <2>7. /\ Known(frame)' /\ token' <= issued
        /\ \A i \in DOMAIN pending' : pending'[i].token <= issued
        /\ \A i \in DOMAIN backlog' : backlog'[i].token <= issued
    BY <1>1, <2>1, <2>6 DEF IInv, Issued, Known, NoSession
  <2> QED
    BY <1>9, <2>1, <2>2, <2>4, <2>5, <2>7
<1> QED
  BY <1>8, <1>10, <1>11, <1>12

-----------------------------------------------------------------------------
(* A frame enters, is counted, or is of a session that is over.             *)

LEMMA ReportKeeps == ASSUME IInv, Report PROVE IInv'
<1> USE DEF serverVars, countVars, editorVars, sessionVars, clientVars, ghostVars
<1>1. /\ UNCHANGED <<up, handler, issued, entries, accepted, rejected, overflow, shown, merged,
                     running, secret, listener, backlog, worker, peer, control, enabled,
                     stopping, endpoint, token, sender, frame>>
      /\ reporter' = "idle"
  BY DEF Report, HostUnchanged
<1>2. ServerTypes /\ ClientTypes /\ FrameTypes /\ CountTypes
  BY TypeParts DEF IInv
<1>3. ServerTypes' /\ ClientTypes'
  BY <1>1, <1>2 DEF ServerTypes, ClientTypes
<1>4. Retained' = Retained /\ CountsAddUp' /\ ShownIsRetained'
  BY <1>1 DEF IInv, Retained, CountsAddUp, ShownIsRetained
<1>5. CASE UNCHANGED <<pending, ghostVars>>
  <2>1. FrameTypes' /\ CountTypes'
    BY <1>1, <1>2, <1>4, <1>5 DEF FrameTypes, CountTypes
  <2>2. TypeOK'
    BY <1>3, <2>1, TypePartsNext
  <2>3. NothingEnters
    BY <1>1, <1>5, FlightStays DEF IInv
  <2>4. CountedOnce'
    BY <1>1, <1>2, <1>5, <2>3, CountsStay DEF CountTypes
  <2>5. Issued' /\ Places'
    BY <1>1, <1>5 DEF IInv, Issued, Places, Known
  <2>6. DueIsUndelivered'
    BY <1>1, <1>5 DEF IInv, DueIsUndelivered, Undelivered
  <2> QED
    BY <1>4, <2>2, <2>4, <2>5, <2>6 DEF IInv
<1>6. CASE ~UNCHANGED <<pending, ghostVars>>
  <2>1. PICK event \in Invocation :
          /\ pending' = Append(pending, [token |-> token, event |-> event])
          /\ reported' = IF token = secret THEN [reported EXCEPT ![event] = @ + 1]
                                           ELSE reported
    BY <1>6 DEF Report
  <2>2. /\ enabled /\ Len(pending) < PendingLimit /\ queued < MaxReports
        /\ queued' = queued + 1
        /\ due' = [due EXCEPT ![<<endpoint, token>>] = @ + 1]
    BY <1>6 DEF Report, Admits
  <2> DEFINE new == [token |-> token, event |-> event]
  <2>3. token \in Session /\ endpoint \in Session /\ sender \notin {"none", "ended"}
        /\ control = "on"
    BY <2>2 DEF IInv, Places
  <2>4. new \in Frame /\ new.token = token /\ new.event = event
    BY <2>3 DEF Frame
  <2>5. /\ pending' = Append(pending, new) /\ pending \in Seq(Frame)
        /\ backlog \in Seq(Frame)
    BY <1>2, <2>1 DEF FrameTypes
  <2> HIDE DEF new
  <2>6. /\ pending' \in Seq(Frame) /\ Len(pending') = Len(pending) + 1
        /\ Len(pending) \in Nat
        /\ \A i \in DOMAIN pending' :
             \/ i \in DOMAIN pending /\ pending'[i] = pending[i]
             \/ pending'[i] = new
    BY <2>4, <2>5
  <2>7. FrameTypes'
    BY <1>1, <1>2, <2>2, <2>6, CaptureAssumption DEF FrameTypes
  <2>8. /\ queued \in Nat /\ accepted \in Nat /\ rejected \in Nat /\ MaxReports \in Nat
        /\ \A e \in Invocation : entries[e] \in Nat /\ reported[e] \in Nat
        /\ reported \in [Invocation -> Nat]
    BY <1>2, CaptureAssumption DEF CountTypes
  <2>9. \A e \in Invocation :
          reported'[e] = reported[e] + IF token = secret /\ e = event THEN 1 ELSE 0
    BY <2>1, <2>8
  <2>10. CountTypes'
    <3>1. \A e \in Invocation : reported'[e] \in 0 .. MaxReports
      BY <2>2, <2>8, <2>9 DEF IInv, CountedOnce
    <3>2. reported' = [e \in Invocation |-> reported'[e]]
      BY <2>1, <2>8
    <3>3. due' \in [Session \X Session -> Int]
      <4> DEFINE here == <<endpoint, token>>
      <4>1. due \in [Session \X Session -> Int] /\ here \in Session \X Session
        BY <1>2, <2>3 DEF CountTypes
      <4>2. due' = [due EXCEPT ![here] = due[here] + 1]
        BY <2>2
      <4> HIDE DEF here
      <4>3. due[here] + 1 \in Int
        BY <4>1
      <4> QED
        BY <4>1, <4>2, <4>3
    <3>4. queued' \in 0 .. MaxReports
      BY <2>2, <2>8
    <3>5. reported' \in [Invocation -> 0 .. MaxReports]
      BY <3>1, <3>2
    <3> QED
      BY <1>1, <1>2, <1>4, <3>3, <3>4, <3>5 DEF CountTypes
  <2>11. TypeOK'
    BY <1>3, <2>7, <2>10, TypePartsNext
  <2>12. ASSUME NEW S
         PROVE  Flight(S)' = Flight(S) + InHand(new, S) /\ Flight(S) \in Nat
    <3>1. InSequence(pending', S) = InSequence(pending, S) + InHand(new, S)
      BY <2>4, <2>5, AppendInSequence
    <3>2. InSequence(pending, S) \in Nat /\ InSequence(backlog, S) \in Nat /\ Flight(S) \in Nat
      BY FlightIsNat DEF IInv
    <3>3. InHand(new, S) \in Nat /\ InHand(frame, S) \in Nat /\ InHand(peer, S) \in Nat
      BY FrameFacts
    <3> QED
      BY <1>1, <3>1, <3>2, <3>3 DEF Flight
  <2>13. CountedOnce'
    <3>1. accepted' + rejected' + Flight(Frame)' <= queued'
      BY <1>1, <2>2, <2>4, <2>8, <2>12, FrameFacts DEF IInv, CountedOnce
    <3>2. ASSUME NEW e \in Invocation
          PROVE  /\ entries'[e] + Flight(Exactly(secret, e))' <= reported'[e]
                 /\ reported'[e] <= queued'
      <4>1. PICK S : S = Exactly(secret, e)
        OBVIOUS
      <4>2. InHand(new, S) = IF token = secret /\ e = event THEN 1 ELSE 0
        BY <2>4, <4>1 DEF InHand, Exactly
      <4>3. Flight(Exactly(secret, e))' = Flight(S)'
        BY <1>1, <4>1 DEF Exactly
      <4>4. entries[e] + Flight(S) <= reported[e] /\ reported[e] <= queued
        BY <4>1 DEF IInv, CountedOnce
      <4>5. Flight(S)' = Flight(S) + InHand(new, S) /\ Flight(S) \in Nat
        BY <2>12
      <4> QED
        BY <1>1, <2>2, <2>8, <2>9, <4>2, <4>3, <4>4, <4>5
    <3>3. accepted' + Flight(OfSession(secret))' <= SumFunction(reported')
      <4>1. PICK S : S = OfSession(secret)
        OBVIOUS
      <4>2. InHand(new, S) = IF token = secret THEN 1 ELSE 0
        BY <2>4, <4>1 DEF InHand, OfSession
      <4>3. Flight(OfSession(secret))' = Flight(S)'
        BY <1>1, <4>1 DEF OfSession
      <4>4. accepted + Flight(S) <= SumFunction(reported)
        BY <4>1 DEF IInv, CountedOnce
      <4>5. Flight(S)' = Flight(S) + InHand(new, S) /\ Flight(S) \in Nat
        BY <2>12
      <4>6. SumFunction(reported) \in Nat
        BY <2>8, SumIsANumber, CaptureAssumption
      <4>7. SumFunction(reported') = SumFunction(reported) + IF token = secret THEN 1 ELSE 0
        <5>1. SumFunction([reported EXCEPT ![event] = @ + 1]) = SumFunction(reported) + 1
          BY <2>8, SumOfOneMore, CaptureAssumption
        <5> QED
          BY <2>1, <4>6, <5>1
      <4> QED
        BY <1>1, <2>8, <4>2, <4>3, <4>4, <4>5, <4>6, <4>7
    <3> QED
      BY <3>1, <3>2, <3>3 DEF CountedOnce
  <2>14. Issued'
    BY <1>1, <2>4, <2>6 DEF IInv, Issued, Known
  <2>15. Places'
    <3>1. token # NoSession
      BY <2>3 DEF Session, NoSession
    <3>2. handler = "open" => reported' = reported
      BY <2>1, <3>1 DEF IInv, Places
    <3> QED
      BY <1>1, <2>3, <3>2 DEF IInv, Places
  <2>16. DueIsUndelivered'
    <3>1. Undelivered' = Undelivered + 1 /\ Undelivered \in Nat
      BY <1>1, <2>6, FrameFacts DEF Undelivered
    <3>2. \A i \in DOMAIN pending' : pending'[i].token = token'
      BY <1>1, <2>4, <2>6 DEF IInv, DueIsUndelivered
    <3>3. ASSUME NEW e \in Session, NEW t \in Session
          PROVE  due'[<<e, t>>] = IF e = endpoint /\ t = token THEN Undelivered' ELSE 0
      <4>1. due[<<e, t>>] = IF e = endpoint /\ t = token THEN Undelivered ELSE 0
        BY DEF IInv, DueIsUndelivered
      <4>2. due \in [Session \X Session -> Int] /\ <<e, t>> \in Session \X Session
        BY <1>2 DEF CountTypes
      <4>3. due'[<<e, t>>] = IF <<e, t>> = <<endpoint, token>> THEN due[<<e, t>>] + 1 ELSE due[<<e, t>>]
        BY <2>2, <4>2
      <4> QED
        BY <3>1, <4>1, <4>3
    <3>4. frame' # <<>> => frame'.token = token'
      BY <1>1 DEF IInv, DueIsUndelivered
    <3> QED
      BY <1>1, <3>2, <3>3, <3>4 DEF DueIsUndelivered
  <2> QED
    BY <1>4, <2>11, <2>13, <2>14, <2>15, <2>16 DEF IInv
<1> QED
  BY <1>5, <1>6


LEMMA ReceiveKeeps == ASSUME IInv, Receive PROVE IInv'
<1> USE DEF serverVars, countVars, editorVars, sessionVars, clientVars, ghostVars
<1>1. /\ UNCHANGED <<up, handler, issued, shown, merged, running, secret, listener, backlog,
                     control, enabled, stopping, pending, endpoint, token, sender, frame,
                     reporter, queued, reported, due>>
      /\ worker = "peer" /\ worker' = "reply" /\ peer' = <<>>
  BY DEF Receive, WorkerUnchanged
<1>2. ServerTypes /\ ClientTypes /\ FrameTypes /\ CountTypes
  BY TypeParts DEF IInv
<1>3. peer \in Frame
  BY <1>1, <1>2 DEF IInv, Places, FrameTypes
<1>4. /\ queued \in Nat /\ accepted \in Nat /\ rejected \in Nat /\ overflow \in Nat
      /\ MaxReports \in Nat /\ queued <= MaxReports
      /\ \A e \in Invocation : entries[e] \in Nat /\ reported[e] \in Nat
      /\ entries \in [Invocation -> Nat] /\ reported \in [Invocation -> Nat]
      /\ SumFunction(entries) \in Nat /\ SumFunction(reported) \in Nat
  <2>1. entries \in [Invocation -> Nat] /\ reported \in [Invocation -> Nat]
    BY <1>2, CaptureAssumption DEF CountTypes
  <2>2. SumFunction(entries) \in Nat /\ SumFunction(reported) \in Nat
    BY <2>1, SumIsANumber, CaptureAssumption
  <2> QED
    BY <1>2, <2>1, <2>2, CaptureAssumption DEF CountTypes
<1>5. ASSUME NEW S \in SUBSET Frame
      PROVE  Flight(S) = Flight(S)' + InHand(peer, S) /\ Flight(S)' \in Nat
  <2>1. InSequence(pending, S) \in Nat /\ InSequence(backlog, S) \in Nat
    BY FlightIsNat DEF IInv
  <2>2. InHand(peer, S) \in Nat /\ InHand(frame, S) \in Nat /\ InHand(<<>>, S) = 0
    BY FrameFacts
  <2> QED
    BY <1>1, <2>1, <2>2 DEF Flight
<1>6. \/ /\ rejected' = rejected + 1 /\ UNCHANGED <<accepted, entries, overflow>>
      \/ /\ peer.token = secret /\ accepted' = accepted + 1 /\ UNCHANGED rejected
         /\ Fits(peer.event) /\ entries' = [entries EXCEPT ![peer.event] = @ + 1]
         /\ UNCHANGED overflow
      \/ /\ peer.token = secret /\ accepted' = accepted + 1 /\ UNCHANGED rejected
         /\ ~Fits(peer.event) /\ overflow' = overflow + 1 /\ UNCHANGED entries
  BY DEF Receive, SameToken, Count
<1>7. peer.event \in Invocation /\ peer.token \in Session
  BY <1>3 DEF Frame
<1>8. /\ \A e \in Invocation :
           /\ InHand(peer, Exactly(secret, e))
                 = IF peer.token = secret /\ peer.event = e THEN 1 ELSE 0
           /\ entries'[e] \in Nat
           /\ entries'[e] <= entries[e] + InHand(peer, Exactly(secret, e))
      /\ entries' = [e \in Invocation |-> entries'[e]]
  <2>1. \A e \in Invocation : InHand(peer, Exactly(secret, e))
                 = IF peer.token = secret /\ peer.event = e THEN 1 ELSE 0
    BY <1>3 DEF InHand, Exactly
  <2>2. CASE UNCHANGED entries
    BY <1>4, <2>1, <2>2
  <2>3. CASE peer.token = secret /\ entries' = [entries EXCEPT ![peer.event] = @ + 1]
    <3>1. \A e \in Invocation :
            entries'[e] = entries[e] + IF peer.event = e THEN 1 ELSE 0
      BY <1>4, <1>7, <2>3
    <3>2. entries' = [e \in Invocation |-> entries'[e]]
      BY <1>4, <2>3
    <3> QED
      BY <1>4, <2>1, <2>3, <3>1, <3>2
  <2> QED
    BY <1>6, <2>2, <2>3
<1>9. /\ InHand(peer, OfSession(secret)) = IF peer.token = secret THEN 1 ELSE 0
      /\ InHand(peer, Frame) = 1
  BY <1>3 DEF InHand, OfSession
<1>10. /\ accepted' \in Nat /\ rejected' \in Nat
       /\ \/ accepted' = accepted + 1 /\ rejected' = rejected
          \/ accepted' = accepted /\ rejected' = rejected + 1
       /\ accepted' <= accepted + InHand(peer, OfSession(secret))
  BY <1>4, <1>6, <1>9
<1>11. CountedOnce'
  <2>1. accepted' + rejected' + Flight(Frame)' <= queued
    <3>1. accepted + rejected + Flight(Frame) <= queued
      BY DEF IInv, CountedOnce
    <3>2. Flight(Frame) = Flight(Frame)' + 1 /\ Flight(Frame)' \in Nat
      BY <1>5, <1>9, SubsetsOfFrame
    <3>3. accepted \in Nat /\ rejected \in Nat /\ queued \in Nat
      BY <1>4
    <3>4. /\ accepted' \in Nat /\ rejected' \in Nat
          /\ \/ accepted' = accepted + 1 /\ rejected' = rejected
             \/ accepted' = accepted /\ rejected' = rejected + 1
      BY <1>10
    <3> QED
      BY <3>1, <3>2, <3>3, <3>4
  <2>2. ASSUME NEW e \in Invocation
        PROVE  /\ entries'[e] + Flight(Exactly(secret, e))' <= reported[e]
               /\ reported[e] <= queued
    <3>1. PICK S \in SUBSET Frame : S = Exactly(secret, e)
      BY SubsetsOfFrame
    <3>2. Flight(Exactly(secret, e))' = Flight(S)'
      BY <1>1, <3>1 DEF Exactly
    <3>3. entries[e] + Flight(S) <= reported[e] /\ reported[e] <= queued
      BY <3>1 DEF IInv, CountedOnce
    <3>4. Flight(S) = Flight(S)' + InHand(peer, S) /\ Flight(S)' \in Nat
      BY <1>5
    <3>5. InHand(peer, S) \in Nat /\ entries'[e] \in Nat
          /\ entries'[e] <= entries[e] + InHand(peer, S)
      BY <1>8, <3>1, FrameFacts
    <3> QED
      BY <1>4, <3>2, <3>3, <3>4, <3>5
  <2>3. accepted' + Flight(OfSession(secret))' <= SumFunction(reported)
    <3>1. PICK S \in SUBSET Frame : S = OfSession(secret)
      BY SubsetsOfFrame
    <3>2. Flight(OfSession(secret))' = Flight(S)'
      BY <1>1, <3>1 DEF OfSession
    <3>3. accepted + Flight(S) <= SumFunction(reported)
      BY <3>1 DEF IInv, CountedOnce
    <3>4. Flight(S) = Flight(S)' + InHand(peer, S) /\ Flight(S)' \in Nat
      BY <1>5
    <3>5. InHand(peer, S) \in Nat /\ accepted' <= accepted + InHand(peer, S)
      BY <1>10, <3>1, FrameFacts
    <3> QED
      BY <1>4, <1>10, <3>2, <3>3, <3>4, <3>5
  <2> QED
    BY <1>1, <2>1, <2>2, <2>3 DEF CountedOnce
<1>12. Flight(Frame) \in Nat /\ Flight(Frame) >= 1
  BY <1>5, <1>9, SubsetsOfFrame
<1>13. /\ accepted' <= MaxReports /\ rejected' <= MaxReports
       /\ \A e \in Invocation : entries'[e] <= MaxReports
  <2>1. accepted + rejected + Flight(Frame) <= queued
    BY DEF IInv, CountedOnce
  <2>2. ASSUME NEW e \in Invocation PROVE entries'[e] <= MaxReports
    <3>1. Flight(Exactly(secret, e))' \in Nat
      <4>1. PICK S \in SUBSET Frame : S = Exactly(secret, e)
        BY SubsetsOfFrame
      <4> QED
        BY <1>1, <1>5, <4>1 DEF Exactly
    <3>2. entries'[e] + Flight(Exactly(secret, e))' <= reported[e] /\ reported[e] <= queued
      BY <1>1, <1>11 DEF CountedOnce
    <3> QED
      BY <1>4, <1>8, <3>1, <3>2
  <2>3. accepted + rejected + 1 <= queued
    BY <1>4, <1>12, <2>1
  <2>4. /\ accepted \in Nat /\ rejected \in Nat /\ queued \in Nat
        /\ MaxReports \in Nat /\ queued <= MaxReports
    BY <1>4
  <2>5. /\ accepted' \in Nat /\ rejected' \in Nat
        /\ \/ accepted' = accepted + 1 /\ rejected' = rejected
           \/ accepted' = accepted /\ rejected' = rejected + 1
    BY <1>10
  <2>6. accepted' <= MaxReports /\ rejected' <= MaxReports
    BY <2>3, <2>4, <2>5
  <2> QED
    BY <2>2, <2>6
<1>14. /\ IsFiniteSet(Retained) /\ Cardinality(Retained) \in Nat
       /\ EntryLimit \in Nat /\ Cardinality(Retained) <= EntryLimit
       /\ accepted = SumFunction(entries) + overflow
       /\ overflow > 0 => Cardinality(Retained) = EntryLimit
  <2>1. IsFiniteSet(Retained)
    BY CaptureAssumption, FS_Subset DEF Retained
  <2> QED
    BY <1>2, <2>1, FS_CardinalityType, CaptureAssumption DEF CountTypes, IInv, CountsAddUp
<1>15. /\ CountsAddUp' /\ Retained \subseteq Retained'
       /\ Cardinality(Retained') <= EntryLimit
       /\ overflow' \in Nat /\ overflow' <= MaxReports
  <2>1. CASE /\ rejected' = rejected + 1 /\ UNCHANGED <<accepted, entries, overflow>>
    <3>1. Retained' = Retained
      BY <2>1 DEF Retained
    <3> QED
      BY <1>2, <1>14, <2>1, <3>1 DEF CountsAddUp, CountTypes
  <2>2. CASE /\ accepted' = accepted + 1
             /\ Fits(peer.event) /\ entries' = [entries EXCEPT ![peer.event] = @ + 1]
             /\ UNCHANGED overflow
    <3>1. SumFunction(entries') = SumFunction(entries) + 1
      BY <1>4, <1>7, <2>2, SumOfOneMore, CaptureAssumption
    <3>2. Retained' = Retained \cup {peer.event}
      <4>1. \A e \in Invocation :
              entries'[e] = entries[e] + IF peer.event = e THEN 1 ELSE 0
        BY <1>4, <1>7, <2>2
      <4> QED
        BY <1>4, <1>7, <4>1 DEF Retained
    <3>3. CASE entries[peer.event] > 0
      <4>1. Retained' = Retained
        BY <1>7, <3>2, <3>3 DEF Retained
      <4> QED
        BY <1>2, <1>4, <1>14, <2>2, <3>1, <4>1 DEF CountsAddUp, CountTypes
    <3>4. CASE ~(entries[peer.event] > 0)
      <4>1. peer.event \notin Retained /\ Cardinality(Retained) < EntryLimit
        BY <2>2, <3>4 DEF Retained, Fits
      <4>2. Cardinality(Retained \cup {peer.event}) = Cardinality(Retained) + 1
        BY <1>14, <4>1, FS_AddElement
      <4>3. overflow = 0
        BY <1>4, <1>14, <4>1
      <4> QED
        BY <1>2, <1>4, <1>14, <2>2, <3>1, <3>2, <4>1, <4>2, <4>3 DEF CountsAddUp, CountTypes
    <3> QED
      BY <3>3, <3>4
  <2>3. CASE /\ accepted' = accepted + 1
             /\ ~Fits(peer.event) /\ overflow' = overflow + 1 /\ UNCHANGED entries
    <3>1. Retained' = Retained
      BY <2>3 DEF Retained
    <3>2. Cardinality(Retained) = EntryLimit
      BY <1>14, <2>3 DEF Fits
    <3> QED
      BY <1>4, <1>13, <1>14, <2>3, <3>1, <3>2 DEF CountsAddUp
  <2> QED
    BY <1>6, <2>1, <2>2, <2>3
<1>16. TypeOK'
  <2>1. ServerTypes' /\ ClientTypes'
    BY <1>1, <1>2 DEF ServerTypes, ClientTypes
  <2>2. FrameTypes'
    BY <1>1, <1>2 DEF FrameTypes
  <2>3. CountTypes'
    <3>1. entries' \in [Invocation -> 0 .. MaxReports]
      <4>1. \A e \in Invocation : entries'[e] \in 0 .. MaxReports
        BY <1>4, <1>8, <1>13
      <4> QED
        BY <1>8, <4>1
    <3>2. accepted' \in 0 .. MaxReports /\ rejected' \in 0 .. MaxReports
          /\ overflow' \in 0 .. MaxReports
      BY <1>4, <1>10, <1>13, <1>15
    <3> QED
      BY <1>1, <1>2, <1>15, <3>1, <3>2 DEF CountTypes
  <2> QED
    BY <2>1, <2>2, <2>3, TypePartsNext
<1>17. Issued' /\ Places' /\ DueIsUndelivered'
  <2>1. Issued'
    BY <1>1 DEF IInv, Issued, Known
  <2>2. Places'
    BY <1>1 DEF IInv, Places
  <2>3. DueIsUndelivered'
    BY <1>1 DEF IInv, DueIsUndelivered, Undelivered
  <2> QED
    BY <2>1, <2>2, <2>3
<1>18. ShownIsRetained'
  BY <1>1, <1>15 DEF IInv, ShownIsRetained
<1> QED
  BY <1>11, <1>15, <1>16, <1>17, <1>18 DEF IInv

\* Nothing is in flight of a session that no frame has the token of.
NoneHas(s) ==
    /\ \A i \in DOMAIN pending : pending[i].token # s
    /\ \A i \in DOMAIN backlog : backlog[i].token # s
    /\ frame # <<>> => frame.token # s
    /\ peer # <<>> => peer.token # s

\* A session begins, or ends, with counts of zero: both say the same of it.
LEMMA FreshCounts ==
  ASSUME IInv, FrameTypes', NoneHas(secret)', NothingEnters,
         entries' = NoCounts, reported' = NoCounts, accepted' = 0, rejected' = 0, overflow' = 0,
         UNCHANGED queued
  PROVE  CountsAddUp' /\ CountedOnce'
<1>1. SumFunction(NoCounts) = 0
  BY SumOfNothing, CaptureAssumption DEF NoCounts
<1>2. queued \in Nat /\ accepted \in Nat /\ rejected \in Nat
  BY DEF IInv, TypeOK
<1>3. CountsAddUp'
  BY <1>1 DEF CountsAddUp
<1>4. accepted' + rejected' + Flight(Frame)' <= queued'
  <2>1. accepted + rejected + Flight(Frame) <= queued
    BY DEF IInv, CountedOnce
  <2>2. Flight(Frame)' \in Nat /\ Flight(Frame)' <= Flight(Frame) /\ Flight(Frame) \in Nat
    BY SubsetsOfFrame, FlightIsNat DEF NothingEnters, IInv
  <2> QED
    BY <1>2, <2>1, <2>2
<1>5. ASSUME NEW S \in SUBSET OfSession(secret') PROVE Flight(S)' = 0
  <2>1. \A f \in S : f \in Frame /\ f.token = secret'
    BY DEF OfSession
  <2>2. InSequence(pending', S) = 0
    BY <2>1, NoneInSequence DEF FrameTypes, NoneHas
  <2>3. InSequence(backlog', S) = 0
    BY <2>1, NoneInSequence DEF FrameTypes, NoneHas
  <2>4. frame' \notin S /\ peer' \notin S
    BY <2>1, FrameFacts DEF NoneHas
  <2> QED
    BY <2>2, <2>3, <2>4 DEF Flight, InHand
<1>6. ASSUME NEW e \in Invocation
      PROVE  entries'[e] + Flight(Exactly(secret, e))' <= reported'[e] /\ reported'[e] <= queued'
  <2>1. PICK S \in SUBSET OfSession(secret') : S = {f \in Frame : f.token = secret' /\ f.event = e}
    BY DEF OfSession
  <2>2. Flight(Exactly(secret, e))' = Flight(S)'
    BY <2>1 DEF Exactly
  <2>3. Flight(S)' = 0
    BY <1>5
  <2> QED
    BY <1>2, <2>2, <2>3 DEF NoCounts
<1>7. accepted' + Flight(OfSession(secret))' <= SumFunction(reported')
  <2>1. PICK S \in SUBSET OfSession(secret') : S = {f \in Frame : f.token = secret'}
    BY DEF OfSession
  <2>2. Flight(OfSession(secret))' = Flight(S)'
    BY <2>1 DEF OfSession
  <2> QED
    BY <1>1, <1>5, <2>2
<1>8. CountedOnce'
  BY <1>4, <1>6, <1>7 DEF CountedOnce
<1> QED
  BY <1>3, <1>8

LEMMA FinishStopKeeps == ASSUME IInv, FinishStop PROVE IInv'
<1> USE DEF serverVars, countVars, editorVars, sessionVars, clientVars, ghostVars
<1>1. /\ UNCHANGED <<issued, running, peer, shown, merged, control, enabled, stopping, pending,
                     endpoint, token, sender, frame, reporter, queued, due>>
      /\ handler \in {"start", "stop", "shutdown"} /\ worker \in {"none", "ended"}
      /\ worker' = "none" /\ listener' = NoSession /\ backlog' = <<>> /\ secret' = NoSession
      /\ entries' = NoCounts /\ reported' = NoCounts
      /\ accepted' = 0 /\ rejected' = 0 /\ overflow' = 0
      /\ handler' = IF handler = "start" THEN "open" ELSE "none"
      /\ up' = (up /\ handler # "shutdown")
  BY DEF FinishStop
<1>2. ServerTypes /\ ClientTypes /\ FrameTypes /\ CountTypes
  BY TypeParts DEF IInv
<1>3. Retained' = {} /\ Cardinality(Retained') = 0
  <2>1. Retained' = {}
    BY <1>1 DEF Retained, NoCounts
  <2> QED
    BY <2>1, FS_EmptySet
<1>4. FrameTypes'
  BY <1>1, <1>2, CaptureAssumption DEF FrameTypes
<1>5. TypeOK'
  <2>1. ServerTypes' /\ ClientTypes'
    BY <1>1, <1>2 DEF ServerTypes, ClientTypes
  <2>2. CountTypes'
    BY <1>1, <1>2, <1>3, CaptureAssumption DEF CountTypes, NoCounts
  <2> QED
    BY <1>4, <2>1, <2>2, TypePartsNext
<1>6. NothingEnters
  <2> SUFFICES ASSUME NEW S \in SUBSET Frame
               PROVE  Flight(S)' \in Nat /\ Flight(S)' <= Flight(S)
    BY DEF NothingEnters
  <2>1. /\ InSequence(pending, S) \in Nat /\ InSequence(backlog, S) \in Nat
        /\ InHand(frame, S) \in Nat /\ InHand(peer, S) \in Nat
    BY FlightIsNat, FrameFacts DEF IInv
  <2>2. InSequence(<<>>, S) = 0
    BY FS_EmptySet DEF InSequence
  <2> QED
    BY <1>1, <2>1, <2>2 DEF Flight
<1>7. NoneHas(secret)'
  <2>1. \A f \in Frame : f.token # NoSession
    BY DEF Frame, Session, NoSession
  <2>2. /\ \A i \in DOMAIN pending : pending[i] \in Frame
        /\ frame # <<>> => frame \in Frame
        /\ peer # <<>> => peer \in Frame
    BY <1>2 DEF FrameTypes
  <2> QED
    BY <1>1, <2>1, <2>2 DEF NoneHas
<1>8. CountsAddUp' /\ CountedOnce'
  BY <1>1, <1>4, <1>6, <1>7, FreshCounts
<1>9. Issued'
  <2>1. issued \in Nat
    BY <1>2, CaptureAssumption DEF ServerTypes, Session, NoSession
  <2> QED
    BY <1>1, <2>1 DEF IInv, Issued, Known, NoSession
<1>10. Places'
  BY <1>1 DEF IInv, Places
<1>11. DueIsUndelivered'
  BY <1>1 DEF IInv, DueIsUndelivered, Undelivered
<1>12. ShownIsRetained'
  BY <1>1 DEF IInv, ShownIsRetained
<1> QED
  BY <1>5, <1>8, <1>9, <1>10, <1>11, <1>12 DEF IInv

LEMMA OpenSessionKeeps == ASSUME IInv, OpenSession PROVE IInv'
<1> USE DEF serverVars, countVars, editorVars, sessionVars, clientVars, ghostVars
<1>1. /\ UNCHANGED <<up, entries, accepted, rejected, overflow, shown, merged, backlog, peer,
                     control, enabled, stopping, pending, endpoint, token, sender, frame,
                     reporter, queued, reported, due>>
      /\ handler = "open" /\ handler' = "none" /\ issued' = issued + 1
      /\ secret' = issued + 1 /\ listener' = issued + 1 /\ running' = TRUE /\ worker' = "loop"
  BY DEF OpenSession
<1>2. ServerTypes /\ ClientTypes /\ FrameTypes /\ CountTypes
  BY TypeParts DEF IInv
<1>3. /\ issued \in Nat /\ issued < MaxSessions /\ MaxSessions \in Nat /\ worker = "none"
      /\ issued + 1 \in Session
  BY <1>1, <1>2, CaptureAssumption DEF IInv, Places, ServerTypes, Session, NoSession
<1>4. Retained' = Retained
  BY <1>1 DEF Retained
<1>5. FrameTypes'
  BY <1>1, <1>2 DEF FrameTypes
<1>6. TypeOK'
  <2>1. ServerTypes'
    BY <1>1, <1>2, <1>3 DEF ServerTypes
  <2>2. ClientTypes' /\ CountTypes'
    BY <1>1, <1>2, <1>4 DEF ClientTypes, CountTypes
  <2> QED
    BY <1>5, <2>1, <2>2, TypePartsNext
<1>7. NothingEnters
  BY <1>1, FlightStays DEF IInv
<1>8. secret = NoSession /\ entries = NoCounts /\ reported = NoCounts
      /\ accepted = 0 /\ rejected = 0 /\ overflow = 0
  BY <1>1 DEF IInv, Places
<1>9. NoneHas(secret)'
  <2>1. /\ \A i \in DOMAIN pending : pending[i].token <= issued /\ pending[i].token \in Nat
        /\ \A i \in DOMAIN backlog : backlog[i].token <= issued /\ backlog[i].token \in Nat
        /\ frame # <<>> => frame.token <= issued /\ frame.token \in Nat
        /\ peer # <<>> => peer.token <= issued /\ peer.token \in Nat
    <3>1. \A f \in Frame : f.token \in Nat
      BY DEF Frame, Session
    <3>2. /\ \A i \in DOMAIN pending : pending[i] \in Frame
          /\ \A i \in DOMAIN backlog : backlog[i] \in Frame
          /\ frame # <<>> => frame \in Frame
          /\ peer # <<>> => peer \in Frame
      BY <1>2 DEF FrameTypes
    <3> QED
      BY <3>1, <3>2 DEF IInv, Issued, Known
  <2>2. \A n \in Nat : n <= issued => n # issued + 1
    BY <1>3
  <2> QED
    BY <1>1, <2>1, <2>2 DEF NoneHas
<1>10. CountsAddUp' /\ CountedOnce'
  BY <1>1, <1>5, <1>7, <1>8, <1>9, FreshCounts
<1>11. Issued'
  <2>1. \A n \in Nat : n <= issued => n <= issued + 1
    BY <1>3
  <2>2. /\ secret' <= issued' /\ token' <= issued' /\ shown.session <= issued'
    BY <1>1, <1>2, <1>3, CaptureAssumption
       DEF IInv, Issued, ServerTypes, ClientTypes, Session, NoSession
  <2>3. \A f \in Frame : f.token <= issued => f.token <= issued'
    BY <1>1, <2>1 DEF Frame, Session
  <2>4. /\ \A i \in DOMAIN pending : pending[i] \in Frame
        /\ \A i \in DOMAIN backlog : backlog[i] \in Frame
        /\ frame # <<>> => frame \in Frame
        /\ peer # <<>> => peer \in Frame
    BY <1>2 DEF FrameTypes
  <2> QED
    BY <1>1, <2>2, <2>3, <2>4 DEF IInv, Issued, Known
<1>12. Places'
  BY <1>1, <1>3 DEF IInv, Places, Session, NoSession
<1>13. DueIsUndelivered'
  BY <1>1 DEF IInv, DueIsUndelivered, Undelivered
<1>14. ShownIsRetained'
  <2>1. shown.session # secret'
    BY <1>1, <1>2, <1>3, CaptureAssumption DEF IInv, Issued, ServerTypes, Session, NoSession
  <2> QED
    BY <1>1, <2>1 DEF IInv, ShownIsRetained
<1> QED
  BY <1>6, <1>10, <1>11, <1>12, <1>13, <1>14 DEF IInv

LEMMA StepCapture == ASSUME IInv, [Next]_vars PROVE IInv'
<1>1. CASE UNCHANGED vars
  <2>1. UNCHANGED <<up, handler, running, secret, issued, listener, backlog, entries, accepted,
                    rejected, overflow, worker, peer, shown, merged, control, enabled, stopping,
                    pending, endpoint, token, sender, frame, reporter, queued, reported, due>>
    BY <1>1 DEF vars, serverVars, countVars, editorVars, sessionVars, clientVars, ghostVars
  <2>2. TypeOK' /\ Issued' /\ Places' /\ ShownIsRetained'
    BY <2>1 DEF IInv, TypeOK, Issued, Known, Places, ShownIsRetained, Retained
  <2>3. CountsAddUp' /\ CountedOnce'
    <3>1. NothingEnters
      BY <2>1, FlightStays DEF IInv
    <3> QED
      BY <2>1, <3>1, CountsStay DEF IInv, TypeOK, countVars
  <2>4. DueIsUndelivered'
    BY <2>1 DEF IInv, DueIsUndelivered, Undelivered
  <2> QED
    BY <2>2, <2>3, <2>4 DEF IInv
<1>2. CASE Next
  BY <1>2, QuietKeeps, MovesKeep, ReportKeeps, ReceiveKeeps, FinishStopKeeps, OpenSessionKeeps
     DEF Next, Editor, Server, SessionWorker, Host, Disconnect, ClientWorker
<1> QED
  BY <1>1, <1>2

-----------------------------------------------------------------------------
LEMMA CaptureFollows ==
  ASSUME IInv
  PROVE  CountsAreTrue /\ QueuedReportsAreSent /\ PreviewsAreOfShownEntries
<1>1. CountsAreTrue
  <2>1. /\ accepted \in Nat /\ SumFunction(reported) \in Nat
        /\ \A e \in Invocation : entries[e] \in Nat /\ reported[e] \in Nat
    <3>1. reported \in [Invocation -> Nat]
      BY CaptureAssumption DEF IInv, TypeOK
    <3>2. SumFunction(reported) \in Nat
      BY <3>1, SumIsANumber, CaptureAssumption
    <3> QED
      BY <3>2 DEF IInv, TypeOK
  <2>2. ASSUME NEW e \in Invocation PROVE entries[e] <= reported[e]
    <3>1. Flight(Exactly(secret, e)) \in Nat
      BY FlightIsNat DEF IInv
    <3>2. entries[e] + Flight(Exactly(secret, e)) <= reported[e]
      BY DEF IInv, CountedOnce
    <3> QED
      BY <2>1, <3>1, <3>2
  <2>3. accepted <= SumFunction(reported)
    <3>1. Flight(OfSession(secret)) \in Nat
      BY FlightIsNat DEF IInv
    <3>2. accepted + Flight(OfSession(secret)) <= SumFunction(reported)
      BY DEF IInv, CountedOnce
    <3> QED
      BY <2>1, <3>1, <3>2
  <2> QED
    BY <2>2, <2>3 DEF CountsAreTrue, CountedWereReported, IInv
<1>2. QueuedReportsAreSent
  <2> SUFFICES ASSUME control = "off" PROVE pending = <<>> /\ due = NothingDue
    BY DEF QueuedReportsAreSent
  <2>1. pending = <<>> /\ frame = <<>>
    BY DEF IInv, Places
  <2>2. Undelivered = 0
    BY <2>1, FrameFacts DEF Undelivered
  <2>3. \A p \in Session \X Session : due[p] = 0
    BY <2>2 DEF IInv, DueIsUndelivered
  <2>4. due \in [Session \X Session -> Int]
    BY DEF IInv, TypeOK
  <2> QED
    BY <2>1, <2>3, <2>4 DEF NothingDue
<1>3. PreviewsAreOfShownEntries
  BY DEF IInv, Places, ShownIsRetained, PreviewsAreOfShownEntries
<1> QED
  BY <1>1, <1>2, <1>3

LEMMA InvariantOfCapture == Spec => []IInv
<1>1. Init => IInv
  BY InitCapture
<1>2. IInv /\ [Next]_vars => IInv'
  BY StepCapture
<1> QED
  BY <1>1, <1>2, PTL DEF Spec

(* What a session counts is true, however many sessions, reports and        *)
(* entries there are and whatever is lost, late or of a wrong token: every  *)
(* accepted report is an occurrence of a retained entry or an overflow,     *)
(* nothing overflows while there is room, and no more is counted, in all or *)
(* of one invocation, than was queued with the session's token              *)
(* (Session::start's worker, same_token, Session::stop).                    *)
THEOREM CountsCorrect == Spec => []CountsAreTrue
<1>1. IInv => CountsAreTrue
  BY CaptureFollows
<1> QED
  BY <1>1, InvariantOfCapture, PTL

(* When the host is disconnected nothing is queued, and every report that   *)
(* was queued, also by a report() that raced with disconnect(), was handed  *)
(* to the endpoint, with the token, that it was queued for (Client::report, *)
(* Client::disconnect).                                                     *)
THEOREM QueuedReportsSent == Spec => []QueuedReportsAreSent
<1>1. IInv => QueuedReportsAreSent
  BY CaptureFollows
<1> QED
  BY <1>1, InvariantOfCapture, PTL

(* A preview merges entries of the session they were shown in, and while    *)
(* that session is active all that was shown is retained (capture_session,  *)
(* capture_preview).                                                        *)
THEOREM PreviewsCorrect == Spec => []PreviewsAreOfShownEntries
<1>1. IInv => PreviewsAreOfShownEntries
  BY CaptureFollows
<1> QED
  BY <1>1, InvariantOfCapture, PTL
=============================================================================
