-------------------------- MODULE DecisionTraceProofs --------------------------
(***************************************************************************)
(* What a trace says of the adaptations it records, for every pattern map, *)
(* model and capacity, any number of evaluations, resets, boots and        *)
(* rotations, and whatever the gates make of the interactions.             *)
(***************************************************************************)
EXTENDS DecisionTrace, FiniteSetTheorems, FunctionTheorems, SequenceTheorems,
        WellFoundedInduction, TLAPS

(***************************************************************************)
(* The inductive invariant. What it says of the records is said of their   *)
(* order, so that it outlives the loss of the oldest ones.                 *)
(***************************************************************************)
Record == InterventionRecord(Types)
Prediction == PredictionRecord(Types, NoType)
Decision == DecisionRecord(Types, NoType)
EndingKinds == {"reverted", "dismissed"}

(* Records Q when the adaptations L are on the page, o has begun the        *)
(* episodes, p predictions have been made and C was carried over.           *)
IsUp(L, e) == \E t \in Types : L[t] = e
Numbered(Q, o, p) ==
  \A k \in 1..Len(Q) : Q[k].episode \in 1..Len(o) /\ Q[k].prediction \in 0..p
AcceptedForTheirOrigin(Q, o) ==
  \A k \in 1..Len(Q) : Q[k].kind = "accepted" => Q[k].prediction = o[Q[k].episode]
EndedAfterApplied(Q, L) ==
  \A k \in 1..Len(Q) : Q[k].kind = "applied" /\ ~IsUp(L, Q[k].episode) =>
    \E j \in 1..Len(Q) : k < j /\ Q[j].kind \in EndingKinds /\ Q[j].episode = Q[k].episode
EndedAreDown(Q, L) ==
  \A k \in 1..Len(Q) : Q[k].kind \in EndingKinds => ~IsUp(L, Q[k].episode)
AppliedHere(Q, C) == \A k \in 1..Len(Q) : Q[k].kind = "applied" => Q[k].episode \notin C
RecordsInOrder(Q, L, o, p, C) ==
  /\ Numbered(Q, o, p) /\ AcceptedForTheirOrigin(Q, o)
  /\ EndedAfterApplied(Q, L) /\ EndedAreDown(Q, L) /\ AppliedHere(Q, C)

(* What has not lost a record has the acceptance of every episode before    *)
(* its other records, and that of every prediction decided.                 *)
HasKind(Q, kinds, e) == \E k \in 1..Len(Q) : Q[k].kind \in kinds /\ Q[k].episode = e
AcceptedFirst(Q, C) ==
  \A k \in 1..Len(Q) : Q[k].episode \in C \/
    \E j \in 1..Len(Q) : j <= k /\ Q[j].kind = "accepted" /\ Q[j].episode = Q[k].episode
IsAcceptance(r, d) == r.kind = "accepted" /\ r.type = d.candidate /\ r.prediction = d.prediction
DecidedFirst(Q, D) ==
  \A i \in 1..Len(D), k \in 1..Len(Q) :
    Q[k].type = D[i].candidate /\ Q[k].prediction = D[i].prediction =>
      \E j \in 1..Len(Q) : j <= k /\ IsAcceptance(Q[j], D[i])
CurrentAccepted(Q, D, current) ==
  \A i \in 1..Len(D) : D[i].prediction = current =>
    \E j \in 1..Len(Q) : IsAcceptance(Q[j], D[i])
UpWereApplied(Q, L, C) ==
  \A t \in Types : L[t] # 0 => L[t] \in C \/ HasKind(Q, {"applied"}, L[t])
EndedWereApplied(Q, C) ==
  \A k \in 1..Len(Q) : Q[k].kind \in EndingKinds =>
    Q[k].episode \in C \/ HasKind(Q, {"applied"}, Q[k].episode)
NothingLost(Q, D, L, C, current) ==
  /\ AcceptedFirst(Q, C) /\ DecidedFirst(Q, D) /\ CurrentAccepted(Q, D, current)
  /\ UpWereApplied(Q, L, C) /\ EndedWereApplied(Q, C)
AllDecided(P, D) == \A i \in 1..Len(P) : \E j \in 1..Len(D) : D[j].prediction = P[i].id

(* The predictions and decisions.                                           *)
PredictionsNumbered(P, D, p) ==
  /\ \A i \in 1..Len(P) : P[i].window # 0 /\ P[i].id \in 1..p
  /\ \A i \in 1..Len(D) : D[i].prediction \in 1..p

(* Every type has an adaptation of its own, and the page of a baseline trial*)
(* none.                                                                    *)
OneEach == \A t, u \in Types : live[t] = live[u] /\ live[t] # 0 => t = u
Bare(Q) == \A k \in 1..Len(Q) : Q[k].kind # "applied"
BaselineIsBare ==
  config.condition = "baseline" => live = NoneLive /\ Bare(trace.interventions)
RoomForTheFlight == flight # NoFlight => predictionCounter < MaxPredictions

(* What a trace t says, given the page, the ids and what was carried over.  *)
SaysOf(t, L, o, p, C, current) ==
  /\ RecordsInOrder(t.interventions, L, o, p, C)
  /\ PredictionsNumbered(t.predictions, t.decisions, p)
  /\ ~t.truncated => /\ NothingLost(t.interventions, t.decisions, L, C, current)
                     /\ AllDecided(t.predictions, t.decisions)

TraceInv ==
  /\ TypeOK /\ OneEach /\ BaselineIsBare /\ RoomForTheFlight
  /\ SaysOf(trace, live, origin, predictionCounter, carried, currentPredictionId)

(* The invariant in two halves: the worker's, and that of the page and the  *)
(* trace.                                                                   *)
WorkerTyped ==
  /\ config \in Configs /\ running \in BOOLEAN
  /\ slowGate \in {"mock", "onnx"} /\ (slowGate = "onnx" => config.slow = "onnx")
  /\ latestWindow \in 0..MaxWindows
  /\ macros \in Seq(Symbol \X (0..MaxWindows)) /\ Len(macros) <= MaxMacros
  /\ flight = NoFlight \/ flight \in [fast: Decisions, mined: BOOLEAN, window: 1..MaxWindows]
  /\ ~running => flight = NoFlight /\ live = NoneLive /\ macros = << >>
Bounded(t) ==
  \A b \in {t.predictions, t.decisions, t.interventions} : Len(b) <= MaxBufferSize
IdsTyped ==
  /\ predictionCounter \in 0..MaxPredictions
  /\ currentPredictionId \in 0..predictionCounter
  /\ origin \in Seq(1..predictionCounter)
  /\ live \in [Types -> {0} \cup Episodes]
  /\ trace \in Trace(Types, NoType) /\ Bounded(trace)
  /\ carried \subseteq Episodes
PageAndTrace ==
  /\ IdsTyped /\ OneEach /\ BaselineIsBare
  /\ SaysOf(trace, live, origin, predictionCounter, carried, currentPredictionId)

(***************************************************************************)
(* Enumerations.                                                            *)
(***************************************************************************)
(* Standings go from one to the number of members, and grow with them.          *)
LEMMA Standings ==
  ASSUME NEW S \in SUBSET Int, IsFiniteSet(S)
  PROVE  /\ \A i \in S : Standing(i, S) \in 1..Cardinality(S)
         /\ \A i, j \in S : i < j <=> Standing(i, S) < Standing(j, S)
<1> DEFINE Upto(i) == {j \in S : j <= i}
<1>1. ASSUME NEW i \in S
      PROVE  /\ IsFiniteSet(Upto(i)) /\ Cardinality(Upto(i)) \in Nat \ {0}
             /\ Cardinality(Upto(i)) <= Cardinality(S) /\ Cardinality(S) \in Nat
  <2>1. Upto(i) \in SUBSET S /\ i \in Upto(i)
    OBVIOUS
  <2>2. IsFiniteSet(Upto(i)) /\ Cardinality(Upto(i)) <= Cardinality(S)
    BY <2>1, FS_Subset
  <2>3. Cardinality(Upto(i)) \in Nat /\ Cardinality(S) \in Nat
    BY <2>2, FS_CardinalityType
  <2>4. Cardinality(Upto(i)) # 0
    BY <2>1, <2>2, FS_EmptySet
  <2> QED
    BY <2>2, <2>3, <2>4
<1>2. ASSUME NEW i \in S, NEW j \in S, i < j
      PROVE  Cardinality(Upto(i)) < Cardinality(Upto(j))
  <2>1. i \in Int /\ j \in Int /\ \A m \in S : m \in Int
    OBVIOUS
  <2>2. \A m \in S : m <= i => m <= j
    BY <1>2, <2>1
  <2>3. Upto(i) \in SUBSET Upto(j) /\ j \in Upto(j) /\ j \notin Upto(i)
    <3>1. Upto(i) \subseteq Upto(j)
      BY <2>2
    <3>2. j \in Upto(j)
      BY <2>1
    <3>3. j \notin Upto(i)
      BY <1>2, <2>1
    <3> QED
      BY <3>1, <3>2, <3>3
  <2>4. Cardinality(Upto(i)) <= Cardinality(Upto(j)) /\ Cardinality(Upto(i)) # Cardinality(Upto(j))
    BY <1>1, <2>3, FS_Subset
  <2> QED
    BY <1>1, <2>4
<1>3. \A i \in S : Standing(i, S) = Cardinality(Upto(i))
  BY DEF Standing
<1> HIDE DEF Upto
<1>4. \A i \in S : Standing(i, S) \in 1..Cardinality(S)
  BY <1>1, <1>3
<1>5. \A i, j \in S : i < j => Standing(i, S) < Standing(j, S)
  BY <1>2, <1>3
<1>6. ASSUME NEW i \in S, NEW j \in S, Standing(i, S) < Standing(j, S) PROVE i < j
  <2>1. CASE j < i
    BY <2>1, <1>4, <1>5, <1>6
  <2>2. CASE i = j
    BY <2>2, <1>4, <1>6
  <2> QED
    BY <2>1, <2>2
<1> QED
  BY <1>4, <1>5, <1>6

(* Ordered(S) has every member of S, each after the smaller ones.           *)
LEMMA OrderedEnumerates ==
  ASSUME NEW S \in SUBSET Int, IsFiniteSet(S)
  PROVE  /\ Cardinality(S) \in Nat /\ Ordered(S) \in [1..Cardinality(S) -> S]
         /\ \A j, k \in 1..Cardinality(S) : j < k => Ordered(S)[j] < Ordered(S)[k]
         /\ \A i \in S : \E k \in 1..Cardinality(S) : Ordered(S)[k] = i
<1> DEFINE n == Cardinality(S)
           rank == [i \in S |-> Standing(i, S)]
<1>1. n \in Nat /\ IsFiniteSet(1..n) /\ Cardinality(1..n) = n
  BY FS_CardinalityType, FS_Interval
<1>2. rank \in [S -> 1..n] /\ \A i, j \in S : rank[i] = rank[j] => i = j
  <2>1. \A i, j \in S : Standing(i, S) = Standing(j, S) => i = j
    <3> SUFFICES ASSUME NEW i \in S, NEW j \in S, Standing(i, S) = Standing(j, S), i # j PROVE FALSE
      OBVIOUS
    <3>1. i < j \/ j < i
      OBVIOUS
    <3>2. Standing(i, S) \in Int /\ Standing(j, S) \in Int
      BY Standings, <1>1
    <3> QED
      BY <3>1, <3>2, Standings
  <2> QED
    BY <2>1, Standings
<1>3. rank \in Surjection(S, 1..n)
  <2>1. rank \in Injection(S, 1..n)
    BY <1>2, Fun_IsInj
  <2> QED
    BY <1>1, <2>1, FS_Injection
<1>4. \A k \in 1..n : \E i \in S : Standing(i, S) = k
  <2>1. \A k \in 1..n : \E i \in S : rank[i] = k
    BY <1>3 DEF Surjection
  <2> QED
    BY <2>1
<1>5. \A k \in 1..n : Ordered(S)[k] \in S /\ Standing(Ordered(S)[k], S) = k
  BY <1>4 DEF Ordered
<1>6. Ordered(S) \in [1..n -> S]
  BY <1>5 DEF Ordered
<1>7. \A j, k \in 1..n : j < k => Ordered(S)[j] < Ordered(S)[k]
  BY <1>5, Standings
<1>8. ASSUME NEW i \in S PROVE \E k \in 1..n : Ordered(S)[k] = i
  <2>1. Standing(i, S) \in 1..n
    BY Standings
  <2>2. Ordered(S)[Standing(i, S)] = i
    BY <2>1, <1>2, <1>5
  <2> QED
    BY <2>1, <2>2
<1> QED
  BY <1>1, <1>6, <1>7, <1>8

(* A set of natural numbers that is not empty has a least element.          *)
LEMMA LeastNumber ==
  ASSUME NEW T \in SUBSET Nat, T # {}
  PROVE  \E n \in T : \A m \in T : ~(m < n)
<1> DEFINE Less == {p \in Nat \X Nat : p[1] < p[2]}
<1>1. IsWellFoundedOn(Less, Nat)
  BY NatLessThanWellFounded DEF OpToRel
<1>2. \A m, k \in Nat : m < k => <<m, k>> \in Less
  OBVIOUS
<1> HIDE DEF Less
<1>3. PICK n \in T : \A m \in T : ~(<<m, n>> \in Less)
  BY <1>1, WFMin
<1>4. \A m \in T : ~(m < n)
  BY <1>2, <1>3
<1> QED
  BY <1>4


(* A sequence followed by another: an element of one or of the other, those *)
(* of the first in their places.                                            *)
LEMMA Appended ==
  ASSUME NEW A, NEW s \in Seq(A), NEW t \in Seq(A), NEW u, u = s \o t
  PROVE  /\ u \in Seq(A) /\ Len(u) \in Nat /\ DOMAIN u = 1..Len(u)
         /\ \A k \in 1..Len(s) : k \in 1..Len(u) /\ u[k] = s[k]
         /\ \A x \in 1..Len(t) : x + Len(s) \in 1..Len(u) /\ u[x + Len(s)] = t[x]
         /\ \A k \in 1..Len(u) :
              \/ k \in 1..Len(s) /\ u[k] = s[k]
              \/ \E x \in 1..Len(t) : k = x + Len(s) /\ u[k] = t[x]
         /\ \A k \in 1..Len(u) : k \notin 1..Len(s) =>
              k - Len(s) \in 1..Len(t) /\ k = (k - Len(s)) + Len(s) /\ u[k] = t[k - Len(s)]
<1>1. /\ u \in Seq(A) /\ Len(u) = Len(s) + Len(t)
      /\ \A i \in 1..(Len(s) + Len(t)) : u[i] = IF i <= Len(s) THEN s[i] ELSE t[i - Len(s)]
  BY ConcatProperties
<1>2. Len(s) \in Nat /\ Len(t) \in Nat /\ Len(u) \in Nat /\ DOMAIN u = 1..Len(u)
  BY <1>1
<1>3. \A k \in 1..Len(s) : k \in 1..Len(u) /\ u[k] = s[k]
  BY <1>1, <1>2
<1>4. ASSUME NEW x \in 1..Len(t)
      PROVE  x + Len(s) \in 1..Len(u) /\ u[x + Len(s)] = t[x]
  <2>1. /\ x + Len(s) \in 1..(Len(s) + Len(t)) /\ ~(x + Len(s) <= Len(s))
        /\ (x + Len(s)) - Len(s) = x
    BY <1>2
  <2> QED
    BY <1>1, <2>1
<1>5. ASSUME NEW k \in 1..Len(u), k \notin 1..Len(s)
      PROVE  k - Len(s) \in 1..Len(t) /\ k = (k - Len(s)) + Len(s) /\ u[k] = t[k - Len(s)]
  <2>1. k - Len(s) \in 1..Len(t) /\ k = (k - Len(s)) + Len(s)
    BY <1>1, <1>2, <1>5
  <2>2. u[(k - Len(s)) + Len(s)] = t[k - Len(s)]
    BY <1>4, <2>1
  <2> QED
    BY <2>1, <2>2
<1>6. \A k \in 1..Len(u) :
        \/ k \in 1..Len(s) /\ u[k] = s[k]
        \/ \E x \in 1..Len(t) : k = x + Len(s) /\ u[k] = t[x]
  BY <1>3, <1>5
<1> QED
  BY <1>1, <1>2, <1>3, <1>4, <1>5, <1>6

(* An element of u is one of s in its place or one of t.                    *)
Joins(u, s, t) ==
  \A k \in 1..Len(u) :
    \/ k \in 1..Len(s) /\ u[k] = s[k]
    \/ \E x \in 1..Len(t) : k = x + Len(s) /\ u[k] = t[x]

(* So it is for a concatenation.                                            *)
LEMMA JoinsBoth ==
  ASSUME NEW A, NEW s \in Seq(A), NEW t \in Seq(A)
  PROVE  Joins(s \o t, s, t)
<1> DEFINE u == s \o t
<1>1. u = s \o t
  OBVIOUS
<1> HIDE DEF u
<1>2. \A k \in 1..Len(u) :
        \/ k \in 1..Len(s) /\ u[k] = s[k]
        \/ \E x \in 1..Len(t) : k = x + Len(s) /\ u[k] = t[x]
  BY <1>1, Appended
<1>3. Joins(u, s, t)
  BY <1>2 DEF Joins
<1> QED
  BY <1>3 DEF u

(* The latest n of a sequence are its end, and all of it if it is not       *)
(* longer.                                                                  *)
LEMMA LatestIsSuffix ==
  ASSUME NEW A, NEW Q \in Seq(A), NEW n \in Nat \ {0}, NEW R, R = Latest(Q, n)
  PROVE  /\ R \in Seq(A) /\ Len(R) \in Nat /\ Len(R) <= n
         /\ Len(Q) <= n => R = Q
         /\ Len(Q) - Len(R) \in Nat
         /\ \A k \in 1..Len(R) : /\ k + (Len(Q) - Len(R)) \in 1..Len(Q)
                                 /\ R[k] = Q[k + (Len(Q) - Len(R))]
<1>1. Len(Q) \in Nat
  OBVIOUS
<1>2. CASE Len(Q) <= n
  <2>1. R = Q
    BY <1>1, <1>2 DEF Latest
  <2>2. /\ Len(Q) - Len(R) \in Nat
        /\ \A k \in 1..Len(R) : /\ k + (Len(Q) - Len(R)) \in 1..Len(Q)
                                /\ R[k] = Q[k + (Len(Q) - Len(R))]
    BY <1>1, <2>1
  <2>3. Len(R) \in Nat /\ Len(R) <= n /\ R \in Seq(A)
    BY <1>1, <1>2, <2>1
  <2> QED
    BY <2>1, <2>2, <2>3
<1>3. CASE ~(Len(Q) <= n)
  <2> DEFINE d == Len(Q) - n
  <2>1. d \in Nat /\ 1 <= d + 1 /\ d + 1 = Len(Q) - n + 1 /\ Len(Q) > n
    BY <1>1, <1>3
  <2>2. R = SubSeq(Q, d + 1, Len(Q))
    BY <2>1 DEF Latest
  <2>3. /\ R \in Seq(A) /\ Len(R) = Len(Q) - (d + 1) + 1
        /\ \A k \in 1..Len(R) : R[k] = Q[(d + 1) + k - 1]
    <3> HIDE DEF d
    <3>1. d + 1 \in 1..(Len(Q) + 1) /\ Len(Q) \in d..Len(Q)
      BY <1>1, <1>3, <2>1
    <3> QED
      BY <1>1, <2>1, <2>2, <3>1, SubSeqProperties
  <2>4. Len(R) = n /\ Len(Q) = Len(R) + d
    BY <1>1, <2>3
  <2>5. \A k \in 1..Len(R) : k + d \in 1..Len(Q) /\ R[k] = Q[k + d]
    <3> SUFFICES ASSUME NEW k \in 1..Len(R) PROVE k + d \in 1..Len(Q) /\ R[k] = Q[k + d]
      OBVIOUS
    <3>1. (d + 1) + k - 1 = k + d /\ k + d \in 1..Len(Q)
      BY <1>1, <2>1, <2>4
    <3> QED
      BY <2>3, <3>1
  <2> HIDE DEF d
  <2>6. /\ Len(Q) - Len(R) = d /\ Len(Q) - Len(R) \in Nat
        /\ \A k \in 1..Len(R) : /\ k + (Len(Q) - Len(R)) \in 1..Len(Q)
                                /\ R[k] = Q[k + (Len(Q) - Len(R))]
    <3>1. Len(Q) - Len(R) = d
      BY <1>1, <2>1, <2>4
    <3> QED
      BY <2>1, <2>5, <3>1
  <2>7. Len(R) \in Nat /\ Len(R) <= n /\ R \in Seq(A)
    BY <2>3, <2>4
  <2> QED
    BY <1>3, <2>6, <2>7
<1> QED
  BY <1>2, <1>3

(* Records in order stay so when the oldest are lost.                       *)
LEMMA SuffixInOrder ==
  ASSUME NEW Q \in Seq(Record), NEW L, NEW o, NEW p, NEW C, RecordsInOrder(Q, L, o, p, C),
         NEW n \in Nat \ {0}, NEW R, R = Latest(Q, n)
  PROVE  RecordsInOrder(R, L, o, p, C)
<1>1. R \in Seq(Record) /\ Len(R) \in Nat /\ Len(Q) \in Nat
  BY LatestIsSuffix
<1> DEFINE d == Len(Q) - Len(R)
<1>2. d \in Nat /\ \A k \in 1..Len(R) : k + d \in 1..Len(Q) /\ R[k] = Q[k + d]
  BY LatestIsSuffix
<1>length. Len(Q) = Len(R) + d
  BY <1>1
<1> HIDE DEF d
<1>3. Numbered(R, o, p)
  BY <1>2 DEF RecordsInOrder, Numbered
<1>4. AcceptedForTheirOrigin(R, o)
  BY <1>2 DEF RecordsInOrder, AcceptedForTheirOrigin
<1>5. EndedAfterApplied(R, L)
  <2> SUFFICES ASSUME NEW k \in 1..Len(R), R[k].kind = "applied", ~IsUp(L, R[k].episode)
               PROVE  \E j \in 1..Len(R) : k < j /\ R[j].kind \in EndingKinds
                                           /\ R[j].episode = R[k].episode
    BY DEF EndedAfterApplied
  <2>1. k + d \in 1..Len(Q) /\ R[k] = Q[k + d]
    BY <1>2
  <2>2. PICK j \in 1..Len(Q) : k + d < j /\ Q[j].kind \in EndingKinds
                               /\ Q[j].episode = Q[k + d].episode
    BY <2>1 DEF RecordsInOrder, EndedAfterApplied
  <2>3. j - d \in 1..Len(R) /\ (j - d) + d = j /\ k < j - d
    BY <1>1, <1>2, <1>length, <2>2
  <2>4. R[j - d] = Q[j]
    BY <1>2, <2>3
  <2> QED
    BY <2>1, <2>2, <2>3, <2>4
<1>6. EndedAreDown(R, L)
  BY <1>2 DEF RecordsInOrder, EndedAreDown
<1>7. AppliedHere(R, C)
  BY <1>2 DEF RecordsInOrder, AppliedHere
<1> QED
  BY <1>3, <1>4, <1>5, <1>6, <1>7 DEF RecordsInOrder

(* What is recorded: the latest of each buffer, and all of it when nothing  *)
(* was evicted.                                                             *)
LEMMA RecordedKeeps ==
  ASSUME trace \in Trace(Types, NoType),
         Bounded(trace),
         NEW P \in Seq(Prediction), NEW D \in Seq(Decision), NEW I \in Seq(Record),
         NEW new, new = Recorded(trace, P, D, I)
  PROVE  /\ new \in Trace(Types, NoType)
         /\ Bounded(new)
         /\ new.predictions = Latest(trace.predictions \o P, MaxBufferSize)
         /\ new.decisions = Latest(trace.decisions \o D, MaxBufferSize)
         /\ new.interventions = Latest(trace.interventions \o I, MaxBufferSize)
         /\ ~new.truncated => /\ ~trace.truncated
                              /\ new.predictions = trace.predictions \o P
                              /\ new.decisions = trace.decisions \o D
                              /\ new.interventions = trace.interventions \o I
<1> DEFINE preds == trace.predictions
           decs == trace.decisions
           recs == trace.interventions
           tp == Latest(preds \o P, MaxBufferSize)
           td == Latest(decs \o D, MaxBufferSize)
           ti == Latest(recs \o I, MaxBufferSize)
           tt == trace.truncated \/ Evicts(preds, P) \/ Evicts(decs, D) \/ Evicts(recs, I)
<1>1. /\ preds \in Seq(Prediction) /\ decs \in Seq(Decision) /\ recs \in Seq(Record)
      /\ trace.truncated \in BOOLEAN
  BY DEF Trace, Prediction, Decision, Record
<1>2. MaxBufferSize \in Nat \ {0}
  BY TraceAssumption
<1>3. /\ preds \o P \in Seq(Prediction) /\ Len(preds \o P) = Len(preds) + Len(P)
      /\ decs \o D \in Seq(Decision) /\ Len(decs \o D) = Len(decs) + Len(D)
      /\ recs \o I \in Seq(Record) /\ Len(recs \o I) = Len(recs) + Len(I)
      /\ Len(preds) \in Nat /\ Len(P) \in Nat /\ Len(decs) \in Nat /\ Len(D) \in Nat
      /\ Len(recs) \in Nat /\ Len(I) \in Nat
  <2> HIDE DEF preds, decs, recs
  <2>1. preds \o P \in Seq(Prediction) /\ Len(preds \o P) = Len(preds) + Len(P)
    BY <1>1, ConcatProperties
  <2>2. decs \o D \in Seq(Decision) /\ Len(decs \o D) = Len(decs) + Len(D)
    BY <1>1, ConcatProperties
  <2>3. recs \o I \in Seq(Record) /\ Len(recs \o I) = Len(recs) + Len(I)
    BY <1>1, ConcatProperties
  <2> QED
    BY <1>1, <2>1, <2>2, <2>3
<1>4. /\ tp \in Seq(Prediction) /\ Len(tp) <= MaxBufferSize
      /\ td \in Seq(Decision) /\ Len(td) <= MaxBufferSize
      /\ ti \in Seq(Record) /\ Len(ti) <= MaxBufferSize
  <2> HIDE DEF preds, decs, recs
  <2>1. tp \in Seq(Prediction) /\ Len(tp) <= MaxBufferSize
    BY <1>2, <1>3, LatestIsSuffix
  <2>2. td \in Seq(Decision) /\ Len(td) <= MaxBufferSize
    BY <1>2, <1>3, LatestIsSuffix
  <2>3. ti \in Seq(Record) /\ Len(ti) <= MaxBufferSize
    BY <1>2, <1>3, LatestIsSuffix
  <2> QED
    BY <2>1, <2>2, <2>3
<1>5. /\ ~Evicts(preds, P) => tp = preds \o P
      /\ ~Evicts(decs, D) => td = decs \o D
      /\ ~Evicts(recs, I) => ti = recs \o I
  <2> HIDE DEF preds, decs, recs
  <2>1. ~Evicts(preds, P) => tp = preds \o P
    <3>1. ~Evicts(preds, P) => Len(preds \o P) <= MaxBufferSize
      BY <1>2, <1>3 DEF Evicts
    <3> QED
      BY <1>2, <1>3, <3>1 DEF Latest
  <2>2. ~Evicts(decs, D) => td = decs \o D
    <3>1. ~Evicts(decs, D) => Len(decs \o D) <= MaxBufferSize
      BY <1>2, <1>3 DEF Evicts
    <3> QED
      BY <1>2, <1>3, <3>1 DEF Latest
  <2>3. ~Evicts(recs, I) => ti = recs \o I
    <3>1. ~Evicts(recs, I) => Len(recs \o I) <= MaxBufferSize
      BY <1>2, <1>3 DEF Evicts
    <3> QED
      BY <1>2, <1>3, <3>1 DEF Latest
  <2> QED
    BY <2>1, <2>2, <2>3
<1>6. tt \in BOOLEAN
  BY <1>1
<1>7. new = [predictions |-> tp, decisions |-> td, interventions |-> ti, truncated |-> tt]
  BY DEF Recorded, Kept
<1> HIDE DEF tp, td, ti
<1>8. /\ new.predictions = tp /\ new.decisions = td /\ new.interventions = ti
      /\ new.truncated = tt
  BY <1>7
<1>9. ~tt => ~trace.truncated /\ ~Evicts(preds, P) /\ ~Evicts(decs, D) /\ ~Evicts(recs, I)
  OBVIOUS
<1> HIDE DEF tt, preds, decs, recs
<1>10. new \in Trace(Types, NoType)
  BY <1>4, <1>6, <1>7 DEF Trace, Prediction, Decision, Record
<1> QED
  BY <1>4, <1>5, <1>8, <1>9, <1>10 DEF tp, td, ti, preds, decs, recs, Bounded

(***************************************************************************)
(* The records of endings.                                                  *)
(***************************************************************************)
(* Records I end exactly the adaptations of S that are on the page, for the *)
(* prediction c.                                                            *)
EndsAll(I, S, c) ==
  /\ \A k \in 1..Len(I) :
       /\ I[k].kind \in EndingKinds /\ I[k].prediction = c
       /\ I[k].type \in S /\ live[I[k].type] # 0 /\ I[k].episode = live[I[k].type]
  /\ \A t \in S : live[t] # 0 => \E k \in 1..Len(I) : I[k].episode = live[t]
PageOf(n) == live \in [Types -> {0} \cup 1..n] /\ OneEach

(* EndingsOf has one record of every adaptation it ends.                    *)
LEMMA EndingsEnd ==
  ASSUME NEW n \in Nat, PageOf(n), NEW S \in SUBSET Types, NEW kind \in EndingKinds,
         NEW c \in Nat, NEW I, I = EndingsOf(S, kind, c)
  PROVE  I \in Seq(Record) /\ EndsAll(I, S, c)
<1> DEFINE ended == LiveAmong(S)
           e == Ordered(ended)
           m == Cardinality(ended)
<1>1. ended \in SUBSET (1..n) /\ \A x \in ended : \E t \in S : live[t] = x
  BY DEF PageOf, LiveAmong
<1>2. IsFiniteSet(ended)
  <2>1. IsFiniteSet(1..n)
    BY FS_Interval
  <2> HIDE DEF ended
  <2> QED
    BY <1>1, <2>1, FS_Subset
<1>3. ended \in SUBSET Int
  BY <1>1
<1>4. \A t \in S : live[t] # 0 => live[t] \in ended
  BY DEF LiveAmong
<1> HIDE DEF ended
<1>5. /\ m \in Nat /\ e \in [1..m -> ended]
      /\ \A i \in ended : \E k \in 1..m : e[k] = i
  BY <1>2, <1>3, OrderedEnumerates
<1> HIDE DEF m
<1>6. DOMAIN e = 1..m /\ I = [k \in 1..m |-> Event(kind, TypeOf(e[k]), e[k], c)]
  <2>1. DOMAIN e = 1..m
    BY <1>5
  <2>2. I = [k \in DOMAIN e |-> Event(kind, TypeOf(e[k]), e[k], c)]
    BY DEF EndingsOf, ended
  <2> HIDE DEF e
  <2> QED
    BY <2>1, <2>2
<1> HIDE DEF e
<1>7. \A k \in 1..m : e[k] \in ended /\ e[k] \in 1..n
  BY <1>1, <1>5
<1>8. ASSUME NEW k \in 1..m
      PROVE  TypeOf(e[k]) \in S /\ live[TypeOf(e[k])] = e[k]
  <2>1. PICK t \in S : live[t] = e[k]
    BY <1>1, <1>7
  <2>2. TypeOf(e[k]) \in Types /\ live[TypeOf(e[k])] = e[k]
    BY <2>1 DEF TypeOf
  <2>3. TypeOf(e[k]) = t
    BY <1>7, <2>1, <2>2 DEF PageOf, OneEach
  <2> QED
    BY <2>1, <2>3
<1>9. ASSUME NEW k \in 1..m
      PROVE  /\ I[k] = Event(kind, TypeOf(e[k]), e[k], c) /\ I[k] \in Record
             /\ I[k].kind = kind /\ I[k].prediction = c
             /\ I[k].type = TypeOf(e[k]) /\ I[k].episode = e[k]
  <2>1. I[k] = Event(kind, TypeOf(e[k]), e[k], c)
    BY <1>6
  <2>2. kind \in EventKinds /\ TypeOf(e[k]) \in Types /\ e[k] \in Nat
    BY <1>7, <1>8 DEF EndingKinds, EventKinds
  <2> QED
    BY <2>1, <2>2 DEF Event, Record, InterventionRecord
<1>10. I \in Seq(Record) /\ Len(I) = m
  BY <1>5, <1>6, <1>9
<1>11. ASSUME NEW k \in 1..Len(I)
       PROVE  /\ I[k].kind \in EndingKinds /\ I[k].prediction = c
              /\ I[k].type \in S /\ live[I[k].type] # 0 /\ I[k].episode = live[I[k].type]
  <2>1. k \in 1..m
    BY <1>10
  <2>2. TypeOf(e[k]) \in S /\ live[TypeOf(e[k])] = e[k] /\ e[k] # 0
    BY <1>7, <1>8, <2>1
  <2>3. /\ I[k].kind = kind /\ I[k].prediction = c
        /\ I[k].type = TypeOf(e[k]) /\ I[k].episode = e[k]
    BY <1>9, <2>1
  <2> QED
    BY <2>2, <2>3
<1>12. ASSUME NEW t \in S, live[t] # 0
       PROVE  \E k \in 1..Len(I) : I[k].episode = live[t]
  <2>1. PICK k \in 1..m : e[k] = live[t]
    BY <1>4, <1>5, <1>12
  <2>2. k \in 1..Len(I) /\ I[k].episode = live[t]
    BY <1>9, <1>10, <2>1
  <2> QED
    BY <2>2
<1> QED
  BY <1>10, <1>11, <1>12 DEF EndsAll

(* What is left of the page when the adaptations of S have ended.           *)
LEMMA ClearedPage ==
  ASSUME NEW n \in Nat, PageOf(n), NEW S \in SUBSET Types
  PROVE  /\ Cleared(S) \in [Types -> {0} \cup 1..n]
         /\ \A t \in Types : Cleared(S)[t] = IF t \in S THEN 0 ELSE live[t]
         /\ \A t, u \in Types : Cleared(S)[t] = Cleared(S)[u] /\ Cleared(S)[t] # 0 => t = u
         /\ Cleared(Types) = NoneLive
<1>1. \A t \in Types : live[t] \in {0} \cup 1..n
  BY DEF PageOf
<1>2. \A t, u \in Types : live[t] = live[u] /\ live[t] # 0 => t = u
  BY DEF PageOf, OneEach
<1>3. \A t \in Types : Cleared(S)[t] = IF t \in S THEN 0 ELSE live[t]
  BY DEF Cleared
<1>4. Cleared(S) \in [Types -> {0} \cup 1..n]
  BY <1>1 DEF Cleared
<1>5. \A t, u \in Types : Cleared(S)[t] = Cleared(S)[u] /\ Cleared(S)[t] # 0 => t = u
  BY <1>2, <1>3
<1>6. Cleared(Types) = NoneLive
  BY DEF Cleared, NoneLive
<1> QED
  BY <1>3, <1>4, <1>5, <1>6

(* Records in order stay so when endings are recorded.                      *)
LEMMA EndingsInOrder ==
  ASSUME NEW n \in Nat, PageOf(n), NEW Q \in Seq(Record), NEW I \in Seq(Record),
         NEW S \in SUBSET Types, NEW o, NEW p \in Nat, NEW c \in 0..p, NEW C, Len(o) \in Nat, n <= Len(o),
         RecordsInOrder(Q, live, o, p, C), EndsAll(I, S, c), NEW R, R = Q \o I
  PROVE  RecordsInOrder(R, Cleared(S), o, p, C)
<1>1. /\ R \in Seq(Record) /\ Len(R) \in Nat
      /\ \A k \in 1..Len(Q) : k \in 1..Len(R) /\ R[k] = Q[k]
      /\ \A x \in 1..Len(I) : x + Len(Q) \in 1..Len(R) /\ R[x + Len(Q)] = I[x]
  BY Appended
<1>2. ASSUME NEW k \in 1..Len(R), k \notin 1..Len(Q)
      PROVE  \E x \in 1..Len(I) : k = x + Len(Q) /\ R[k] = I[x]
  <2>1. \/ k \in 1..Len(Q) /\ R[k] = Q[k]
        \/ \E x \in 1..Len(I) : k = x + Len(Q) /\ R[k] = I[x]
    <3>1. Joins(R, Q, I)
      BY JoinsBoth
    <3> QED
      BY <3>1 DEF Joins
  <2> QED
    BY <1>2, <2>1
<1>ending. ASSUME NEW k \in 1..Len(R), k \notin 1..Len(Q)
           PROVE  /\ R[k].kind \in EndingKinds /\ R[k].prediction = c
                  /\ R[k].type \in S /\ live[R[k].type] # 0 /\ R[k].episode = live[R[k].type]
  <2>1. PICK x \in 1..Len(I) : k = x + Len(Q) /\ R[k] = I[x]
    BY <1>2, <1>ending
  <2> QED
    BY <2>1 DEF EndsAll
<1>live. \A t \in Types : live[t] \in {0} \cup 1..n
  BY DEF PageOf
<1>cleared. \A t \in Types : Cleared(S)[t] = IF t \in S THEN 0 ELSE live[t]
  BY ClearedPage
<1>up. \A e : e # 0 /\ IsUp(Cleared(S), e) => IsUp(live, e)
  BY <1>cleared DEF IsUp
<1>3. Numbered(R, o, p)
  <2> SUFFICES ASSUME NEW k \in 1..Len(R)
               PROVE  R[k].episode \in 1..Len(o) /\ R[k].prediction \in 0..p
    BY DEF Numbered
  <2>1. CASE k \in 1..Len(Q)
    BY <1>1, <2>1 DEF RecordsInOrder, Numbered
  <2>2. CASE k \notin 1..Len(Q)
    <3>1. R[k].episode \in 1..n
      BY <1>ending, <1>live, <2>2
    <3>2. R[k].prediction \in 0..p
      BY <1>ending, <2>2
    <3> QED
      BY <3>1, <3>2
  <2> QED
    BY <2>1, <2>2
<1>4. AcceptedForTheirOrigin(R, o)
  <2> SUFFICES ASSUME NEW k \in 1..Len(R), R[k].kind = "accepted"
               PROVE  R[k].prediction = o[R[k].episode]
    BY DEF AcceptedForTheirOrigin
  <2>1. k \in 1..Len(Q)
    BY <1>ending DEF EndingKinds
  <2> QED
    BY <1>1, <2>1 DEF RecordsInOrder, AcceptedForTheirOrigin
<1>5. EndedAfterApplied(R, Cleared(S))
  <2> SUFFICES ASSUME NEW k \in 1..Len(R), R[k].kind = "applied", ~IsUp(Cleared(S), R[k].episode)
               PROVE  \E j \in 1..Len(R) : k < j /\ R[j].kind \in EndingKinds
                                           /\ R[j].episode = R[k].episode
    BY DEF EndedAfterApplied
  <2>1. k \in 1..Len(Q) /\ R[k] = Q[k]
    BY <1>1, <1>ending DEF EndingKinds
  <2>2. CASE ~IsUp(live, R[k].episode)
    <3>1. PICK j \in 1..Len(Q) : k < j /\ Q[j].kind \in EndingKinds /\ Q[j].episode = Q[k].episode
      BY <2>1, <2>2 DEF RecordsInOrder, EndedAfterApplied
    <3>2. j \in 1..Len(R) /\ R[j] = Q[j]
      BY <1>1
    <3> QED
      BY <2>1, <3>1, <3>2
  <2>3. CASE IsUp(live, R[k].episode)
    <3>1. PICK t \in Types : live[t] = R[k].episode
      BY <2>3 DEF IsUp
    <3>2. R[k].episode # 0
      BY <2>1 DEF RecordsInOrder, Numbered
    <3>3. t \in S
      <4>1. Cleared(S)[t] # R[k].episode
        BY DEF IsUp
      <4> QED
        BY <1>cleared, <3>1, <4>1
    <3>4. PICK x \in 1..Len(I) : I[x].episode = live[t]
      BY <3>1, <3>2, <3>3 DEF EndsAll
    <3>5. /\ x + Len(Q) \in 1..Len(R) /\ R[x + Len(Q)] = I[x] /\ k < x + Len(Q)
          /\ I[x].kind \in EndingKinds
      BY <1>1, <2>1 DEF EndsAll
    <3> QED
      BY <3>1, <3>4, <3>5
  <2> QED
    BY <2>2, <2>3
<1>6. EndedAreDown(R, Cleared(S))
  <2> SUFFICES ASSUME NEW k \in 1..Len(R), R[k].kind \in EndingKinds, IsUp(Cleared(S), R[k].episode)
               PROVE  FALSE
    BY DEF EndedAreDown
  <2>0. R[k].episode # 0
    BY <1>3 DEF Numbered
  <2>1. CASE k \in 1..Len(Q)
    BY <1>1, <1>up, <2>0, <2>1 DEF RecordsInOrder, EndedAreDown
  <2>2. CASE k \notin 1..Len(Q)
    <3>1. PICK t \in Types : Cleared(S)[t] = R[k].episode
      BY DEF IsUp
    <3>2. t \notin S /\ live[t] = R[k].episode
      BY <1>cleared, <2>0, <3>1
    <3>3. R[k].type \in S /\ R[k].type \in Types /\ live[R[k].type] = R[k].episode
      BY <1>ending, <2>2
    <3> QED
      BY <2>0, <3>2, <3>3 DEF PageOf, OneEach
  <2> QED
    BY <2>1, <2>2
<1>7. AppliedHere(R, C)
  <2> SUFFICES ASSUME NEW k \in 1..Len(R), R[k].kind = "applied" PROVE R[k].episode \notin C
    BY DEF AppliedHere
  <2>1. k \in 1..Len(Q)
    BY <1>ending DEF EndingKinds
  <2> QED
    BY <1>1, <2>1 DEF RecordsInOrder, AppliedHere
<1> QED
  BY <1>3, <1>4, <1>5, <1>6, <1>7 DEF RecordsInOrder

(* Recording endings for the current prediction loses nothing.              *)
LEMMA EndingsLoseNothing ==
  ASSUME NEW n \in Nat, PageOf(n), NEW Q \in Seq(Record), NEW I \in Seq(Record),
         NEW S \in SUBSET Types, NEW c, NEW C, NEW D \in Seq(Decision),
         NothingLost(Q, D, live, C, c), EndsAll(I, S, c), NEW R, R = Q \o I
  PROVE  NothingLost(R, D, Cleared(S), C, c)
<1>1. /\ R \in Seq(Record) /\ Len(R) \in Nat /\ Len(Q) \in Nat
      /\ \A k \in 1..Len(Q) : k \in 1..Len(R) /\ R[k] = Q[k]
  BY Appended
<1>2. ASSUME NEW k \in 1..Len(R), k \notin 1..Len(Q)
      PROVE  /\ R[k].kind \in EndingKinds /\ R[k].prediction = c
             /\ R[k].type \in Types /\ live[R[k].type] # 0 /\ R[k].episode = live[R[k].type]
             /\ \A j \in 1..Len(Q) : j <= k
  <2>1. \/ k \in 1..Len(Q) /\ R[k] = Q[k]
        \/ \E x \in 1..Len(I) : k = x + Len(Q) /\ R[k] = I[x]
    <3>1. Joins(R, Q, I)
      BY JoinsBoth
    <3> QED
      BY <3>1 DEF Joins
  <2>2. PICK x \in 1..Len(I) : k = x + Len(Q) /\ R[k] = I[x]
    BY <1>2, <2>1
  <2>3. \A j \in 1..Len(Q) : j <= k
    BY <1>1, <2>2
  <2>4. /\ R[k].kind \in EndingKinds /\ R[k].prediction = c
        /\ R[k].type \in S /\ live[R[k].type] # 0 /\ R[k].episode = live[R[k].type]
    BY <2>2 DEF EndsAll
  <2> QED
    BY <2>3, <2>4
<1>cleared. \A t \in Types : Cleared(S)[t] # 0 => Cleared(S)[t] = live[t]
  BY ClearedPage
<1>has. ASSUME NEW e, HasKind(Q, {"applied"}, e) PROVE HasKind(R, {"applied"}, e)
  BY <1>1, <1>has DEF HasKind
<1>3. AcceptedFirst(R, C)
  <2> SUFFICES ASSUME NEW k \in 1..Len(R), R[k].episode \notin C
               PROVE  \E j \in 1..Len(R) : j <= k /\ R[j].kind = "accepted"
                                           /\ R[j].episode = R[k].episode
    BY DEF AcceptedFirst
  <2>1. ASSUME NEW i \in 1..Len(Q), Q[i].episode = R[k].episode, i <= k
        PROVE  \E j \in 1..Len(R) : j <= k /\ R[j].kind = "accepted"
                                    /\ R[j].episode = R[k].episode
    <3>1. PICK j \in 1..Len(Q) : j <= i /\ Q[j].kind = "accepted" /\ Q[j].episode = Q[i].episode
      BY <2>1 DEF NothingLost, AcceptedFirst
    <3>2. j \in 1..Len(R) /\ R[j] = Q[j] /\ j <= k
      BY <1>1, <2>1, <3>1
    <3> QED
      BY <2>1, <3>1, <3>2
  <2>2. CASE k \in 1..Len(Q)
    BY <1>1, <2>1, <2>2
  <2>3. CASE k \notin 1..Len(Q)
    <3>1. PICK i \in 1..Len(Q) : Q[i].episode = R[k].episode
      BY <1>2, <2>3 DEF NothingLost, UpWereApplied, HasKind
    <3> QED
      BY <1>2, <2>1, <2>3, <3>1
  <2> QED
    BY <2>2, <2>3
<1>4. DecidedFirst(R, D)
  <2> SUFFICES ASSUME NEW i \in 1..Len(D), NEW k \in 1..Len(R),
                      R[k].type = D[i].candidate, R[k].prediction = D[i].prediction
               PROVE  \E j \in 1..Len(R) : j <= k /\ IsAcceptance(R[j], D[i])
    BY DEF DecidedFirst
  <2>1. CASE k \in 1..Len(Q)
    <3>1. PICK j \in 1..Len(Q) : j <= k /\ IsAcceptance(Q[j], D[i])
      BY <1>1, <2>1 DEF NothingLost, DecidedFirst
    <3> QED
      BY <1>1, <3>1
  <2>2. CASE k \notin 1..Len(Q)
    <3>1. PICK j \in 1..Len(Q) : IsAcceptance(Q[j], D[i])
      BY <1>2, <2>2 DEF NothingLost, CurrentAccepted
    <3> QED
      BY <1>1, <1>2, <2>2, <3>1
  <2> QED
    BY <2>1, <2>2
<1>5. CurrentAccepted(R, D, c)
  BY <1>1 DEF NothingLost, CurrentAccepted
<1>6. UpWereApplied(R, Cleared(S), C)
  BY <1>cleared, <1>has DEF NothingLost, UpWereApplied
<1>7. EndedWereApplied(R, C)
  <2> SUFFICES ASSUME NEW k \in 1..Len(R), R[k].kind \in EndingKinds, R[k].episode \notin C
               PROVE  HasKind(R, {"applied"}, R[k].episode)
    BY DEF EndedWereApplied
  <2>1. HasKind(Q, {"applied"}, R[k].episode)
    <3>1. CASE k \in 1..Len(Q)
      BY <1>1, <3>1 DEF NothingLost, EndedWereApplied
    <3>2. CASE k \notin 1..Len(Q)
      BY <1>2, <3>2 DEF NothingLost, UpWereApplied
    <3> QED
      BY <3>1, <3>2
  <2> QED
    BY <1>has, <2>1
<1> QED
  BY <1>3, <1>4, <1>5, <1>6, <1>7 DEF NothingLost

(* Endings followed by endings of the same adaptations.                     *)
LEMMA EndsTwice ==
  ASSUME NEW S \in SUBSET Types, NEW c, NEW I \in Seq(Record), NEW J \in Seq(Record),
         EndsAll(I, S, c), EndsAll(J, S, c), NEW K, K = I \o J
  PROVE  K \in Seq(Record) /\ EndsAll(K, S, c)
<1>1. /\ K \in Seq(Record)
      /\ \A k \in 1..Len(I) : k \in 1..Len(K) /\ K[k] = I[k]
  BY Appended
<1>2. \A k \in 1..Len(K) :
        \/ k \in 1..Len(I) /\ K[k] = I[k]
        \/ \E x \in 1..Len(J) : k = x + Len(I) /\ K[k] = J[x]
  <2>1. Joins(K, I, J)
    BY JoinsBoth
  <2> QED
    BY <2>1 DEF Joins
<1>3. ASSUME NEW k \in 1..Len(K)
      PROVE  /\ K[k].kind \in EndingKinds /\ K[k].prediction = c
             /\ K[k].type \in S /\ live[K[k].type] # 0 /\ K[k].episode = live[K[k].type]
  <2>1. CASE k \in 1..Len(I) /\ K[k] = I[k]
    BY <2>1 DEF EndsAll
  <2>2. CASE \E x \in 1..Len(J) : k = x + Len(I) /\ K[k] = J[x]
    BY <2>2 DEF EndsAll
  <2> QED
    BY <1>2, <2>1, <2>2
<1>4. ASSUME NEW t \in S, live[t] # 0 PROVE \E k \in 1..Len(K) : K[k].episode = live[t]
  <2>1. PICK k \in 1..Len(I) : I[k].episode = live[t]
    BY <1>4 DEF EndsAll
  <2> QED
    BY <1>1, <2>1
<1> QED
  BY <1>1, <1>3, <1>4 DEF EndsAll

(***************************************************************************)
(* The records of an acceptance and of an application.                      *)
(***************************************************************************)
(* A sequence with one more element.                                        *)
LEMMA OneMore ==
  ASSUME NEW D, NEW s \in Seq(D), NEW r \in D, NEW u, u = s \o <<r>>
  PROVE  /\ u \in Seq(D) /\ Len(s) \in Nat /\ Len(u) = Len(s) + 1 /\ u[Len(s) + 1] = r
         /\ \A k \in 1..Len(s) : k \in 1..Len(u) /\ u[k] = s[k]
         /\ \A k \in 1..Len(u) : (k \in 1..Len(s) /\ u[k] = s[k]) \/ (k = Len(s) + 1 /\ u[k] = r)
<1>1. <<r>> \in Seq(D) /\ Len(<<r>>) = 1 /\ <<r>>[1] = r
  OBVIOUS
<1> DEFINE one == <<r>>
<1> HIDE DEF one
<1>2. /\ u \in Seq(D) /\ Len(u) = Len(s) + 1 /\ Len(s) \in Nat
      /\ \A i \in 1..(Len(s) + 1) : u[i] = IF i <= Len(s) THEN s[i] ELSE one[i - Len(s)]
  BY <1>1, ConcatProperties DEF one
<1>3. ~(Len(s) + 1 <= Len(s)) /\ (Len(s) + 1) - Len(s) = 1 /\ Len(s) + 1 \in 1..(Len(s) + 1)
  BY <1>2
<1>4. u[Len(s) + 1] = r
  BY <1>1, <1>2, <1>3 DEF one
<1>5. \A k \in 1..Len(s) : k \in 1..Len(u) /\ u[k] = s[k]
  BY <1>2
<1>6. \A k \in 1..Len(u) : k \in 1..Len(s) \/ k = Len(s) + 1
  BY <1>2
<1> QED
  BY <1>2, <1>4, <1>5, <1>6

(* The record of the acceptance that begins an episode.                     *)
Begins(r, n, p) == r.kind = "accepted" /\ r.episode = n + 1 /\ r.prediction = p + 1

(* Records in order stay so when an episode begins.                         *)
LEMMA AcceptanceInOrder ==
  ASSUME NEW p \in Nat, NEW o \in Seq(Nat), PageOf(Len(o)), NEW Q \in Seq(Record), NEW r \in Record, NEW C,
         RecordsInOrder(Q, live, o, p, C), Begins(r, Len(o), p),
         NEW R, R = Q \o <<r>>, NEW new, new = Append(o, p + 1)
  PROVE  RecordsInOrder(R, live, new, p + 1, C)
<1>1. /\ \A k \in 1..Len(Q) : k \in 1..Len(R) /\ R[k] = Q[k]
      /\ \A k \in 1..Len(R) : (k \in 1..Len(Q) /\ R[k] = Q[k]) \/ R[k] = r
  BY OneMore
<1>2. /\ Len(o) \in Nat /\ Len(new) = Len(o) + 1 /\ new[Len(o) + 1] = p + 1
      /\ \A e \in 1..Len(o) : e \in 1..Len(new) /\ new[e] = o[e]
  OBVIOUS
<1>3. Numbered(R, new, p + 1)
  <2> SUFFICES ASSUME NEW k \in 1..Len(R)
               PROVE  R[k].episode \in 1..Len(new) /\ R[k].prediction \in 0..(p + 1)
    BY DEF Numbered
  <2>1. CASE k \in 1..Len(Q) /\ R[k] = Q[k]
    <3>1. R[k].episode \in 1..Len(o) /\ R[k].prediction \in 0..p
      BY <2>1 DEF RecordsInOrder, Numbered
    <3>2. R[k].episode \in 1..Len(new)
      BY <1>2, <3>1
    <3>3. R[k].prediction \in 0..(p + 1)
      <4> DEFINE m == R[k].prediction
      <4>1. m \in 0..p
        BY <3>1
      <4> HIDE DEF m
      <4>2. m \in 0..(p + 1)
        BY <4>1
      <4> QED
        BY <4>2 DEF m
    <3> QED
      BY <3>2, <3>3
  <2>2. CASE R[k] = r
    BY <1>2, <2>2 DEF Begins
  <2> QED
    BY <1>1, <2>1, <2>2
<1>4. AcceptedForTheirOrigin(R, new)
  <2> SUFFICES ASSUME NEW k \in 1..Len(R), R[k].kind = "accepted"
               PROVE  R[k].prediction = new[R[k].episode]
    BY DEF AcceptedForTheirOrigin
  <2>1. CASE k \in 1..Len(Q) /\ R[k] = Q[k]
    <3>1. R[k].episode \in 1..Len(o) /\ R[k].prediction = o[R[k].episode]
      BY <2>1 DEF RecordsInOrder, Numbered, AcceptedForTheirOrigin
    <3> QED
      BY <1>2, <3>1
  <2>2. CASE R[k] = r
    BY <1>2, <2>2 DEF Begins
  <2> QED
    BY <1>1, <2>1, <2>2
<1>5. EndedAfterApplied(R, live)
  <2> SUFFICES ASSUME NEW k \in 1..Len(R), R[k].kind = "applied", ~IsUp(live, R[k].episode)
               PROVE  \E j \in 1..Len(R) : k < j /\ R[j].kind \in EndingKinds
                                           /\ R[j].episode = R[k].episode
    BY DEF EndedAfterApplied
  <2>1. k \in 1..Len(Q) /\ R[k] = Q[k]
    BY <1>1 DEF Begins
  <2>2. PICK j \in 1..Len(Q) : k < j /\ Q[j].kind \in EndingKinds /\ Q[j].episode = Q[k].episode
    BY <2>1 DEF RecordsInOrder, EndedAfterApplied
  <2> QED
    BY <1>1, <2>1, <2>2
<1>6. EndedAreDown(R, live)
  BY <1>1 DEF RecordsInOrder, EndedAreDown, Begins, EndingKinds
<1>7. AppliedHere(R, C)
  BY <1>1 DEF RecordsInOrder, AppliedHere, Begins
<1> QED
  BY <1>3, <1>4, <1>5, <1>6, <1>7 DEF RecordsInOrder

(* Decisions on a new prediction are told from the others by its number.    *)
LEMMA DecisionsAppended ==
  ASSUME NEW D \in Seq(Decision), NEW N \in Seq(Decision), NEW id, NEW type,
         \A i \in 1..Len(N) : N[i].prediction = id /\ N[i].candidate = type,
         NEW E, E = D \o N
  PROVE  /\ E \in Seq(Decision)
         /\ \A x \in 1..Len(D) : x \in 1..Len(E) /\ E[x] = D[x]
         /\ \A i \in 1..Len(E) : \/ \E x \in 1..Len(D) : E[i] = D[x]
                                 \/ E[i].prediction = id /\ E[i].candidate = type
<1>1. /\ E \in Seq(Decision)
      /\ \A x \in 1..Len(D) : x \in 1..Len(E) /\ E[x] = D[x]
  BY Appended
<1>2. \A i \in 1..Len(E) :
        \/ i \in 1..Len(D) /\ E[i] = D[i]
        \/ \E x \in 1..Len(N) : i = x + Len(D) /\ E[i] = N[x]
  <2>1. Joins(E, D, N)
    BY JoinsBoth, SMTT(30)
  <2> QED
    BY <2>1 DEF Joins
<1>3. \A x \in 1..Len(N) : N[x].prediction = id /\ N[x].candidate = type
  OBVIOUS
<1>4. \A i \in 1..Len(E) : \/ \E x \in 1..Len(D) : E[i] = D[x]
                           \/ E[i].prediction = id /\ E[i].candidate = type
  <2> TAKE i \in 1..Len(E)
  <2>1. CASE i \in 1..Len(D) /\ E[i] = D[i]
    BY <2>1
  <2>2. CASE \E x \in 1..Len(N) : i = x + Len(D) /\ E[i] = N[x]
    BY <1>3, <2>2
  <2> QED
    BY <1>2, <2>1, <2>2
<1> QED
  BY <1>1, <1>4

(* Of the prediction an episode begins for the acceptance is the first      *)
(* record.                                                                  *)
LEMMA AcceptanceLosesNothing ==
  ASSUME NEW p \in Nat, NEW o \in Seq(Nat), NEW Q \in Seq(Record), NEW r \in Record, NEW C, NEW c,
         RecordsInOrder(Q, live, o, p, C), Begins(r, Len(o), p),
         NEW D \in Seq(Decision), NEW N \in Seq(Decision), NothingLost(Q, D, live, C, c),
         \A i \in 1..Len(D) : D[i].prediction \in 1..p,
         \A i \in 1..Len(N) : N[i].prediction = p + 1 /\ N[i].candidate = r.type,
         NEW R, R = Q \o <<r>>, NEW E, E = D \o N
  PROVE  NothingLost(R, E, live, C, p + 1)
<1>1. /\ Len(Q) \in Nat /\ Len(Q) + 1 \in 1..Len(R) /\ R[Len(Q) + 1] = r
      /\ \A k \in 1..Len(Q) : k \in 1..Len(R) /\ R[k] = Q[k]
      /\ \A k \in 1..Len(R) : (k \in 1..Len(Q) /\ R[k] = Q[k]) \/ (k = Len(Q) + 1 /\ R[k] = r)
  BY OneMore
<1>2. \A i \in 1..Len(E) : \/ \E x \in 1..Len(D) : E[i] = D[x]
                           \/ E[i].prediction = p + 1 /\ E[i].candidate = r.type
  BY DecisionsAppended
<1>decided. \A x \in 1..Len(D) : D[x].prediction # p + 1
  OBVIOUS
<1>old. \A k \in 1..Len(Q) : Q[k].prediction \in 0..p
  BY DEF RecordsInOrder, Numbered
<1>has. ASSUME NEW e, HasKind(Q, {"applied"}, e) PROVE HasKind(R, {"applied"}, e)
  BY <1>1, <1>has DEF HasKind
<1>3. AcceptedFirst(R, C)
  <2> SUFFICES ASSUME NEW k \in 1..Len(R), R[k].episode \notin C
               PROVE  \E j \in 1..Len(R) : j <= k /\ R[j].kind = "accepted"
                                           /\ R[j].episode = R[k].episode
    BY DEF AcceptedFirst
  <2>1. CASE k \in 1..Len(Q) /\ R[k] = Q[k]
    <3>1. PICK j \in 1..Len(Q) : j <= k /\ Q[j].kind = "accepted" /\ Q[j].episode = Q[k].episode
      BY <2>1 DEF NothingLost, AcceptedFirst
    <3> QED
      BY <1>1, <2>1, <3>1
  <2>2. CASE R[k] = r
    <3>1. k <= k
      BY <1>1
    <3> QED
      BY <2>2, <3>1 DEF Begins
  <2> QED
    BY <1>1, <2>1, <2>2
<1>4. DecidedFirst(R, E)
  <2> SUFFICES ASSUME NEW i \in 1..Len(E), NEW k \in 1..Len(R),
                      R[k].type = E[i].candidate, R[k].prediction = E[i].prediction
               PROVE  \E j \in 1..Len(R) : j <= k /\ IsAcceptance(R[j], E[i])
    BY DEF DecidedFirst
  <2>1. CASE k \in 1..Len(Q) /\ R[k] = Q[k]
    <3>1. E[i].prediction # p + 1
      BY <1>old, <2>1
    <3>2. PICK x \in 1..Len(D) : E[i] = D[x]
      BY <1>2, <3>1
    <3>3. PICK j \in 1..Len(Q) : j <= k /\ IsAcceptance(Q[j], D[x])
      BY <2>1, <3>2 DEF NothingLost, DecidedFirst
    <3> QED
      BY <1>1, <3>2, <3>3
  <2>2. CASE k = Len(Q) + 1 /\ R[k] = r
    <3>1. k <= k /\ R[k].kind = "accepted"
      BY <1>1, <2>2 DEF Begins
    <3> QED
      BY <3>1 DEF IsAcceptance
  <2> QED
    BY <1>1, <2>1, <2>2
<1>5. CurrentAccepted(R, E, p + 1)
  <2> SUFFICES ASSUME NEW i \in 1..Len(E), E[i].prediction = p + 1
               PROVE  \E j \in 1..Len(R) : IsAcceptance(R[j], E[i])
    BY DEF CurrentAccepted
  <2>1. E[i].candidate = r.type
    BY <1>2, <1>decided
  <2> QED
    BY <1>1, <2>1 DEF IsAcceptance, Begins
<1>6. UpWereApplied(R, live, C)
  BY <1>has DEF NothingLost, UpWereApplied
<1>7. EndedWereApplied(R, C)
  <2> SUFFICES ASSUME NEW k \in 1..Len(R), R[k].kind \in EndingKinds, R[k].episode \notin C
               PROVE  HasKind(R, {"applied"}, R[k].episode)
    BY DEF EndedWereApplied
  <2>1. k \in 1..Len(Q) /\ R[k] = Q[k]
    BY <1>1 DEF Begins, EndingKinds
  <2> QED
    BY <1>has, <2>1 DEF NothingLost, EndedWereApplied
<1> QED
  BY <1>3, <1>4, <1>5, <1>6, <1>7 DEF NothingLost

(* The record of the application of an episode that no other record ends.   *)
Raised(M, L, type, e) == M[type] = e /\ \A t \in Types : t # type => M[t] = L[t]
Applies(r, L, e) == r.kind = "applied" /\ r.episode = e /\ L[r.type] = 0

(* Records in order stay so when the adaptation of an episode is applied.   *)
LEMMA ApplicationInOrder ==
  ASSUME NEW p \in Nat, NEW o \in Seq(Nat), NEW e \in 1..Len(o), NEW c \in 0..p,
         NEW L \in [Types -> Nat], NEW Q \in Seq(Record), NEW r \in Record, NEW C, e \notin C,
         RecordsInOrder(Q, L, o, p, C), Applies(r, L, e), r.prediction = c,
         \A k \in 1..Len(Q) : Q[k].kind \in EndingKinds => Q[k].episode # e,
         NEW R, R = Q \o <<r>>, NEW M, Raised(M, L, r.type, e)
  PROVE  RecordsInOrder(R, M, o, p, C)
<1>1. /\ \A k \in 1..Len(Q) : k \in 1..Len(R) /\ R[k] = Q[k]
      /\ \A k \in 1..Len(R) : (k \in 1..Len(Q) /\ R[k] = Q[k]) \/ R[k] = r
  BY OneMore
<1>2. r.type \in Types /\ M[r.type] = e /\ \A t \in Types : t # r.type => M[t] = L[t]
  BY DEF Record, InterventionRecord, Raised
<1>3. Numbered(R, o, p)
  BY <1>1 DEF RecordsInOrder, Numbered, Applies
<1>4. AcceptedForTheirOrigin(R, o)
  BY <1>1 DEF RecordsInOrder, AcceptedForTheirOrigin, Applies
<1>up. ASSUME NEW d, d # 0, IsUp(L, d) PROVE IsUp(M, d)
  <2>1. PICK t \in Types : L[t] = d
    BY <1>up DEF IsUp
  <2>2. t # r.type
    BY <1>up, <2>1 DEF Applies
  <2> QED
    BY <1>2, <2>1, <2>2 DEF IsUp
<1>down. ASSUME NEW d, d # e, IsUp(M, d) PROVE IsUp(L, d)
  <2>1. PICK t \in Types : M[t] = d
    BY <1>down DEF IsUp
  <2>2. t # r.type
    BY <1>2, <1>down, <2>1
  <2> QED
    BY <1>2, <2>1, <2>2 DEF IsUp
<1>5. EndedAfterApplied(R, M)
  <2> SUFFICES ASSUME NEW k \in 1..Len(R), R[k].kind = "applied", ~IsUp(M, R[k].episode)
               PROVE  \E j \in 1..Len(R) : k < j /\ R[j].kind \in EndingKinds
                                           /\ R[j].episode = R[k].episode
    BY DEF EndedAfterApplied
  <2>0. IsUp(M, e)
    BY <1>2 DEF IsUp
  <2>1. k \in 1..Len(Q) /\ R[k] = Q[k]
    BY <1>1, <2>0 DEF Applies
  <2>2. Q[k].episode # 0
    BY <2>1 DEF RecordsInOrder, Numbered
  <2>3. ~IsUp(L, Q[k].episode)
    BY <1>up, <2>1, <2>2
  <2>4. PICK j \in 1..Len(Q) : k < j /\ Q[j].kind \in EndingKinds /\ Q[j].episode = Q[k].episode
    BY <2>1, <2>3 DEF RecordsInOrder, EndedAfterApplied
  <2> QED
    BY <1>1, <2>1, <2>4
<1>6. EndedAreDown(R, M)
  <2> SUFFICES ASSUME NEW k \in 1..Len(R), R[k].kind \in EndingKinds, IsUp(M, R[k].episode)
               PROVE  FALSE
    BY DEF EndedAreDown
  <2>1. k \in 1..Len(Q) /\ R[k] = Q[k]
    BY <1>1 DEF Applies, EndingKinds
  <2>2. IsUp(L, Q[k].episode)
    BY <1>down, <2>1
  <2> QED
    BY <2>1, <2>2 DEF RecordsInOrder, EndedAreDown
<1>7. AppliedHere(R, C)
  BY <1>1 DEF RecordsInOrder, AppliedHere, Applies
<1> QED
  BY <1>3, <1>4, <1>5, <1>6, <1>7 DEF RecordsInOrder

(* An application loses nothing when its acceptance and those of its        *)
(* prediction are recorded.                                                 *)
LEMMA ApplicationLosesNothing ==
  ASSUME NEW e, NEW c, NEW L \in [Types -> Nat], NEW Q \in Seq(Record), NEW r \in Record, NEW C,
         NEW D \in Seq(Decision), NothingLost(Q, D, L, C, c), Applies(r, L, e), r.prediction = c,
         HasKind(Q, {"accepted"}, e), NEW R, R = Q \o <<r>>, NEW M, Raised(M, L, r.type, e)
  PROVE  NothingLost(R, D, M, C, c)
<1>1. /\ Len(Q) \in Nat /\ Len(Q) + 1 \in 1..Len(R) /\ R[Len(Q) + 1] = r
      /\ \A k \in 1..Len(Q) : k \in 1..Len(R) /\ R[k] = Q[k]
      /\ \A k \in 1..Len(R) : (k \in 1..Len(Q) /\ R[k] = Q[k]) \/ (k = Len(Q) + 1 /\ R[k] = r)
  BY OneMore
<1>2. r.type \in Types /\ M[r.type] = e /\ \A t \in Types : t # r.type => M[t] = L[t]
  BY DEF Record, InterventionRecord, Raised
<1>has. ASSUME NEW d, HasKind(Q, {"applied"}, d) PROVE HasKind(R, {"applied"}, d)
  BY <1>1, <1>has DEF HasKind
<1>3. AcceptedFirst(R, C)
  <2> SUFFICES ASSUME NEW k \in 1..Len(R), R[k].episode \notin C
               PROVE  \E j \in 1..Len(R) : j <= k /\ R[j].kind = "accepted"
                                           /\ R[j].episode = R[k].episode
    BY DEF AcceptedFirst
  <2>1. CASE k \in 1..Len(Q) /\ R[k] = Q[k]
    <3>1. PICK j \in 1..Len(Q) : j <= k /\ Q[j].kind = "accepted" /\ Q[j].episode = Q[k].episode
      BY <2>1 DEF NothingLost, AcceptedFirst
    <3> QED
      BY <1>1, <2>1, <3>1
  <2>2. CASE k = Len(Q) + 1 /\ R[k] = r
    <3>1. PICK j \in 1..Len(Q) : Q[j].kind = "accepted" /\ Q[j].episode = e
      BY DEF HasKind
    <3>2. j <= k /\ j \in 1..Len(R) /\ R[j] = Q[j]
      BY <1>1, <2>2
    <3> QED
      BY <2>2, <3>1, <3>2 DEF Applies
  <2> QED
    BY <1>1, <2>1, <2>2
<1>4. DecidedFirst(R, D)
  <2> SUFFICES ASSUME NEW i \in 1..Len(D), NEW k \in 1..Len(R),
                      R[k].type = D[i].candidate, R[k].prediction = D[i].prediction
               PROVE  \E j \in 1..Len(R) : j <= k /\ IsAcceptance(R[j], D[i])
    BY DEF DecidedFirst
  <2>1. CASE k \in 1..Len(Q) /\ R[k] = Q[k]
    <3>1. PICK j \in 1..Len(Q) : j <= k /\ IsAcceptance(Q[j], D[i])
      BY <2>1 DEF NothingLost, DecidedFirst
    <3> QED
      BY <1>1, <3>1
  <2>2. CASE k = Len(Q) + 1 /\ R[k] = r
    <3>1. PICK j \in 1..Len(Q) : IsAcceptance(Q[j], D[i])
      BY <2>2 DEF NothingLost, CurrentAccepted
    <3>2. j <= k /\ j \in 1..Len(R) /\ R[j] = Q[j]
      BY <1>1, <2>2
    <3> QED
      BY <3>1, <3>2
  <2> QED
    BY <1>1, <2>1, <2>2
<1>5. CurrentAccepted(R, D, c)
  BY <1>1 DEF NothingLost, CurrentAccepted
<1>6. UpWereApplied(R, M, C)
  <2> SUFFICES ASSUME NEW t \in Types, M[t] # 0, M[t] \notin C
               PROVE  HasKind(R, {"applied"}, M[t])
    BY DEF UpWereApplied
  <2>1. CASE t = r.type
    BY <1>1, <1>2, <2>1 DEF HasKind, Applies
  <2>2. CASE t # r.type
    BY <1>2, <1>has, <2>2 DEF NothingLost, UpWereApplied
  <2> QED
    BY <2>1, <2>2
<1>7. EndedWereApplied(R, C)
  <2> SUFFICES ASSUME NEW k \in 1..Len(R), R[k].kind \in EndingKinds, R[k].episode \notin C
               PROVE  HasKind(R, {"applied"}, R[k].episode)
    BY DEF EndedWereApplied
  <2>1. k \in 1..Len(Q) /\ R[k] = Q[k]
    BY <1>1 DEF Applies, EndingKinds
  <2> QED
    BY <1>has, <2>1 DEF NothingLost, EndedWereApplied
<1> QED
  BY <1>3, <1>4, <1>5, <1>6, <1>7 DEF NothingLost

(***************************************************************************)
(* The trace that is recorded.                                              *)
(***************************************************************************)
(* Predictions stay numbered.                                               *)
LEMMA SuffixNumbered ==
  ASSUME NEW Q \in Seq(Prediction), NEW W \in Seq(Decision), NEW p, PredictionsNumbered(Q, W, p),
         NEW n \in Nat \ {0}, NEW R, R = Latest(Q, n), NEW V, V = Latest(W, n)
  PROVE  PredictionsNumbered(R, V, p)
<1>1. \A k \in 1..Len(R) : /\ k + (Len(Q) - Len(R)) \in 1..Len(Q)
                           /\ R[k] = Q[k + (Len(Q) - Len(R))]
  BY LatestIsSuffix
<1>2. \A k \in 1..Len(V) : /\ k + (Len(W) - Len(V)) \in 1..Len(W)
                           /\ V[k] = W[k + (Len(W) - Len(V))]
  BY LatestIsSuffix
<1> QED
  BY <1>1, <1>2 DEF PredictionsNumbered

(* A trace without applications stays so.                                   *)
LEMMA SuffixBare ==
  ASSUME NEW Q \in Seq(Record), Bare(Q), NEW n \in Nat \ {0}, NEW R, R = Latest(Q, n)
  PROVE  Bare(R)
<1>1. \A k \in 1..Len(R) : /\ k + (Len(Q) - Len(R)) \in 1..Len(Q)
                           /\ R[k] = Q[k + (Len(Q) - Len(R))]
  BY LatestIsSuffix
<1> QED
  BY <1>1 DEF Bare

(* What holds of everything recorded so far holds of what the buffers keep. *)
LEMMA RecordedSays ==
  ASSUME trace \in Trace(Types, NoType), Bounded(trace),
         NEW P \in Seq(Prediction), NEW D \in Seq(Decision), NEW I \in Seq(Record),
         NEW preds, preds = trace.predictions \o P,
         NEW decs, decs = trace.decisions \o D,
         NEW recs, recs = trace.interventions \o I,
         NEW L, NEW o, NEW p, NEW C, NEW c,
         RecordsInOrder(recs, L, o, p, C), PredictionsNumbered(preds, decs, p),
         ~trace.truncated => NothingLost(recs, decs, L, C, c) /\ AllDecided(preds, decs),
         NEW new, new = Recorded(trace, P, D, I)
  PROVE  /\ new \in Trace(Types, NoType) /\ Bounded(new) /\ SaysOf(new, L, o, p, C, c)
         /\ Bare(recs) => Bare(new.interventions)
<1>n. MaxBufferSize \in Nat \ {0}
  BY TraceAssumption
<1>1. /\ new \in Trace(Types, NoType) /\ Bounded(new)
      /\ new.predictions = Latest(preds, MaxBufferSize)
      /\ new.decisions = Latest(decs, MaxBufferSize)
      /\ new.interventions = Latest(recs, MaxBufferSize)
      /\ ~new.truncated => /\ ~trace.truncated /\ new.predictions = preds
                           /\ new.decisions = decs /\ new.interventions = recs
  <2>1. new \in Trace(Types, NoType) /\ Bounded(new)
    BY RecordedKeeps, SMTT(20)
  <2>2. new.predictions = Latest(trace.predictions \o P, MaxBufferSize)
    BY RecordedKeeps, SMTT(20)
  <2>3. new.decisions = Latest(trace.decisions \o D, MaxBufferSize)
    BY RecordedKeeps, SMTT(20)
  <2>4. new.interventions = Latest(trace.interventions \o I, MaxBufferSize)
    BY RecordedKeeps, SMTT(20)
  <2>5. ~new.truncated => ~trace.truncated
    BY RecordedKeeps, SMTT(20)
  <2>6. ~new.truncated => new.predictions = trace.predictions \o P
    BY RecordedKeeps, SMTT(20)
  <2>7. ~new.truncated => new.decisions = trace.decisions \o D
    BY RecordedKeeps, SMTT(20)
  <2>8. ~new.truncated => new.interventions = trace.interventions \o I
    BY RecordedKeeps, SMTT(20)
  <2> QED
    BY <2>1, <2>2, <2>3, <2>4, <2>5, <2>6, <2>7, <2>8
<1>2. preds \in Seq(Prediction) /\ decs \in Seq(Decision) /\ recs \in Seq(Record)
  <2>1. /\ trace.predictions \in Seq(Prediction) /\ trace.decisions \in Seq(Decision)
        /\ trace.interventions \in Seq(Record)
    BY DEF Trace, Prediction, Decision, Record
  <2>2. preds \in Seq(Prediction)
    BY <2>1, Appended
  <2>3. decs \in Seq(Decision)
    BY <2>1, Appended
  <2>4. recs \in Seq(Record)
    BY <2>1, Appended
  <2> QED
    BY <2>2, <2>3, <2>4
<1>3. RecordsInOrder(new.interventions, L, o, p, C)
  BY <1>n, <1>1, <1>2, SuffixInOrder
<1>4. PredictionsNumbered(new.predictions, new.decisions, p)
  BY <1>n, <1>1, <1>2, SuffixNumbered
<1>5. Bare(recs) => Bare(new.interventions)
  BY <1>n, <1>1, <1>2, SuffixBare
<1> QED
  BY <1>1, <1>3, <1>4, <1>5 DEF SaysOf

(* What the invariant says of the trace, by name.                           *)
LEMMA TraceParts ==
  ASSUME PageAndTrace
  PROVE  /\ predictionCounter \in Nat /\ currentPredictionId \in 0..predictionCounter
         /\ Len(origin) \in Nat /\ Episodes = 1..Len(origin) /\ PageOf(Len(origin))
         /\ origin \in Seq(Nat) /\ carried \subseteq 1..Len(origin)
         /\ trace \in Trace(Types, NoType) /\ Bounded(trace)
         /\ trace.predictions \in Seq(Prediction) /\ trace.decisions \in Seq(Decision)
         /\ trace.interventions \in Seq(Record)
<1>1. /\ predictionCounter \in Nat /\ currentPredictionId \in 0..predictionCounter
      /\ trace \in Trace(Types, NoType) /\ Bounded(trace)
  BY TraceAssumption DEF PageAndTrace, IdsTyped
<1>2. origin \in Seq(1..predictionCounter)
  BY DEF PageAndTrace, IdsTyped
<1>3. Len(origin) \in Nat /\ Episodes = 1..Len(origin) /\ origin \in Seq(Nat)
  <2>1. Len(origin) \in Nat /\ DOMAIN origin = 1..Len(origin)
    BY <1>2
  <2>2. origin \in Seq(Nat)
    BY <1>1, <1>2, SeqDef
  <2> QED
    BY <2>1, <2>2 DEF Episodes
<1>4. PageOf(Len(origin)) /\ carried \subseteq 1..Len(origin)
  BY <1>3 DEF PageAndTrace, IdsTyped, PageOf
<1>5. /\ trace.predictions \in Seq(Prediction) /\ trace.decisions \in Seq(Decision)
      /\ trace.interventions \in Seq(Record)
  BY <1>1 DEF Trace, Prediction, Decision, Record
<1> QED
  BY <1>1, <1>3, <1>4, <1>5

(* Adaptations end with a record each, which names the prediction that is   *)
(* current or, in a reset, was so.                                          *)
LEMMA EndingsKeep ==
  ASSUME PageAndTrace, NEW S \in SUBSET Types, NEW I \in Seq(Record),
         EndsAll(I, S, currentPredictionId),
         trace' = Recorded(trace, << >>, << >>, I), live' = Cleared(S),
         UNCHANGED <<config, predictionCounter, origin, carried>>,
         currentPredictionId' \in {0, currentPredictionId}
  PROVE  PageAndTrace'
<1> DEFINE n == Len(origin)
           recs == trace.interventions \o I
<1>parts. /\ predictionCounter \in Nat /\ currentPredictionId \in 0..predictionCounter
          /\ n \in Nat /\ PageOf(n)
          /\ trace \in Trace(Types, NoType) /\ Bounded(trace)
          /\ trace.predictions \in Seq(Prediction) /\ trace.decisions \in Seq(Decision)
          /\ trace.interventions \in Seq(Record)
  BY TraceParts
<1>says. SaysOf(trace, live, origin, predictionCounter, carried, currentPredictionId)
  BY DEF PageAndTrace
<1>recs. recs \in Seq(Record)
  <2> DEFINE old == trace.interventions
  <2> HIDE DEF old
  <2>1. old \in Seq(Record)
    BY <1>parts DEF old
  <2>2. old \o I \in Seq(Record)
    BY <2>1, ConcatProperties
  <2> QED
    BY <2>2 DEF old
<1>1. << >> \in Seq(Prediction) /\ << >> \in Seq(Decision)
      /\ trace.predictions = trace.predictions \o << >> /\ trace.decisions = trace.decisions \o << >>
  BY <1>parts, ConcatEmptySeq
<1>2. RecordsInOrder(recs, Cleared(S), origin, predictionCounter, carried)
  <2>1. RecordsInOrder(trace.interventions, live, origin, predictionCounter, carried)
    BY <1>says DEF SaysOf
  <2>2. n <= Len(origin) /\ Len(origin) \in Nat
    BY <1>parts
  <2> QED
    BY <1>parts, <2>1, <2>2, EndingsInOrder
<1>3. PredictionsNumbered(trace.predictions, trace.decisions, predictionCounter)
  BY <1>says DEF SaysOf
<1>4. ASSUME ~trace.truncated
      PROVE  /\ NothingLost(recs, trace.decisions, Cleared(S), carried, currentPredictionId')
             /\ AllDecided(trace.predictions, trace.decisions)
  <2>1. /\ NothingLost(trace.interventions, trace.decisions, live, carried, currentPredictionId)
        /\ AllDecided(trace.predictions, trace.decisions)
    BY <1>says, <1>4 DEF SaysOf
  <2>2. NothingLost(recs, trace.decisions, Cleared(S), carried, currentPredictionId)
    BY <1>parts, <2>1, EndingsLoseNothing
  <2>3. CurrentAccepted(recs, trace.decisions, currentPredictionId')
    <3>1. CASE currentPredictionId' = currentPredictionId
      BY <2>2, <3>1 DEF NothingLost
    <3>2. CASE currentPredictionId' = 0
      BY <1>3, <3>2 DEF PredictionsNumbered, CurrentAccepted
    <3> QED
      BY <3>1, <3>2
  <2> QED
    BY <2>1, <2>2, <2>3 DEF NothingLost
<1>5. /\ trace' \in Trace(Types, NoType) /\ Bounded(trace')
      /\ SaysOf(trace', Cleared(S), origin, predictionCounter, carried, currentPredictionId')
      /\ Bare(recs) => Bare(trace'.interventions)
  <2> HIDE DEF recs
  <2>1. recs = trace.interventions \o I
    BY DEF recs
  <2> QED
    BY <1>parts, <1>1, <1>2, <1>3, <1>4, <2>1, RecordedSays
<1>6. /\ live' \in [Types -> {0} \cup 1..n]
      /\ \A t \in Types : live'[t] = IF t \in S THEN 0 ELSE live[t]
      /\ \A t, u \in Types : live'[t] = live'[u] /\ live'[t] # 0 => t = u
  BY <1>parts, ClearedPage
<1>types. IdsTyped'
  <2>1. origin' = origin /\ predictionCounter' = predictionCounter /\ carried' = carried
    OBVIOUS
  <2>2. /\ predictionCounter \in 0..MaxPredictions /\ origin \in Seq(1..predictionCounter)
        /\ carried \subseteq Episodes
    BY DEF PageAndTrace, IdsTyped
  <2>3. currentPredictionId' \in 0..predictionCounter
    BY <1>parts
  <2>4. Episodes' = 1..n /\ Episodes = 1..n
    BY <2>1, TraceParts DEF Episodes
  <2> QED
    BY <1>5, <1>6, <2>1, <2>2, <2>3, <2>4 DEF IdsTyped, Bounded
<1>one. OneEach'
  BY <1>6 DEF OneEach
<1>bare. BaselineIsBare'
  <2> SUFFICES ASSUME config.condition = "baseline"
               PROVE  live' = NoneLive /\ Bare(trace'.interventions)
    BY DEF BaselineIsBare, NoneLive
  <2>1. live = NoneLive /\ Bare(trace.interventions)
    BY DEF PageAndTrace, BaselineIsBare
  <2>2. live' = NoneLive
    BY <1>6, <2>1 DEF NoneLive
  <2>3. Bare(recs)
    <3> SUFFICES ASSUME NEW k \in 1..Len(recs) PROVE recs[k].kind # "applied"
      BY DEF Bare
    <3> DEFINE old == trace.interventions
    <3>1. old \in Seq(Record) /\ recs = old \o I
      BY <1>parts
    <3> HIDE DEF old, recs
    <3>2. \/ k \in 1..Len(old) /\ recs[k] = old[k]
          \/ \E x \in 1..Len(I) : k = x + Len(old) /\ recs[k] = I[x]
      BY <3>1, Appended
    <3>3. Bare(old)
      BY <2>1 DEF old
    <3> QED
      BY <3>2, <3>3 DEF Bare, EndsAll, EndingKinds
  <2> QED
    BY <1>5, <2>2, <2>3
<1> QED
  BY <1>types, <1>one, <1>bare, <1>5 DEF PageAndTrace

(***************************************************************************)
(* The answer of an evaluation.                                             *)
(***************************************************************************)
(* A verdict is of a gate, on a type of intervention or none.               *)
LEMMA VerdictsTyped ==
  ASSUME WorkerTyped, flight # NoFlight, NEW verdict \in VerdictsOfFlight
  PROVE  /\ verdict.gate \in {"fast", "slow", "none"} /\ verdict.type \in Types \cup {NoType}
         /\ verdict.mapping \in {"fast_gate_pattern", "deterministic_mapping", "learned_head", "none"}
<1>1. PICK slow \in SlowResults :
        LET v == Arbitrate(flight.fast, slow)
        IN  verdict = [gate |-> v.gate, type |-> v.type, mapping |-> v.mapping]
  BY DEF VerdictsOfFlight
<1> DEFINE v == Arbitrate(flight.fast, slow)
<1>2. verdict.gate = v.gate /\ verdict.type = v.type /\ verdict.mapping = v.mapping
  BY <1>1
<1>table. \A o \in OutcomeClasses : DefaultOutcomeInterventions[o] \in Types \cup {NoOp}
  BY GatesAssumption DEF OutcomeClasses, DefaultOutcomeInterventions
<1>built. \A type \in Types \cup {NoOp} : \A sure : Built(type, sure) \in Types \cup {NoType}
  BY DEF Built
<1>3. /\ slow.type \in Types \cup {NoType}
      /\ slow.mapping \in {"fast_gate_pattern", "deterministic_mapping", "learned_head", "none"}
  <2>1. CASE slow = MockResult
    BY <2>1 DEF MockResult, SlowResult
  <2>2. CASE slow = NoResult
    BY <2>2 DEF NoResult, SlowResult
  <2>3. CASE \E h \in HeadInputs : slow = OnnxResult(h, config.models, config.deterministic)
    <3>1. PICK h \in HeadInputs : slow = OnnxResult(h, config.models, config.deterministic)
      BY <2>3
    <3>2. h \in Heads
      BY TraceAssumption
    <3>3. h.outcome \in OutcomeClasses /\ h.intervention \in Types \cup {NoOp}
      BY <3>2 DEF Heads
    <3> DEFINE head == OutcomeHead(h, config.models)
    <3>4. head.class \in OutcomeClasses
      BY <3>3 DEF OutcomeHead, OutcomeClasses
    <3>5. Built(DefaultOutcomeInterventions[head.class], head.sure) \in Types \cup {NoType}
      BY <1>table, <1>built, <3>4
    <3>6. Built(h.intervention, h.interventionSure) \in Types \cup {NoType}
      BY <1>built, <3>3
    <3>7. \/ slow = SlowResult("NO_OUTCOME", NoType, "none")
          \/ slow = SlowResult(head.class,
                               Built(DefaultOutcomeInterventions[head.class], head.sure),
                               "deterministic_mapping")
          \/ slow = SlowResult(head.class, Built(h.intervention, h.interventionSure),
                               "learned_head")
      BY <3>1 DEF OnnxResult
    <3> HIDE DEF head
    <3> QED
      BY <3>5, <3>6, <3>7 DEF SlowResult
  <2> QED
    BY <2>1, <2>2, <2>3 DEF SlowResults
<1>4. /\ v.gate \in {"fast", "slow", "none"} /\ v.type \in Types \cup {NoType}
      /\ v.mapping \in {"fast_gate_pattern", "deterministic_mapping", "learned_head", "none"}
  <2>1. CASE flight.fast.type \in Types
    BY <2>1 DEF Arbitrate, Verdict
  <2>2. CASE flight.fast.type \notin Types
    <3>1. v = SlowVerdict(slow, flight.fast)
      BY <2>2 DEF Arbitrate
    <3>2. CASE slow.type # NoType
      BY <1>3, <3>1, <3>2 DEF SlowVerdict, Verdict
    <3>3. CASE slow.type = NoType
      BY <3>1, <3>3 DEF SlowVerdict, Verdict
    <3> QED
      BY <3>2, <3>3
  <2> QED
    BY <2>1, <2>2
<1> QED
  BY <1>2, <1>4

(* Recording one more prediction and the decisions on it.                   *)
LEMMA OneMorePrediction ==
  ASSUME NEW p \in Nat, NEW Q \in Seq(Prediction), NEW W \in Seq(Decision),
         PredictionsNumbered(Q, W, p), NEW r \in Prediction, r.id = p + 1, r.window # 0,
         NEW N \in Seq(Decision), 1 \in 1..Len(N), \A i \in 1..Len(N) : N[i].prediction = p + 1,
         NEW R, R = Q \o <<r>>, NEW V, V = W \o N
  PROVE  /\ PredictionsNumbered(R, V, p + 1)
         /\ AllDecided(Q, W) => AllDecided(R, V)
<1>1. /\ \A k \in 1..Len(Q) : k \in 1..Len(R) /\ R[k] = Q[k]
      /\ \A k \in 1..Len(R) : (k \in 1..Len(Q) /\ R[k] = Q[k]) \/ (k = Len(Q) + 1 /\ R[k] = r)
  BY OneMore
<1>2. /\ \A k \in 1..Len(W) : k \in 1..Len(V) /\ V[k] = W[k]
      /\ \A x \in 1..Len(N) : x + Len(W) \in 1..Len(V) /\ V[x + Len(W)] = N[x]
  BY Appended
<1>3. \A i \in 1..Len(V) : \/ \E x \in 1..Len(W) : V[i] = W[x]
                           \/ V[i].prediction = p + 1
  <2>1. \A i \in 1..Len(V) :
          \/ i \in 1..Len(W) /\ V[i] = W[i]
          \/ \E x \in 1..Len(N) : i = x + Len(W) /\ V[i] = N[x]
    <3>1. Joins(V, W, N)
      BY JoinsBoth
    <3> QED
      BY <3>1 DEF Joins
  <2> QED
    BY <2>1
<1>4. \A k \in 1..Len(R) : R[k].window # 0 /\ R[k].id \in 1..(p + 1)
  <2> SUFFICES ASSUME NEW k \in 1..Len(R) PROVE R[k].window # 0 /\ R[k].id \in 1..(p + 1)
    OBVIOUS
  <2>1. CASE k \in 1..Len(Q) /\ R[k] = Q[k]
    <3>1. Q[k].window # 0 /\ Q[k].id \in 1..p
      BY <2>1 DEF PredictionsNumbered
    <3> QED
      BY <2>1, <3>1
  <2>2. CASE R[k] = r
    BY <2>2
  <2> QED
    BY <1>1, <2>1, <2>2
<1>5. \A k \in 1..Len(V) : V[k].prediction \in 1..(p + 1)
  <2> SUFFICES ASSUME NEW k \in 1..Len(V) PROVE V[k].prediction \in 1..(p + 1)
    OBVIOUS
  <2>1. CASE \E x \in 1..Len(W) : V[k] = W[x]
    <3>1. PICK x \in 1..Len(W) : V[k] = W[x]
      BY <2>1
    <3>2. W[x].prediction \in 1..p
      BY DEF PredictionsNumbered
    <3> QED
      BY <3>1, <3>2
  <2>2. CASE V[k].prediction = p + 1
    BY <2>2
  <2> QED
    BY <1>3, <2>1, <2>2
<1>6. ASSUME AllDecided(Q, W) PROVE AllDecided(R, V)
  <2> SUFFICES ASSUME NEW k \in 1..Len(R) PROVE \E j \in 1..Len(V) : V[j].prediction = R[k].id
    BY DEF AllDecided
  <2>1. CASE k \in 1..Len(Q) /\ R[k] = Q[k]
    <3>1. PICK j \in 1..Len(W) : W[j].prediction = Q[k].id
      BY <1>6, <2>1 DEF AllDecided
    <3> QED
      BY <1>2, <2>1, <3>1
  <2>2. CASE R[k] = r
    BY <1>2, <2>2
  <2> QED
    BY <1>1, <2>1, <2>2
<1> QED
  BY <1>4, <1>5, <1>6 DEF PredictionsNumbered

(* Decisions on a prediction that no record names.                          *)
LEMMA UnnamedDecisions ==
  ASSUME NEW p \in Nat, NEW c \in 0..p, NEW o, NEW Q \in Seq(Record), Numbered(Q, o, p),
         NEW D \in Seq(Decision), NEW L, NEW C, NothingLost(Q, D, L, C, c),
         NEW N \in Seq(Decision), NEW type,
         \A i \in 1..Len(N) : N[i].prediction = p + 1 /\ N[i].candidate = type,
         NEW E, E = D \o N
  PROVE  NothingLost(Q, E, L, C, c)
<1> DEFINE id == p + 1
<1>1. \A i \in 1..Len(E) : \/ \E x \in 1..Len(D) : E[i] = D[x]
                           \/ E[i].prediction = id /\ E[i].candidate = type
  <2>1. \A i \in 1..Len(N) : N[i].prediction = id /\ N[i].candidate = type
    OBVIOUS
  <2> HIDE DEF id
  <2> QED
    BY <2>1, DecisionsAppended
<1>2. c # id /\ \A k \in 1..Len(Q) : Q[k].prediction # id
  BY DEF Numbered
<1> HIDE DEF id
<1>3. DecidedFirst(Q, E)
  <2> SUFFICES ASSUME NEW i \in 1..Len(E), NEW k \in 1..Len(Q),
                      Q[k].type = E[i].candidate, Q[k].prediction = E[i].prediction
               PROVE  \E j \in 1..Len(Q) : j <= k /\ IsAcceptance(Q[j], E[i])
    BY DEF DecidedFirst
  <2>1. E[i].prediction # id
    BY <1>2
  <2>2. PICK x \in 1..Len(D) : E[i] = D[x]
    BY <1>1, <2>1
  <2>3. \E j \in 1..Len(Q) : j <= k /\ IsAcceptance(Q[j], D[x])
    BY <2>2 DEF NothingLost, DecidedFirst
  <2> QED
    BY <2>2, <2>3
<1>4. CurrentAccepted(Q, E, c)
  BY <1>1, <1>2 DEF NothingLost, CurrentAccepted
<1> QED
  BY <1>3, <1>4 DEF NothingLost

(* What an evaluation in flight may be recorded as.                         *)
LEMMA PredictionRecorded ==
  ASSUME PageAndTrace, WorkerTyped, RoomForTheFlight, flight # NoFlight,
         NEW verdict \in VerdictsOfFlight
  PROVE  /\ PredictionOf(verdict) \in Prediction
         /\ PredictionOf(verdict).id = predictionCounter + 1 /\ PredictionOf(verdict).window # 0
         /\ predictionCounter + 1 \in 0..MaxPredictions
         /\ \A outcome \in Verdicts : LET d == DecisionOf(verdict.type, outcome)
                                     IN  /\ d \in Decision /\ d.prediction = predictionCounter + 1
                                         /\ d.candidate = verdict.type
<1>1. predictionCounter \in Nat /\ MaxPredictions \in Nat /\ predictionCounter \in 0..MaxPredictions
  BY TraceAssumption DEF PageAndTrace, IdsTyped
<1>2. predictionCounter < MaxPredictions
  BY DEF RoomForTheFlight
<1>3. flight.window \in 1..MaxWindows /\ MaxWindows \in Nat
  BY TraceAssumption DEF WorkerTyped
<1>4. /\ verdict.gate \in {"fast", "slow", "none"} /\ verdict.type \in Types \cup {NoType}
      /\ verdict.mapping \in {"fast_gate_pattern", "deterministic_mapping", "learned_head", "none"}
  BY VerdictsTyped
<1>5. predictionCounter + 1 \in Nat /\ flight.window \in Nat /\ flight.window # 0
  BY <1>1, <1>3
<1>6. PredictionOf(verdict) \in Prediction
  BY <1>4, <1>5 DEF PredictionOf, NextPrediction, Prediction, PredictionRecord
<1>7. PredictionOf(verdict).id = predictionCounter + 1 /\ PredictionOf(verdict).window # 0
  BY <1>5 DEF PredictionOf, NextPrediction
<1>8. \A outcome \in Verdicts : /\ DecisionOf(verdict.type, outcome) \in Decision
                                /\ DecisionOf(verdict.type, outcome).prediction = predictionCounter + 1
                                /\ DecisionOf(verdict.type, outcome).candidate = verdict.type
  BY <1>4, <1>5 DEF DecisionOf, NextPrediction, Decision, DecisionRecord
<1> QED
  BY <1>1, <1>2, <1>6, <1>7, <1>8

(* Nothing applied: a prediction and a decision more.                       *)
LEMMA UnappliedKeeps ==
  ASSUME PageAndTrace, WorkerTyped, RoomForTheFlight, NEW verdict \in VerdictsOfFlight,
         NEW outcome \in Verdicts, AnswerUnapplied(verdict, outcome)
  PROVE  PageAndTrace'
<1> DEFINE p == predictionCounter
           pred == PredictionOf(verdict)
           d == DecisionOf(verdict.type, outcome)
           N == <<d>>
           preds == trace.predictions \o <<pred>>
           decs == trace.decisions \o N
           recs == trace.interventions
<1>next. /\ flight # NoFlight /\ predictionCounter' = p + 1
         /\ trace' = Recorded(trace, <<pred>>, N, << >>)
         /\ UNCHANGED <<config, currentPredictionId, origin, live, carried>>
  BY DEF AnswerUnapplied, NextPrediction
<1>parts. /\ p \in Nat /\ currentPredictionId \in 0..p
          /\ trace \in Trace(Types, NoType) /\ Bounded(trace)
          /\ trace.predictions \in Seq(Prediction) /\ trace.decisions \in Seq(Decision)
          /\ recs \in Seq(Record)
  BY TraceParts
<1>says. SaysOf(trace, live, origin, p, carried, currentPredictionId)
  BY DEF PageAndTrace
<1>1. /\ pred \in Prediction /\ pred.id = p + 1 /\ pred.window # 0 /\ p + 1 \in 0..MaxPredictions
      /\ d \in Decision /\ d.prediction = p + 1 /\ d.candidate = verdict.type
  BY <1>next, PredictionRecorded
<1> HIDE DEF pred, d
<1>2. /\ <<pred>> \in Seq(Prediction) /\ N \in Seq(Decision) /\ 1 \in 1..Len(N)
      /\ \A i \in 1..Len(N) : N[i].prediction = p + 1 /\ N[i].candidate = verdict.type
  BY <1>1
<1> HIDE DEF N
<1>numbered. PredictionsNumbered(trace.predictions, trace.decisions, p)
  BY <1>says DEF SaysOf
<1>ordered. RecordsInOrder(recs, live, origin, p, carried)
  BY <1>says DEF SaysOf
<1>3. /\ PredictionsNumbered(preds, decs, p + 1)
      /\ AllDecided(trace.predictions, trace.decisions) => AllDecided(preds, decs)
  <2> DEFINE oldp == trace.predictions
             oldd == trace.decisions
  <2>1. /\ oldp \in Seq(Prediction) /\ oldd \in Seq(Decision) /\ PredictionsNumbered(oldp, oldd, p)
        /\ preds = oldp \o <<pred>> /\ decs = oldd \o N
    BY <1>parts, <1>numbered
  <2>0. p \in Nat /\ N \in Seq(Decision) /\ \A i \in 1..Len(N) : N[i].prediction = p + 1
    BY <1>parts, <1>2
  <2> HIDE DEF oldp, oldd, preds, decs, p
  <2>2. PredictionsNumbered(preds, decs, p + 1)
    BY <1>1, <1>2, <2>0, <2>1, OneMorePrediction
  <2>3. AllDecided(oldp, oldd) => AllDecided(preds, decs)
    BY <1>1, <1>2, <2>0, <2>1, OneMorePrediction
  <2> QED
    BY <2>2, <2>3 DEF oldp, oldd
<1>5. RecordsInOrder(recs, live, origin, p + 1, carried)
  <2>1. Numbered(recs, origin, p + 1)
    BY <1>parts, <1>ordered DEF RecordsInOrder, Numbered
  <2> QED
    BY <1>ordered, <2>1 DEF RecordsInOrder
<1>6. ~trace.truncated => NothingLost(recs, decs, live, carried, currentPredictionId)
  <2> SUFFICES ASSUME ~trace.truncated
               PROVE  NothingLost(recs, decs, live, carried, currentPredictionId)
    OBVIOUS
  <2>1. NothingLost(recs, trace.decisions, live, carried, currentPredictionId)
    BY <1>says DEF SaysOf
  <2>2. Numbered(recs, origin, p)
    BY <1>ordered DEF RecordsInOrder
  <2> QED
    BY <1>parts, <1>2, <2>1, <2>2, UnnamedDecisions
<1>7. ~trace.truncated => AllDecided(preds, decs)
  BY <1>3, <1>says DEF SaysOf
<1>8. << >> \in Seq(Record) /\ recs = recs \o << >>
  BY <1>parts, ConcatEmptySeq
<1>9. /\ trace' \in Trace(Types, NoType) /\ Bounded(trace')
      /\ SaysOf(trace', live, origin, p + 1, carried, currentPredictionId)
      /\ Bare(recs) => Bare(trace'.interventions)
  <2>1. preds = trace.predictions \o <<pred>> /\ decs = trace.decisions \o N
    OBVIOUS
  <2>2. recs = trace.interventions \o << >>
    BY <1>8
  <2> HIDE DEF preds, decs, recs
  <2> QED
    BY <1>parts, <1>2, <1>3, <1>5, <1>6, <1>7, <1>8, <1>next, <2>1, <2>2, RecordedSays
<1>types. IdsTyped'
  <2>1. /\ origin \in Seq(1..p) /\ live \in [Types -> {0} \cup Episodes] /\ carried \subseteq Episodes
    BY DEF PageAndTrace, IdsTyped
  <2>2. origin' \in Seq(1..predictionCounter')
    <3>1. (1..p) \subseteq 1..(p + 1)
      BY <1>parts
    <3>2. origin \in Seq(1..(p + 1))
      BY <2>1, <3>1, SeqMonotonic
    <3> QED
      BY <1>next, <3>2
  <2>3. Episodes' = Episodes
    BY <1>next DEF Episodes
  <2>4. currentPredictionId' \in 0..predictionCounter'
    BY <1>parts, <1>next
  <2>5. predictionCounter' \in 0..MaxPredictions
    BY <1>1, <1>next
  <2> QED
    BY <1>next, <1>9, <2>1, <2>2, <2>3, <2>4, <2>5 DEF IdsTyped, Bounded
<1>one. OneEach'
  BY <1>next DEF PageAndTrace, OneEach
<1>bare. BaselineIsBare'
  <2>1. config.condition = "baseline" => live = NoneLive /\ Bare(recs)
    BY DEF PageAndTrace, BaselineIsBare
  <2> QED
    BY <1>next, <1>9, <2>1 DEF BaselineIsBare, NoneLive
<1> QED
  BY <1>next, <1>types, <1>one, <1>bare, <1>9 DEF PageAndTrace

(* Concatenation is associative, as a fact about all sequences of records.  *)
LEMMA RecordsAssociate ==
  \A q, r, s \in Seq(Record) : q \o (r \o s) = (q \o r) \o s
  BY ConcatAssociative, SMTT(60)

(* A command is accepted as the next episode, for the next prediction p + 1:*)
(* the records I, the new tail of the log R, and the page M after it.       *)
Application(p, o, Q, D, C, type, found, N, new, I, R, M) ==
  /\ p \in Nat /\ o \in Seq(Nat) /\ PageOf(Len(o)) /\ OneEach
  /\ Q \in Seq(Record) /\ D \in Seq(Decision) /\ C \subseteq 1..Len(o)
  /\ RecordsInOrder(Q, live, o, p, C)
  /\ \A i \in 1..Len(D) : D[i].prediction \in 1..p
  /\ NextPrediction = p + 1 /\ type \in Types /\ found \in BOOLEAN
  /\ N \in Seq(Decision)
  /\ \A i \in 1..Len(N) : N[i].prediction = p + 1 /\ N[i].candidate = type
  /\ new = Append(o, p + 1)
  /\ I = ApplicationRecords(type, Len(o) + 1, found)
  /\ R = Q \o I
  /\ M = [Cleared({type}) EXCEPT ![type] = IF found THEN Len(o) + 1 ELSE 0]

(* Nothing that was not lost before is lost after.                          *)
LosesNothing(Q, D, was, R, E, is, C, id) ==
  \A c : NothingLost(Q, D, was, C, c) => NothingLost(R, E, is, C, id)

(* The page and its records when a command was accepted: what they say      *)
(* after the acceptance, after the endings and after the application.       *)
LEMMA ApplicationSays ==
  ASSUME NEW p, NEW o, NEW Q, NEW D, NEW C, NEW type, NEW found, NEW N, NEW new,
         NEW I, NEW R, NEW M, Application(p, o, Q, D, C, type, found, N, new, I, R, M)
  PROVE  /\ I \in Seq(Record) /\ RecordsInOrder(R, M, new, p + 1, C)
         /\ LosesNothing(Q, D, live, R, D \o N, M, C, p + 1)
<1> SUFFICES
      ASSUME p \in Nat, o \in Seq(Nat), PageOf(Len(o)), OneEach,
             Q \in Seq(Record), D \in Seq(Decision), C \subseteq 1..Len(o),
             RecordsInOrder(Q, live, o, p, C),
             \A i \in 1..Len(D) : D[i].prediction \in 1..p,
             NextPrediction = p + 1, type \in Types, found \in BOOLEAN,
             N \in Seq(Decision),
             \A i \in 1..Len(N) : N[i].prediction = p + 1 /\ N[i].candidate = type,
             new = Append(o, p + 1),
             I = ApplicationRecords(type, Len(o) + 1, found), R = Q \o I,
             M = [Cleared({type}) EXCEPT ![type] = IF found THEN Len(o) + 1 ELSE 0]
      PROVE  /\ I \in Seq(Record) /\ RecordsInOrder(R, M, new, p + 1, C)
             /\ \A c : NothingLost(Q, D, live, C, c) => NothingLost(R, D \o N, M, C, p + 1)
  BY DEF Application, LosesNothing
<1> DEFINE n == Len(o)
           e == n + 1
           r == Event("accepted", type, e, NextPrediction)
           a == Event("applied", type, e, NextPrediction)
           F == EndingsOf({type}, "reverted", NextPrediction)
           Q1 == Q \o <<r>>
           Q2 == Q1 \o F
           L == Cleared({type})
           E == D \o N
<1>0. /\ n \in Nat /\ e \in Nat /\ NextPrediction \in Nat /\ Len(new) = e /\ Len(new) \in Nat
      /\ n <= Len(new) /\ new \in Seq(Nat) /\ e \in 1..Len(new) /\ e \notin C /\ e # 0
  OBVIOUS
<1>type. {type} \in SUBSET Types /\ "reverted" \in EndingKinds
  BY DEF EndingKinds
<1>r. r \in Record /\ a \in Record
  BY <1>0 DEF Event, Record, InterventionRecord, EventKinds
<1>f. F \in Seq(Record)
  <2>1. F = EndingsOf({type}, "reverted", NextPrediction) /\ PageOf(n)
    OBVIOUS
  <2> HIDE DEF F, n
  <2> QED
    BY <1>0, <1>type, <2>1, EndingsEnd
<1>1. /\ r \in Record /\ a \in Record /\ F \in Seq(Record) /\ I \in Seq(Record)
      /\ ~found => Q \o I = Q2
      /\ found => Q \o I = Q2 \o <<a>>
  <2> DEFINE one == <<r>>
             A == IF found THEN <<a>> ELSE << >>
             QR == Q \o one
             RE == one \o F
             QRE == QR \o F
  <2>1. one \in Seq(Record) /\ A \in Seq(Record) /\ (~found => A = << >>) /\ (found => A = <<a>>)
    BY <1>r
  <2>2. I = RE \o A /\ QRE = Q2
    BY DEF ApplicationRecords
  <2> HIDE DEF r, a, F, n, e, Q1, Q2, one, A
  <2>3. RE \in Seq(Record) /\ QR \in Seq(Record)
    BY <1>f, <2>1, ConcatProperties
  <2>4. Q \o (one \o F) = (Q \o one) \o F
    BY <1>f, <2>1, RecordsAssociate, Zenon
  <2>5. Q \o RE = QRE
    BY <2>4
  <2>6. QRE \in Seq(Record)
    <3> HIDE DEF QR
    <3> QED
      BY <1>f, <2>3, ConcatProperties
  <2> HIDE DEF RE, QRE, QR
  <2>7. I \in Seq(Record)
    BY <2>1, <2>2, <2>3, ConcatProperties
  <2>8. Q \o (RE \o A) = (Q \o RE) \o A
    BY <2>1, <2>3, RecordsAssociate, Zenon
  <2>9. Q \o I = QRE \o A
    BY <2>2, <2>5, <2>8, Zenon
  <2>10. QRE \o << >> = QRE
    BY <2>6, ConcatEmptySeq
  <2>11. ~found => Q \o I = Q2
    BY <2>1, <2>2, <2>9, <2>10
  <2>12. found => Q \o I = Q2 \o <<a>>
    BY <2>1, <2>2, <2>9
  <2> QED
    BY <1>r, <1>f, <2>7, <2>11, <2>12
<1>2. /\ Begins(r, n, p) /\ r.type = type
      /\ a.type = type /\ a.prediction = p + 1 /\ a.kind = "applied" /\ a.episode = e
  BY DEF Begins, Event
<1>3. EndsAll(F, {type}, p + 1)
  <2>1. F = EndingsOf({type}, "reverted", NextPrediction)
    OBVIOUS
  <2> HIDE DEF F
  <2> QED
    BY <1>0, <1>type, <2>1, EndingsEnd
<1> HIDE DEF r, a, F
<1>q1. /\ Q1 \in Seq(Record) /\ Len(Q) \in Nat /\ Len(Q) + 1 \in 1..Len(Q1) /\ Q1[Len(Q) + 1] = r
       /\ \A k \in 1..Len(Q1) : (k \in 1..Len(Q) /\ Q1[k] = Q[k]) \/ (k = Len(Q) + 1 /\ Q1[k] = r)
  <2>1. Q1 = Q \o <<r>>
    OBVIOUS
  <2> HIDE DEF Q1
  <2>2. Q1 \in Seq(Record) /\ Len(Q) \in Nat /\ Len(Q1) = Len(Q) + 1
    BY <1>1, <2>1, OneMore
  <2>3. Q1[Len(Q) + 1] = r
    BY <1>1, <2>1, OneMore
  <2>4. \A k \in 1..Len(Q1) : (k \in 1..Len(Q) /\ Q1[k] = Q[k]) \/ (k = Len(Q) + 1 /\ Q1[k] = r)
    <3>1. \A k \in 1..Len(Q) : k \in 1..Len(Q1) /\ Q1[k] = Q[k]
      BY <1>1, <2>1, OneMore
    <3>2. \A k \in 1..Len(Q1) : k \notin 1..Len(Q) => k = Len(Q) + 1 /\ Q1[k] = r
      BY <2>2, <2>3
    <3> QED
      BY <3>1, <3>2
  <2> QED
    BY <2>2, <2>3, <2>4
<1>4. RecordsInOrder(Q1, live, new, p + 1, C)
  <2>1. Q1 = Q \o <<r>> /\ Begins(r, Len(o), p)
    BY <1>2
  <2> HIDE DEF Q1, n
  <2> QED
    BY <1>1, <2>1, AcceptanceInOrder
<1>5. ASSUME NEW c, NothingLost(Q, D, live, C, c) PROVE NothingLost(Q1, E, live, C, p + 1)
  <2>1. Q1 = Q \o <<r>> /\ Begins(r, Len(o), p)
        /\ \A i \in 1..Len(N) : N[i].prediction = p + 1 /\ N[i].candidate = r.type
    BY <1>2
  <2> HIDE DEF Q1, n
  <2> QED
    BY <1>1, <1>5, <2>1, AcceptanceLosesNothing
<1>e. E \in Seq(Decision)
  BY ConcatProperties
<1> HIDE DEF Q1
<1>q2. /\ Q2 \in Seq(Record)
       /\ \A k \in 1..Len(Q1) : k \in 1..Len(Q2) /\ Q2[k] = Q1[k]
       /\ \A k \in 1..Len(Q2) : \/ k \in 1..Len(Q1) /\ Q2[k] = Q1[k]
                                \/ \E x \in 1..Len(F) : k = x + Len(Q1) /\ Q2[k] = F[x]
  <2>1. Q2 = Q1 \o F
    OBVIOUS
  <2> HIDE DEF Q2
  <2>2. /\ Q2 \in Seq(Record)
        /\ \A k \in 1..Len(Q1) : k \in 1..Len(Q2) /\ Q2[k] = Q1[k]
    BY <1>1, <1>q1, <2>1, Appended
  <2>3. \A k \in 1..Len(Q2) : \/ k \in 1..Len(Q1) /\ Q2[k] = Q1[k]
                              \/ \E x \in 1..Len(F) : k = x + Len(Q1) /\ Q2[k] = F[x]
    <3>1. \A k \in 1..Len(Q2) : k \notin 1..Len(Q1) =>
            /\ k - Len(Q1) \in 1..Len(F) /\ k = (k - Len(Q1)) + Len(Q1)
            /\ Q2[k] = F[k - Len(Q1)]
      BY <1>1, <1>q1, <2>1, Appended
    <3> QED
      BY <2>2, <3>1
  <2> QED
    BY <2>2, <2>3
<1>6. RecordsInOrder(Q2, L, new, p + 1, C)
  <2>1. Q2 = Q1 \o F /\ p + 1 \in Nat /\ p + 1 \in 0..(p + 1) /\ PageOf(n)
    OBVIOUS
  <2> HIDE DEF Q2, n, e
  <2> QED
    BY <1>0, <1>1, <1>type, <1>3, <1>4, <1>q1, <2>1, EndingsInOrder
<1>7. ASSUME NEW c, NothingLost(Q, D, live, C, c) PROVE NothingLost(Q2, E, L, C, p + 1)
  <2>1. Q2 = Q1 \o F /\ PageOf(n)
    OBVIOUS
  <2> HIDE DEF Q2, n, e
  <2> QED
    <3>1. NothingLost(Q1, E, live, C, p + 1)
      BY <1>5, <1>7
    <3> QED
      BY <1>0, <1>1, <1>type, <1>3, <1>e, <1>q1, <2>1, <3>1, EndingsLoseNothing
<1>l. /\ L \in [Types -> Nat] /\ L[type] = 0 /\ M = [L EXCEPT ![type] = IF found THEN e ELSE 0]
  <2>1. L \in [Types -> {0} \cup 1..n] /\ L[type] = 0
    BY <1>0, <1>type, ClearedPage
  <2>2. M = [L EXCEPT ![type] = IF found THEN e ELSE 0]
    OBVIOUS
  <2> HIDE DEF L, e
  <2>3. L \in [Types -> Nat]
    BY <1>0, <2>1
  <2> QED
    BY <2>1, <2>2, <2>3
<1>8. CASE ~found
  <2>1. M = L /\ R = Q2
    BY <1>1, <1>l, <1>8
  <2> QED
    BY <1>1, <1>6, <1>7, <2>1
<1>9. CASE found
  <2>0. R = Q2 \o <<a>> /\ M = [L EXCEPT ![type] = e]
    BY <1>1, <1>l, <1>9
  <2>1. R = Q2 \o <<a>> /\ Raised(M, L, a.type, e)
    <3> HIDE DEF L
    <3> QED
      BY <1>2, <1>l, <2>0 DEF Raised
  <2>2. Applies(a, L, e)
    BY <1>2, <1>l DEF Applies
  <2>3. \A k \in 1..Len(Q2) : Q2[k].kind \in EndingKinds => Q2[k].episode # e
    <3> SUFFICES ASSUME NEW k \in 1..Len(Q2), Q2[k].kind \in EndingKinds PROVE Q2[k].episode # e
      OBVIOUS
    <3>1. CASE k \in 1..Len(Q1) /\ Q2[k] = Q1[k]
      <4>1. k \in 1..Len(Q) /\ Q1[k] = Q[k]
        BY <1>2, <1>q1, <3>1 DEF Begins, EndingKinds
      <4>2. Q[k].episode \in 1..n
        BY <4>1 DEF RecordsInOrder, Numbered
      <4> QED
        BY <1>0, <3>1, <4>1, <4>2
    <3>2. CASE \E x \in 1..Len(F) : k = x + Len(Q1) /\ Q2[k] = F[x]
      <4>1. PICK x \in 1..Len(F) : Q2[k] = F[x]
        BY <3>2
      <4>2. F[x].type \in Types /\ F[x].episode = live[F[x].type]
        BY <1>3 DEF EndsAll
      <4>3. live[F[x].type] \in {0} \cup 1..n
        BY <4>2 DEF PageOf
      <4> QED
        BY <1>0, <4>1, <4>2, <4>3
    <3> QED
      BY <1>q2, <3>1, <3>2
  <2>4. HasKind(Q2, {"accepted"}, e)
    <3>1. Len(Q) + 1 \in 1..Len(Q2) /\ Q2[Len(Q) + 1] = r
      BY <1>q1, <1>q2
    <3>2. r.kind = "accepted" /\ r.episode = e
      BY <1>2 DEF Begins
    <3> QED
      BY <3>1, <3>2 DEF HasKind
  <2> DEFINE id == p + 1
  <2>5. id \in Nat /\ id \in 0..id /\ id = p + 1
    OBVIOUS
  <2> HIDE DEF Q2, L, e, n, id
  <2>s. RecordsInOrder(Q2, L, new, id, C) /\ a.prediction = id
    BY <1>2, <1>6, <2>5
  <2>6. RecordsInOrder(R, M, new, p + 1, C)
    <3>1. RecordsInOrder(R, M, new, id, C)
      <4>1. /\ new \in Seq(Nat) /\ e \in 1..Len(new) /\ e \notin C /\ Q2 \in Seq(Record) /\ a \in Record
            /\ L \in [Types -> Nat]
        BY <1>0, <1>1, <1>l, <1>q2
      <4> QED
        BY <2>1, <2>2, <2>3, <2>5, <2>s, <4>1, ApplicationInOrder
    <3> QED
      BY <2>5, <3>1
  <2>7. ASSUME NEW c, NothingLost(Q, D, live, C, c) PROVE NothingLost(R, E, M, C, p + 1)
    <3>1. NothingLost(Q2, E, L, C, id)
      BY <1>7, <2>5, <2>7
    <3>2. NothingLost(R, E, M, C, id)
      <4>1. /\ Q2 \in Seq(Record) /\ a \in Record /\ E \in Seq(Decision) /\ L \in [Types -> Nat]
            /\ Applies(a, L, e) /\ a.prediction = id /\ HasKind(Q2, {"accepted"}, e)
            /\ R = Q2 \o <<a>> /\ Raised(M, L, a.type, e)
        BY <1>1, <1>e, <1>l, <1>q2, <2>1, <2>2, <2>4, <2>s
      <4> QED
        BY <3>1, <4>1, ApplicationLosesNothing
    <3> QED
      BY <2>5, <3>2
  <2> QED
    BY <1>1, <2>6, <2>7
<1> QED
  BY <1>8, <1>9

(* A command accepted: its records, and the page with its adaptation.       *)
LEMMA AcceptedKeeps ==
  ASSUME PageAndTrace, WorkerTyped, RoomForTheFlight, NEW verdict \in VerdictsOfFlight,
         NEW found \in BOOLEAN, AnswerAccepted(verdict, found)
  PROVE  PageAndTrace'
<1> DEFINE p == predictionCounter
           n == Len(origin)
           type == verdict.type
           pred == PredictionOf(verdict)
           N == <<DecisionOf(type, "accepted")>>
                  \o (IF found THEN << >> ELSE <<DecisionOf(type, "actuation_failed")>>)
           I == ApplicationRecords(type, n + 1, found)
           preds == trace.predictions \o <<pred>>
           decs == trace.decisions \o N
           recs == trace.interventions \o I
           L == Cleared({type})
           M == [L EXCEPT ![type] = IF found THEN n + 1 ELSE 0]
<1>next. /\ flight # NoFlight /\ type # NoType /\ config.condition = "adaptive"
         /\ predictionCounter' = p + 1 /\ currentPredictionId' = p + 1
         /\ origin' = Append(origin, p + 1) /\ live' = M
         /\ trace' = Recorded(trace, <<pred>>, N, I)
         /\ UNCHANGED <<config, carried>>
  BY DEF AnswerAccepted, NextPrediction
<1>parts. /\ p \in Nat /\ n \in Nat /\ PageOf(n) /\ origin \in Seq(Nat) /\ carried \subseteq 1..n
          /\ trace \in Trace(Types, NoType) /\ Bounded(trace) /\ Episodes = 1..n
          /\ trace.predictions \in Seq(Prediction) /\ trace.decisions \in Seq(Decision)
          /\ trace.interventions \in Seq(Record)
  BY TraceParts
<1>says. SaysOf(trace, live, origin, p, carried, currentPredictionId)
  BY DEF PageAndTrace
<1>type. type \in Types /\ {type} \in SUBSET Types
  BY <1>next, VerdictsTyped
<1>1. /\ pred \in Prediction /\ pred.id = p + 1 /\ pred.window # 0 /\ p + 1 \in 0..MaxPredictions
  BY <1>next, PredictionRecorded
<1>2. /\ N \in Seq(Decision) /\ 1 \in 1..Len(N)
      /\ \A i \in 1..Len(N) : N[i].prediction = p + 1 /\ N[i].candidate = type
  <2> DEFINE d == DecisionOf(type, "accepted")
             f == DecisionOf(type, "actuation_failed")
  <2>1. "accepted" \in Verdicts /\ "actuation_failed" \in Verdicts
    BY DEF Verdicts
  <2>2. /\ d \in Decision /\ d.prediction = p + 1 /\ d.candidate = type
        /\ f \in Decision /\ f.prediction = p + 1 /\ f.candidate = type
    BY <1>next, <2>1, PredictionRecorded
  <2>3. N = <<d>> \o (IF found THEN << >> ELSE <<f>>)
    OBVIOUS
  <2> HIDE DEF d, f, N
  <2>4. <<d>> \in Seq(Decision) /\ Len(<<d>>) = 1 /\ <<d>>[1] = d
    BY <2>2
  <2>5. CASE found
    <3>1. N = <<d>>
      BY <2>3, <2>4, <2>5, ConcatEmptySeq
    <3> QED
      BY <2>2, <2>4, <3>1
  <2>6. CASE ~found
    <3>1. N = <<d>> \o <<f>>
      BY <2>3, <2>6
    <3> DEFINE one == <<d>>
    <3>2. one \in Seq(Decision) /\ Len(one) = 1 /\ one[1] = d /\ N = one \o <<f>>
      BY <2>4, <3>1
    <3> HIDE DEF one
    <3>3. /\ N \in Seq(Decision) /\ Len(N) = Len(one) + 1 /\ N[Len(one) + 1] = f
          /\ \A k \in 1..Len(one) : k \in 1..Len(N) /\ N[k] = one[k]
      BY <2>2, <3>2, OneMore
    <3>4. Len(N) = 2 /\ N[1] = d /\ N[2] = f /\ \A i \in 1..Len(N) : i = 1 \/ i = 2
      BY <3>2, <3>3
    <3> QED
      BY <2>2, <3>3, <3>4
  <2> QED
    BY <2>5, <2>6
<1> HIDE DEF pred, N, I
<1>numbered. PredictionsNumbered(trace.predictions, trace.decisions, p)
  BY <1>says DEF SaysOf
<1>ordered. RecordsInOrder(trace.interventions, live, origin, p, carried)
  BY <1>says DEF SaysOf
<1>p. <<pred>> \in Seq(Prediction)
  BY <1>1
<1>3. /\ PredictionsNumbered(preds, decs, p + 1)
      /\ AllDecided(trace.predictions, trace.decisions) => AllDecided(preds, decs)
  <2> DEFINE oldp == trace.predictions
             oldd == trace.decisions
  <2>1. /\ oldp \in Seq(Prediction) /\ oldd \in Seq(Decision) /\ PredictionsNumbered(oldp, oldd, p)
        /\ preds = oldp \o <<pred>> /\ decs = oldd \o N
    BY <1>parts, <1>numbered
  <2>0. p \in Nat /\ N \in Seq(Decision) /\ \A i \in 1..Len(N) : N[i].prediction = p + 1
    BY <1>parts, <1>2
  <2> HIDE DEF oldp, oldd, preds, decs, p, type
  <2>2. PredictionsNumbered(preds, decs, p + 1)
    BY <1>1, <1>2, <2>0, <2>1, OneMorePrediction
  <2>3. AllDecided(oldp, oldd) => AllDecided(preds, decs)
    BY <1>1, <1>2, <2>0, <2>1, OneMorePrediction
  <2> QED
    BY <2>2, <2>3 DEF oldp, oldd
<1>4. /\ I \in Seq(Record) /\ RecordsInOrder(recs, M, origin', p + 1, carried)
      /\ ~trace.truncated => NothingLost(recs, decs, M, carried, p + 1)
  <2> DEFINE oldi == trace.interventions
             oldd == trace.decisions
             new == Append(origin, p + 1)
  <2>1. /\ oldi \in Seq(Record) /\ oldd \in Seq(Decision) /\ OneEach /\ PageOf(Len(origin))
        /\ RecordsInOrder(oldi, live, origin, p, carried)
        /\ NextPrediction = p + 1 /\ carried \subseteq 1..Len(origin)
    BY <1>parts, <1>ordered DEF PageAndTrace, NextPrediction
  <2>2. \A i \in 1..Len(oldd) : oldd[i].prediction \in 1..p
    BY <1>numbered DEF PredictionsNumbered
  <2>3. /\ I = ApplicationRecords(type, Len(origin) + 1, found) /\ recs = oldi \o I
        /\ decs = oldd \o N /\ M = [Cleared({type}) EXCEPT ![type] = IF found THEN Len(origin) + 1 ELSE 0]
        /\ new = Append(origin, p + 1)
    BY DEF I
  <2>4. ~trace.truncated => NothingLost(oldi, oldd, live, carried, currentPredictionId)
    BY <1>says DEF SaysOf
  <2>0. /\ p \in Nat /\ origin \in Seq(Nat) /\ type \in Types /\ found \in BOOLEAN
        /\ N \in Seq(Decision)
        /\ \A i \in 1..Len(N) : N[i].prediction = p + 1 /\ N[i].candidate = type
    BY <1>parts, <1>type, <1>2
  <2> HIDE DEF oldi, oldd, new, p, n, type, recs, decs, M
  <2>app. Application(p, origin, oldi, oldd, carried, type, found, N, new, I, recs, M)
    BY <2>0, <2>1, <2>2, <2>3 DEF Application
  <2>5. I \in Seq(Record)
    BY <2>app, ApplicationSays
  <2>6. RecordsInOrder(recs, M, new, p + 1, carried)
    BY <2>app, ApplicationSays
  <2>7. LosesNothing(oldi, oldd, live, recs, oldd \o N, M, carried, p + 1)
    BY <2>app, ApplicationSays
  <2> QED
    BY <1>next, <2>3, <2>4, <2>5, <2>6, <2>7 DEF LosesNothing
<1>5. ~trace.truncated => AllDecided(preds, decs)
  BY <1>3, <1>says DEF SaysOf
<1>6. /\ trace' \in Trace(Types, NoType) /\ Bounded(trace')
      /\ SaysOf(trace', M, origin', p + 1, carried, p + 1)
  <2>1. preds = trace.predictions \o <<pred>> /\ decs = trace.decisions \o N
        /\ recs = trace.interventions \o I
    OBVIOUS
  <2> HIDE DEF preds, decs, recs, M, p
  <2> QED
    BY <1>parts, <1>p, <1>2, <1>3, <1>4, <1>5, <1>next, <2>1, RecordedSays
<1>m. /\ \A t \in Types : t # type => M[t] = 0 \/ M[t] = live[t]
      /\ M \in [Types -> {0} \cup 1..(n + 1)] /\ M[type] \in {0, n + 1}
  <2>1. L \in [Types -> {0} \cup 1..n] /\ \A t \in Types : L[t] = IF t \in {type} THEN 0 ELSE live[t]
    BY <1>parts, <1>type, ClearedPage
  <2>2. \A t \in Types : M[t] = IF t = type THEN (IF found THEN n + 1 ELSE 0) ELSE L[t]
    BY <2>1
  <2>3. DOMAIN M = Types /\ M \in [Types -> {0} \cup 1..(n + 1)]
    <3> HIDE DEF L
    <3> QED
      BY <1>parts, <1>type, <2>1
  <2> HIDE DEF L, M
  <2> QED
    BY <1>type, <2>1, <2>2, <2>3
<1> HIDE DEF M, L
<1>types. IdsTyped'
  <2>1. origin \in Seq(1..p)
    BY DEF PageAndTrace, IdsTyped
  <2>2. origin' \in Seq(1..predictionCounter') /\ Episodes' = 1..(n + 1)
    <3>1. (1..p) \subseteq 1..(p + 1) /\ p + 1 \in 1..(p + 1)
      BY <1>parts
    <3>2. origin \in Seq(1..(p + 1))
      BY <2>1, <3>1, SeqMonotonic
    <3>3. Append(origin, p + 1) \in Seq(1..(p + 1)) /\ Len(Append(origin, p + 1)) = n + 1
      BY <3>1, <3>2
    <3> QED
      BY <1>next, <3>3 DEF Episodes
  <2>3. live' \in [Types -> {0} \cup Episodes']
    BY <1>next, <1>m, <2>2
  <2>4. carried' \subseteq Episodes'
    BY <1>next, <1>parts, <2>2
  <2>5. predictionCounter' \in 0..MaxPredictions /\ currentPredictionId' \in 0..predictionCounter'
    BY <1>1, <1>next, <1>parts
  <2> QED
    BY <1>6, <2>2, <2>3, <2>4, <2>5 DEF IdsTyped, Bounded
<1>one. OneEach'
  <2> SUFFICES ASSUME NEW t \in Types, NEW u \in Types, M[t] = M[u], M[t] # 0 PROVE t = u
    BY <1>next DEF OneEach
  <2>1. \A x \in Types : live[x] \in {0} \cup 1..n
    BY <1>parts DEF PageOf
  <2>2. CASE t # type /\ u # type
    BY <1>m, <1>parts, <2>2 DEF PageOf, OneEach
  <2>3. CASE t = type \/ u = type
    <3>1. ASSUME NEW x \in Types, x # type, M[x] # 0 PROVE M[x] # n + 1
      <4>1. M[x] = live[x] /\ live[x] \in {0} \cup 1..n
        BY <1>m, <2>1, <3>1
      <4> HIDE DEF n
      <4> QED
        BY <1>parts, <4>1
    <3> QED
      BY <1>m, <2>3, <3>1
  <2> QED
    BY <2>2, <2>3
<1>bare. BaselineIsBare'
  BY <1>next DEF BaselineIsBare
<1> QED
  BY <1>next, <1>types, <1>one, <1>bare, <1>6 DEF PageAndTrace

(***************************************************************************)
(* The other steps.                                                         *)
(***************************************************************************)
(* The invariant is what its halves say, now and after a step.              *)
LEMMA Halves ==
  /\ TraceInv <=> WorkerTyped /\ RoomForTheFlight /\ PageAndTrace
  /\ TraceInv' <=> WorkerTyped' /\ RoomForTheFlight' /\ PageAndTrace'
<1>1. TraceInv <=> WorkerTyped /\ RoomForTheFlight /\ PageAndTrace
  BY DEF TraceInv, TypeOK, WorkerTyped, PageAndTrace, IdsTyped, Bounded
<1>2. TraceInv' <=> WorkerTyped' /\ RoomForTheFlight' /\ PageAndTrace'
  BY DEF TraceInv, TypeOK, WorkerTyped, PageAndTrace, IdsTyped, Bounded
<1> QED
  BY <1>1, <1>2

(* Steps that leave the page and the trace alone.                           *)
LEMMA PageKept ==
  ASSUME PageAndTrace, UNCHANGED <<config, ids, live, trace, carried>>
  PROVE  PageAndTrace'
<1>1. /\ config' = config /\ predictionCounter' = predictionCounter /\ origin' = origin
      /\ currentPredictionId' = currentPredictionId /\ live' = live /\ trace' = trace
      /\ carried' = carried
  BY DEF ids
<1>types. IdsTyped'
  BY <1>1 DEF PageAndTrace, IdsTyped, Episodes
<1>one. OneEach'
  BY <1>1 DEF PageAndTrace, OneEach
<1>bare. BaselineIsBare'
  BY <1>1 DEF PageAndTrace, BaselineIsBare, NoneLive
<1> QED
  BY <1>1, <1>types, <1>one, <1>bare DEF PageAndTrace

(* An empty trace, with the page as it is carried over.                     *)
LEMMA EmptySays ==
  ASSUME NEW L, NEW o, NEW p, NEW C, NEW c, \A t \in Types : L[t] # 0 => L[t] \in C
  PROVE  /\ EmptyTrace \in Trace(Types, NoType) /\ Bounded(EmptyTrace)
         /\ Bare(EmptyTrace.interventions) /\ SaysOf(EmptyTrace, L, o, p, C, c)
<1> DEFINE P == EmptyTrace.predictions
           D == EmptyTrace.decisions
           I == EmptyTrace.interventions
<1>1. P = << >> /\ D = << >> /\ I = << >> /\ EmptyTrace.truncated = FALSE
  BY DEF EmptyTrace
<1>2. EmptyTrace \in Trace(Types, NoType) /\ Bounded(EmptyTrace)
  <2>1. MaxBufferSize \in Nat
    BY TraceAssumption
  <2> QED
    BY <1>1, <2>1 DEF EmptyTrace, Trace, Bounded
<1>3. (\A k \in 1..Len(P) : FALSE) /\ (\A k \in 1..Len(D) : FALSE) /\ (\A k \in 1..Len(I) : FALSE)
  BY <1>1
<1> HIDE DEF P, D, I
<1>4. RecordsInOrder(I, L, o, p, C) /\ Bare(I)
  BY <1>3 DEF RecordsInOrder, Numbered, AcceptedForTheirOrigin, EndedAfterApplied, EndedAreDown,
              AppliedHere, Bare
<1>5. PredictionsNumbered(P, D, p) /\ AllDecided(P, D)
  BY <1>3 DEF PredictionsNumbered, AllDecided
<1>6. NothingLost(I, D, L, C, c)
  BY <1>3 DEF NothingLost, AcceptedFirst, DecidedFirst, CurrentAccepted, UpWereApplied,
              EndedWereApplied
<1> QED
  BY <1>1, <1>2, <1>4, <1>5, <1>6 DEF SaysOf, P, D, I

(* A runtime that starts has an empty trace and an empty page.              *)
LEMMA FreshPage ==
  ASSUME predictionCounter' = 0, currentPredictionId' = 0, origin' = << >>, live' = NoneLive,
         trace' = EmptyTrace, carried' = {}
  PROVE  PageAndTrace'
<1>1. \A t \in Types : NoneLive[t] = 0
  BY DEF NoneLive
<1>2. /\ EmptyTrace \in Trace(Types, NoType) /\ Bounded(EmptyTrace) /\ Bare(EmptyTrace.interventions)
      /\ SaysOf(EmptyTrace, NoneLive, << >>, 0, {}, 0)
  BY <1>1, EmptySays
<1>types. IdsTyped'
  <2>1. MaxPredictions \in Nat
    BY TraceAssumption
  <2>2. origin' \in Seq(1..predictionCounter') /\ live' \in [Types -> {0} \cup Episodes']
    BY DEF NoneLive, Episodes
  <2> QED
    BY <1>2, <2>1, <2>2 DEF IdsTyped, Bounded
<1>one. OneEach'
  BY <1>1 DEF OneEach
<1>bare. BaselineIsBare'
  BY <1>2 DEF BaselineIsBare, NoneLive
<1> QED
  BY <1>2, <1>types, <1>one, <1>bare DEF PageAndTrace

(* A trial is closed: what is on the page is carried over.                  *)
LEMMA RotateKeeps ==
  ASSUME PageAndTrace, Rotate
  PROVE  PageAndTrace'
<1>1. /\ config' = config /\ predictionCounter' = predictionCounter /\ origin' = origin
      /\ currentPredictionId' = currentPredictionId /\ live' = live /\ trace' = EmptyTrace
      /\ carried' = {live[t] : t \in Types} \ {0}
  BY DEF Rotate, ids
<1>2. /\ EmptyTrace \in Trace(Types, NoType) /\ Bounded(EmptyTrace) /\ Bare(EmptyTrace.interventions)
      /\ SaysOf(EmptyTrace, live, origin, predictionCounter, carried', currentPredictionId)
  <2>1. \A t \in Types : live[t] # 0 => live[t] \in carried'
    BY <1>1
  <2> QED
    BY <2>1, EmptySays
<1>types. IdsTyped'
  <2>1. carried' \subseteq Episodes
    BY <1>1 DEF PageAndTrace, IdsTyped
  <2> QED
    BY <1>1, <1>2, <2>1 DEF PageAndTrace, IdsTyped, Episodes, Bounded
<1>one. OneEach'
  BY <1>1 DEF PageAndTrace, OneEach
<1>bare. BaselineIsBare'
  BY <1>1, <1>2 DEF PageAndTrace, BaselineIsBare, NoneLive
<1> QED
  BY <1>1, <1>2, <1>types, <1>one, <1>bare DEF PageAndTrace

(* What the user, a timer, a reset or a stop ends.                          *)
LEMMA ExpireKeeps ==
  ASSUME PageAndTrace, NEW type \in Types, Expire(type) \/ Dismiss(type)
  PROVE  PageAndTrace'
<1> DEFINE I == EndingsOf({type}, "reverted", currentPredictionId)
           J == EndingsOf({type}, "dismissed", currentPredictionId)
<1>0. /\ {type} \in SUBSET Types /\ "reverted" \in EndingKinds /\ "dismissed" \in EndingKinds
      /\ currentPredictionId \in Nat /\ Len(origin) \in Nat /\ PageOf(Len(origin))
  BY TraceParts DEF EndingKinds
<1>1. I \in Seq(Record) /\ EndsAll(I, {type}, currentPredictionId)
  <2>1. I = EndingsOf({type}, "reverted", currentPredictionId)
    OBVIOUS
  <2> HIDE DEF I
  <2> QED
    BY <1>0, <2>1, EndingsEnd
<1>2. J \in Seq(Record) /\ EndsAll(J, {type}, currentPredictionId)
  <2>1. J = EndingsOf({type}, "dismissed", currentPredictionId)
    OBVIOUS
  <2> HIDE DEF J
  <2> QED
    BY <1>0, <2>1, EndingsEnd
<1>3. /\ live' = Cleared({type}) /\ currentPredictionId' \in {0, currentPredictionId}
      /\ UNCHANGED <<config, predictionCounter, origin, carried>>
  BY DEF Expire, Dismiss, ids
<1>4. CASE Expire(type)
  <2>1. trace' = Recorded(trace, << >>, << >>, I)
    BY <1>4 DEF Expire
  <2> HIDE DEF I
  <2> QED
    BY <1>0, <1>1, <1>3, <2>1, EndingsKeep
<1>5. CASE Dismiss(type)
  <2> DEFINE K == I \o J
  <2>1. trace' = Recorded(trace, << >>, << >>, K) /\ K = I \o J
    BY <1>5 DEF Dismiss
  <2> HIDE DEF I, J, K
  <2>2. K \in Seq(Record) /\ EndsAll(K, {type}, currentPredictionId)
    BY <1>0, <1>1, <1>2, <2>1, EndsTwice
  <2> QED
    BY <1>0, <1>3, <2>1, <2>2, EndingsKeep
<1> QED
  BY <1>4, <1>5

(* A reset or a stop ends everything on the page.                           *)
LEMMA ResetKeeps ==
  ASSUME PageAndTrace, ResetTrial \/ Stop
  PROVE  PageAndTrace'
<1> DEFINE I == EndingsOf(Types, "reverted", currentPredictionId)
<1>0. /\ Types \in SUBSET Types /\ "reverted" \in EndingKinds
      /\ currentPredictionId \in Nat /\ Len(origin) \in Nat /\ PageOf(Len(origin))
  BY TraceParts DEF EndingKinds
<1>1. I \in Seq(Record) /\ EndsAll(I, Types, currentPredictionId)
  <2>1. I = EndingsOf(Types, "reverted", currentPredictionId)
    OBVIOUS
  <2> HIDE DEF I
  <2> QED
    BY <1>0, <2>1, EndingsEnd
<1>2. Cleared(Types) = NoneLive
  BY <1>0, ClearedPage
<1>3. /\ live' = NoneLive /\ currentPredictionId' \in {0, currentPredictionId}
      /\ UNCHANGED <<config, predictionCounter, origin, carried>>
      /\ trace' = Recorded(trace, << >>, << >>, I)
  BY DEF ResetTrial, Stop, ids, EndingsAtStop
<1> HIDE DEF I
<1> QED
  BY <1>0, <1>1, <1>2, <1>3, EndingsKeep

(***************************************************************************)
(* The worker.                                                              *)
(***************************************************************************)
(* A set of natural numbers has its least one for a minimum.                *)
LEMMA LeastIsMin ==
  ASSUME NEW T \in SUBSET Nat, T # {}
  PROVE  Min(T) \in T /\ \A m \in T : Min(T) <= m
<1>1. PICK n \in T : \A m \in T : ~(m < n)
  BY LeastNumber
<1>2. \A m \in T : n <= m
  BY <1>1
<1> QED
  BY <1>2 DEF Min

(* What the fast gate makes of a request is a miss or a declared pattern.   *)
LEMMA FastDecides ==
  ASSUME WorkerTyped, NEW miner \in MinerStates
  PROVE  FastDecision(miner) \in Decisions
<1>miss. Miss \in Decisions
  BY DEF Decisions
<1>1. CASE config.patterns = << >>
  <2>1. FastDecision(miner) = MockDecision(Recent, << >>)
    BY <1>1 DEF FastDecision, FastGateMode
  <2>2. {k \in DOMAIN << >> : CheckMatch(Recent, << >>[k])} = {}
    OBVIOUS
  <2>3. MockDecision(Recent, << >>) = Miss
    BY <2>2 DEF MockDecision, FirstHit
  <2> QED
    BY <1>miss, <2>1, <2>3
<1>2. CASE config.patterns # << >>
  <2> DEFINE history == MacroSequences
             corpus == Corpus(history, Recent)
             candidates == Candidates(RunBounded(corpus, miner).patterns, Len(corpus))
             patterns == [k \in DOMAIN candidates |-> candidates[k].pattern]
             firing == {k \in 1..MaxPatterns :
                          k \in DOMAIN patterns /\ Matches(Recent, patterns[k])
                                               /\ patterns[k] \in DOMAIN Declared}
  <2>1. FastDecision(miner) = IF Recent = << >> THEN Miss ELSE FirstHit(patterns, firing)
    BY <1>2 DEF FastDecision, FastGateMode, PrefixSpanDecision
  <2>2. firing \in SUBSET Nat /\ \A k \in firing : patterns[k] \in DOMAIN Declared
    OBVIOUS
  <2> HIDE DEF patterns, firing
  <2>3. CASE firing = {}
    BY <1>miss, <2>1, <2>3 DEF FirstHit
  <2>4. CASE firing # {}
    <3>1. Min(firing) \in firing
      BY <2>2, <2>4, LeastIsMin
    <3>2. Hit(patterns[Min(firing)]) \in Decisions
      BY <2>2, <3>1 DEF Decisions
    <3> QED
      BY <1>miss, <2>1, <2>4, <3>2 DEF FirstHit
  <2> QED
    BY <2>3, <2>4
<1> QED
  BY <1>1, <1>2

(* A step that is none of the worker's.                                     *)
LEMMA WorkerSame ==
  ASSUME WorkerTyped, RoomForTheFlight, UNCHANGED <<config, running, slowGate, worker>>,
         predictionCounter' = predictionCounter, ~running => live' = NoneLive
  PROVE  WorkerTyped' /\ RoomForTheFlight'
<1>1. /\ config' = config /\ running' = running /\ slowGate' = slowGate
      /\ latestWindow' = latestWindow /\ macros' = macros /\ flight' = flight
  BY DEF worker
<1>2. RoomForTheFlight'
  BY <1>1 DEF RoomForTheFlight
<1>3. WorkerTyped'
  BY <1>1 DEF WorkerTyped, NoneLive
<1> QED
  BY <1>2, <1>3

(* A macro interaction is pushed.                                            *)
LEMMA WorkerRecords ==
  ASSUME WorkerTyped, RoomForTheFlight, NEW symbol \in Symbol, RecordMacro(symbol)
  PROVE  WorkerTyped' /\ RoomForTheFlight'
<1>1. /\ running /\ Len(macros) < MaxMacros /\ macros' = Append(macros, <<symbol, latestWindow>>)
      /\ config' = config /\ running' = running /\ slowGate' = slowGate
      /\ latestWindow' = latestWindow /\ flight' = flight /\ predictionCounter' = predictionCounter
  BY DEF RecordMacro, ids
<1>2. macros' \in Seq(Symbol \X (0..MaxWindows)) /\ Len(macros') <= MaxMacros
  <2> DEFINE T == Symbol \X (0..MaxWindows)
  <2>1. <<symbol, latestWindow>> \in T
    BY DEF WorkerTyped
  <2>2. macros \in Seq(T) /\ MaxMacros \in Nat
    BY TraceAssumption DEF WorkerTyped
  <2> HIDE DEF T
  <2>3. macros' \in Seq(T) /\ Len(macros') = Len(macros) + 1 /\ Len(macros) \in Nat
    BY <1>1, <2>1, <2>2, AppendProperties
  <2> QED
    BY <1>1, <2>2, <2>3 DEF T
<1>3. RoomForTheFlight'
  BY <1>1 DEF RoomForTheFlight
<1>4. WorkerTyped'
  BY <1>1, <1>2 DEF WorkerTyped
<1> QED
  BY <1>3, <1>4

(* A window is closed and evaluated.                                         *)
LEMMA WorkerEvaluates ==
  ASSUME WorkerTyped, RoomForTheFlight, predictionCounter \in Nat, NEW evaluates \in BOOLEAN, NEW miner \in MinerStates,
         CloseWindow(evaluates, miner)
  PROVE  WorkerTyped' /\ RoomForTheFlight'
<1>1. /\ running /\ latestWindow < MaxWindows /\ MoreToDecide /\ latestWindow' = latestWindow + 1
      /\ config' = config /\ running' = running /\ slowGate' = slowGate
      /\ macros' = macros /\ predictionCounter' = predictionCounter
      /\ evaluates => flight = NoFlight
      /\ flight' = IF evaluates
                   THEN [fast |-> FastDecision(miner), mined |-> miner = "ready",
                         window |-> latestWindow + 1]
                   ELSE flight
  BY DEF CloseWindow, ids
<1>2. latestWindow \in 0..MaxWindows /\ MaxWindows \in Nat
  BY TraceAssumption DEF WorkerTyped
<1>3. latestWindow' \in 0..MaxWindows /\ latestWindow + 1 \in 1..MaxWindows
  BY <1>1, <1>2
<1>4. flight' = NoFlight \/ flight' \in [fast: Decisions, mined: BOOLEAN, window: 1..MaxWindows]
  <2>1. CASE evaluates
    <3>1. FastDecision(miner) \in Decisions
      BY FastDecides
    <3>2. (miner = "ready") \in BOOLEAN
      OBVIOUS
    <3> DEFINE fast == FastDecision(miner)
               mined == miner = "ready"
    <3>3. flight' = [fast |-> fast, mined |-> mined, window |-> latestWindow + 1]
      BY <1>1, <2>1
    <3> HIDE DEF fast, mined
    <3> QED
      BY <1>3, <3>1, <3>2, <3>3 DEF fast, mined
  <2>2. CASE ~evaluates
    BY <1>1, <2>2 DEF WorkerTyped
  <2> QED
    BY <2>1, <2>2
<1>5. RoomForTheFlight'
  <2>1. CASE evaluates
    <3>1. predictionCounter + 0 < MaxPredictions
      BY <1>1, <2>1 DEF MoreToDecide
    <3>2. predictionCounter < MaxPredictions
      BY <3>1
    <3> QED
      BY <1>1, <3>2 DEF RoomForTheFlight
  <2>2. CASE ~evaluates
    BY <1>1, <2>2 DEF RoomForTheFlight
  <2> QED
    BY <2>1, <2>2
<1>6. WorkerTyped'
  BY <1>1, <1>3, <1>4 DEF WorkerTyped
<1> QED
  BY <1>5, <1>6

(* The evaluation in flight is answered or given up; a runtime stops or     *)
(* starts.                                                                  *)
LEMMA WorkerRests ==
  ASSUME config' \in Configs, running' \in BOOLEAN,
         slowGate' \in {"mock", "onnx"}, slowGate' = "onnx" => config'.slow = "onnx",
         latestWindow' \in 0..MaxWindows, flight' = NoFlight,
         macros' \in Seq(Symbol \X (0..MaxWindows)), Len(macros') <= MaxMacros,
         ~running' => live' = NoneLive /\ macros' = << >>
  PROVE  WorkerTyped' /\ RoomForTheFlight'
<1>1. RoomForTheFlight'
  BY DEF RoomForTheFlight
<1>2. WorkerTyped'
  BY DEF WorkerTyped, NoneLive
<1> QED
  BY <1>1, <1>2

(***************************************************************************)
(* The theorems.                                                            *)
(***************************************************************************)
(* The invariant holds when a runtime starts.                               *)
LEMMA InitHolds ==
  Init => TraceInv
<1> SUFFICES ASSUME Init PROVE TraceInv
  OBVIOUS
<1>0. /\ MaxWindows \in Nat /\ MaxMacros \in Nat /\ MaxPredictions \in Nat
  BY TraceAssumption
<1>1. /\ config \in Configs /\ running = TRUE /\ latestWindow = 0 /\ macros = << >>
      /\ flight = NoFlight /\ predictionCounter = 0 /\ currentPredictionId = 0 /\ origin = << >>
      /\ live = NoneLive /\ trace = EmptyTrace /\ carried = {}
  BY DEF Init
<1>2. slowGate \in {"mock", "onnx"} /\ (slowGate = "onnx" => config.slow = "onnx")
  BY DEF Init, Initialised, CreateSlowGate
<1>3. WorkerTyped /\ RoomForTheFlight
  BY <1>0, <1>1, <1>2 DEF WorkerTyped, RoomForTheFlight
<1>4. \A t \in Types : NoneLive[t] = 0
  BY DEF NoneLive
<1>5. /\ EmptyTrace \in Trace(Types, NoType) /\ Bounded(EmptyTrace) /\ Bare(EmptyTrace.interventions)
      /\ SaysOf(EmptyTrace, NoneLive, << >>, 0, {}, 0)
  BY <1>4, EmptySays
<1>6. IdsTyped
  <2>1. origin \in Seq(1..predictionCounter) /\ live \in [Types -> {0} \cup Episodes]
    BY <1>1 DEF NoneLive, Episodes
  <2> QED
    BY <1>0, <1>1, <1>5, <2>1 DEF IdsTyped
<1>7. OneEach /\ BaselineIsBare
  BY <1>1, <1>4, <1>5 DEF OneEach, BaselineIsBare
<1>8. PageAndTrace
  BY <1>1, <1>5, <1>6, <1>7 DEF PageAndTrace
<1> QED
  BY <1>3, <1>8, Halves

(* Every step keeps the invariant.                                          *)
LEMMA StepsKeep ==
  TraceInv /\ [Next]_vars => TraceInv'
<1> SUFFICES ASSUME TraceInv, [Next]_vars PROVE TraceInv'
  OBVIOUS
<1>halves. WorkerTyped /\ RoomForTheFlight /\ PageAndTrace
  BY Halves
<1>goal. WorkerTyped' /\ RoomForTheFlight' /\ PageAndTrace' => TraceInv'
  BY Halves
<1>bounds. MaxWindows \in Nat /\ MaxMacros \in Nat /\ << >> \in Seq(Symbol \X (0..MaxWindows))
           /\ Len(<< >>) = 0 /\ 0 \in 0..MaxWindows
  BY TraceAssumption
<1>worker. /\ config \in Configs /\ running \in BOOLEAN
           /\ slowGate \in {"mock", "onnx"} /\ (slowGate = "onnx" => config.slow = "onnx")
           /\ latestWindow \in 0..MaxWindows /\ macros \in Seq(Symbol \X (0..MaxWindows))
           /\ Len(macros) <= MaxMacros
           /\ (~running => flight = NoFlight /\ live = NoneLive /\ macros = << >>)
  BY <1>halves DEF WorkerTyped
<1>p. predictionCounter \in Nat
  BY <1>halves, TraceParts
<1>1. ASSUME NEW symbol \in Symbol, RecordMacro(symbol) PROVE TraceInv'
  <2>1. WorkerTyped' /\ RoomForTheFlight'
    BY <1>halves, <1>1, WorkerRecords
  <2>2. UNCHANGED <<config, ids, live, trace, carried>>
    BY <1>1 DEF RecordMacro
  <2> QED
    BY <1>halves, <1>goal, <2>1, <2>2, PageKept
<1>2. ASSUME NEW evaluates \in BOOLEAN, NEW miner \in MinerStates, CloseWindow(evaluates, miner)
      PROVE  TraceInv'
  <2>1. WorkerTyped' /\ RoomForTheFlight'
    BY <1>halves, <1>p, <1>2, WorkerEvaluates
  <2>2. UNCHANGED <<config, ids, live, trace, carried>>
    BY <1>2 DEF CloseWindow
  <2> QED
    BY <1>halves, <1>goal, <2>1, <2>2, PageKept
<1>3. ASSUME NEW verdict \in VerdictsOfFlight, NEW outcome \in Verdicts,
             AnswerUnapplied(verdict, outcome)
      PROVE  TraceInv'
  <2>1. /\ flight # NoFlight /\ flight' = NoFlight
        /\ config' = config /\ running' = running /\ slowGate' = slowGate
        /\ latestWindow' = latestWindow /\ macros' = macros
    BY <1>3 DEF AnswerUnapplied
  <2>2. WorkerTyped' /\ RoomForTheFlight'
    BY <1>worker, <2>1, WorkerRests
  <2>3. PageAndTrace'
    BY <1>halves, <1>3, UnappliedKeeps
  <2> QED
    BY <1>goal, <2>2, <2>3
<1>4. ASSUME NEW verdict \in VerdictsOfFlight, NEW found \in BOOLEAN, AnswerAccepted(verdict, found)
      PROVE  TraceInv'
  <2>1. /\ flight # NoFlight /\ flight' = NoFlight
        /\ config' = config /\ running' = running /\ slowGate' = slowGate
        /\ latestWindow' = latestWindow /\ macros' = macros
    BY <1>4 DEF AnswerAccepted
  <2>2. WorkerTyped' /\ RoomForTheFlight'
    BY <1>worker, <2>1, WorkerRests
  <2>3. PageAndTrace'
    BY <1>halves, <1>4, AcceptedKeeps
  <2> QED
    BY <1>goal, <2>2, <2>3
<1>5. ASSUME EvaluationFails PROVE TraceInv'
  <2>1. /\ flight # NoFlight /\ flight' = NoFlight
        /\ config' = config /\ running' = running /\ slowGate' = slowGate
        /\ latestWindow' = latestWindow /\ macros' = macros
        /\ UNCHANGED <<config, ids, live, trace, carried>>
    BY <1>5 DEF EvaluationFails
  <2>2. WorkerTyped' /\ RoomForTheFlight'
    BY <1>worker, <2>1, WorkerRests
  <2> QED
    BY <1>halves, <1>goal, <2>1, <2>2, PageKept
<1>6. ASSUME NEW type \in Types, Expire(type) \/ Dismiss(type) PROVE TraceInv'
  <2>1. /\ live[type] # 0 /\ UNCHANGED <<config, running, slowGate, worker>>
        /\ predictionCounter' = predictionCounter
    BY <1>6 DEF Expire, Dismiss, ids
  <2>2. running
    BY <1>worker, <2>1 DEF NoneLive
  <2>3. WorkerTyped' /\ RoomForTheFlight'
    BY <1>halves, <2>1, <2>2, WorkerSame
  <2>4. PageAndTrace'
    BY <1>halves, <1>6, ExpireKeeps
  <2> QED
    BY <1>goal, <2>3, <2>4
<1>7. ASSUME ResetTrial PROVE TraceInv'
  <2>1. /\ running /\ running' = running /\ config' = config /\ slowGate' = slowGate
        /\ flight' = flight /\ latestWindow' = 0 /\ macros' = << >>
        /\ predictionCounter' = predictionCounter
    BY <1>7 DEF ResetTrial
  <2>2. RoomForTheFlight'
    BY <1>halves, <2>1 DEF RoomForTheFlight
  <2>3. WorkerTyped'
    BY <1>halves, <1>bounds, <2>1 DEF WorkerTyped
  <2>4. PageAndTrace'
    BY <1>halves, <1>7, ResetKeeps
  <2> QED
    BY <1>goal, <2>2, <2>3, <2>4
<1>8. ASSUME Stop PROVE TraceInv'
  <2>1. /\ running' = FALSE /\ config' = config /\ slowGate' = slowGate
        /\ flight' = NoFlight /\ latestWindow' = 0 /\ macros' = << >> /\ live' = NoneLive
    BY <1>8 DEF Stop
  <2>2. RoomForTheFlight'
    BY <2>1 DEF RoomForTheFlight
  <2>3. /\ config' \in Configs /\ slowGate' \in {"mock", "onnx"}
        /\ (slowGate' = "onnx" => config'.slow = "onnx")
    BY <1>worker, <2>1
  <2>4. /\ latestWindow' \in 0..MaxWindows
        /\ macros' \in Seq(Symbol \X (0..MaxWindows)) /\ Len(macros') <= MaxMacros
    BY <1>bounds, <2>1
  <2>5. WorkerTyped'
    BY <2>1, <2>3, <2>4 DEF WorkerTyped, NoneLive
  <2>6. PageAndTrace'
    BY <1>halves, <1>8, ResetKeeps
  <2> QED
    BY <1>goal, <2>2, <2>5, <2>6
<1>9. ASSUME NEW with \in Configs, NEW fetchable \in SUBSET Models, Boot(with, fetchable)
      PROVE  TraceInv'
  <2>1. /\ config' = with /\ running' = TRUE /\ slowGate' = Initialised(with, fetchable)
        /\ trace' = EmptyTrace /\ carried' = {}
        /\ latestWindow' = 0 /\ macros' = << >> /\ flight' = NoFlight
        /\ predictionCounter' = 0 /\ currentPredictionId' = 0 /\ origin' = << >>
        /\ live' = NoneLive
    BY <1>9 DEF Boot
  <2>2. slowGate' \in {"mock", "onnx"} /\ (slowGate' = "onnx" => config'.slow = "onnx")
    BY <2>1 DEF Initialised, CreateSlowGate
  <2>3. WorkerTyped' /\ RoomForTheFlight'
    BY <1>bounds, <2>1, <2>2, WorkerRests
  <2>4. PageAndTrace'
    BY <2>1, FreshPage
  <2> QED
    BY <1>goal, <2>3, <2>4
<1>10. ASSUME Rotate PROVE TraceInv'
  <2>1. /\ UNCHANGED <<config, running, slowGate, worker>>
        /\ predictionCounter' = predictionCounter /\ live' = live
    BY <1>10 DEF Rotate, ids
  <2>2. WorkerTyped' /\ RoomForTheFlight'
    BY <1>halves, <1>worker, <2>1, WorkerSame
  <2>3. PageAndTrace'
    BY <1>halves, <1>10, RotateKeeps
  <2> QED
    BY <1>goal, <2>2, <2>3
<1>11. ASSUME UNCHANGED vars PROVE TraceInv'
  <2>1. /\ UNCHANGED <<config, running, slowGate, worker>>
        /\ UNCHANGED <<config, ids, live, trace, carried>>
        /\ predictionCounter' = predictionCounter /\ live' = live
    BY <1>11 DEF vars, ids
  <2>2. WorkerTyped' /\ RoomForTheFlight'
    BY <1>halves, <1>worker, <2>1, WorkerSame
  <2> QED
    BY <1>halves, <1>goal, <2>1, <2>2, PageKept
<1> QED
  BY <1>1, <1>2, <1>3, <1>4, <1>5, <1>6, <1>7, <1>8, <1>9, <1>10, <1>11 DEF Next

(* The records of a trace are in order in every state: ids are those of     *)
(* predictions made and episodes begun, an application that is no longer on *)
(* the page is followed by its ending, and, while nothing was evicted, what *)
(* an episode is attributed to precedes its other records.                  *)
THEOREM TraceInvariant ==
  Spec => []TraceInv
<1> QED
  BY InitHolds, StepsKeep, PTL DEF Spec

(* Types, the bounds of the buffers, and a runtime that is stopped having   *)
(* no evaluation, no adaptation and no macro history.                       *)
THEOREM TraceTyped ==
  Spec => []TypeOK
<1>1. TraceInv => TypeOK
  BY DEF TraceInv
<1> QED
  BY <1>1, TraceInvariant, PTL

(***************************************************************************)
(* What the verifier and the export conclude.                               *)
(***************************************************************************)
(* The episodes with a record of some kinds.                                *)
LEMMA EpisodesRecorded ==
  ASSUME NEW t, t.interventions \in Seq(Record), NEW kinds, NEW e
  PROVE  e \in EpisodesOf(t, kinds) <=> HasKind(t.interventions, kinds, e)
<1> DEFINE Q == t.interventions
<1>1. DOMAIN Q = 1..Len(Q) /\ Range(Q) = {Q[k] : k \in DOMAIN Q}
  BY DEF Range
<1>2. Range(Q) = {Q[k] : k \in 1..Len(Q)}
  BY <1>1
<1> HIDE DEF Q
<1>3. e \in {r.episode : r \in {s \in Range(Q) : s.kind \in kinds}} <=> HasKind(Q, kinds, e)
  BY <1>2 DEF HasKind
<1> QED
  BY <1>3 DEF EpisodesOf, Q

(* An application has its ending exactly if it is no longer on the page.    *)
LEMMA EndedUnlessUp ==
  ASSUME PageAndTrace, NEW e, e \in Applied(trace)
  PROVE  e \in Terminal(trace) <=> ~IsUp(live, e)
<1> DEFINE Q == trace.interventions
<1>1. Q \in Seq(Record) /\ Len(Q) \in Nat
  BY TraceParts
<1>2. EndedAfterApplied(Q, live) /\ EndedAreDown(Q, live)
  BY DEF PageAndTrace, SaysOf, RecordsInOrder
<1>3. HasKind(Q, {"applied"}, e)
  BY <1>1, EpisodesRecorded DEF Applied
<1>4. e \in Terminal(trace) <=> HasKind(Q, EndingKinds, e)
  BY <1>1, EpisodesRecorded DEF Terminal, EndingKinds
<1> HIDE DEF Q
<1>5. ~IsUp(live, e) => HasKind(Q, EndingKinds, e)
  BY <1>2, <1>3 DEF EndedAfterApplied, HasKind
<1>6. HasKind(Q, EndingKinds, e) => ~IsUp(live, e)
  BY <1>2 DEF EndedAreDown, HasKind
<1> QED
  BY <1>4, <1>5, <1>6

(* In the trace an adaptation is unterminated exactly while it is on the    *)
(* page, whatever was evicted.                                              *)
LEMMA LiveAreUnterminated ==
  TraceInv => UnterminatedAreLive
<1> SUFFICES ASSUME TraceInv, NEW e \in Applied(trace)
             PROVE  e \in Unterminated(trace) <=> \E t \in Types : live[t] = e
  BY DEF UnterminatedAreLive
<1>1. PageAndTrace
  BY Halves
<1>2. e \in Terminal(trace) <=> ~IsUp(live, e)
  BY <1>1, EndedUnlessUp
<1> QED
  BY <1>2 DEF Unterminated, IsUp

(* An ending without the application it ends is of an adaptation carried    *)
(* over, unless the trace was truncated.                                    *)
LEMMA EndingsBegin ==
  TraceInv => EndingsHaveTheirBeginning
<1> SUFFICES ASSUME TraceInv, ~trace.truncated, NEW e \in Terminal(trace)
             PROVE  e \in Applied(trace) \cup carried
  BY DEF EndingsHaveTheirBeginning
<1>1. PageAndTrace
  BY Halves
<1> DEFINE Q == trace.interventions
<1>2. Q \in Seq(Record)
  BY <1>1, TraceParts
<1>3. EndedWereApplied(Q, carried)
  BY <1>1 DEF PageAndTrace, SaysOf, NothingLost
<1>4. HasKind(Q, EndingKinds, e)
  BY <1>2, EpisodesRecorded DEF Terminal, EndingKinds
<1>5. e \in Applied(trace) <=> HasKind(Q, {"applied"}, e)
  BY <1>2, EpisodesRecorded DEF Applied
<1> HIDE DEF Q
<1>6. e \in carried \/ HasKind(Q, {"applied"}, e)
  BY <1>3, <1>4 DEF EndedWereApplied, HasKind
<1> QED
  BY <1>5, <1>6

(* An applied episode of a whole trace was accepted first, under the        *)
(* prediction it was begun for.                                             *)
LEMMA AppliedWereAccepted ==
  ASSUME PageAndTrace, ~trace.truncated, NEW e, e \in Applied(trace)
  PROVE  /\ e \in 1..Len(origin) /\ origin[e] \in Nat \ {0} /\ e \in Issued(trace)
         /\ \A k \in 1..Len(trace.interventions) : trace.interventions[k].episode = e =>
              \E j \in 1..Len(trace.interventions) :
                /\ j <= k /\ trace.interventions[j].kind = "accepted"
                /\ trace.interventions[j].episode = e
                /\ trace.interventions[j].prediction = origin[e]
<1> DEFINE Q == trace.interventions
<1>1. Q \in Seq(Record) /\ origin \in Seq(1..predictionCounter) /\ predictionCounter \in Nat
  BY TraceParts DEF PageAndTrace, IdsTyped
<1>2. /\ Numbered(Q, origin, predictionCounter) /\ AcceptedForTheirOrigin(Q, origin)
      /\ AppliedHere(Q, carried)
  BY DEF PageAndTrace, SaysOf, RecordsInOrder
<1>3. AcceptedFirst(Q, carried)
  BY DEF PageAndTrace, SaysOf, NothingLost
<1>4. HasKind(Q, {"applied"}, e)
  BY <1>1, EpisodesRecorded DEF Applied
<1>5. e \in Issued(trace) <=> HasKind(Q, {"accepted"}, e)
  BY <1>1, EpisodesRecorded DEF Issued
<1> HIDE DEF Q
<1>6. PICK a \in 1..Len(Q) : Q[a].kind = "applied" /\ Q[a].episode = e
  BY <1>4 DEF HasKind
<1>7. e \in 1..Len(origin) /\ e \notin carried
  BY <1>2, <1>6 DEF Numbered, AppliedHere
<1>8. origin[e] \in Nat \ {0}
  <2>1. origin[e] \in 1..predictionCounter
    BY <1>1, <1>7
  <2> QED
    BY <1>1, <2>1
<1>9. \A k \in 1..Len(Q) : Q[k].episode = e =>
        \E j \in 1..Len(Q) : j <= k /\ Q[j].kind = "accepted" /\ Q[j].episode = e
                             /\ Q[j].prediction = origin[e]
  BY <1>2, <1>3, <1>7 DEF AcceptedFirst, AcceptedForTheirOrigin
<1>10. e \in Issued(trace)
  BY <1>5, <1>6, <1>9 DEF HasKind
<1> QED
  BY <1>7, <1>8, <1>9, <1>10 DEF Q

(* The verifier passes a whole trace that leaves the page empty, unless a   *)
(* window is orphaned.                                                      *)
LEMMA WholeTracesPass ==
  TraceInv => VerifierPassesWholeTraces
<1> SUFFICES ASSUME TraceInv, ~trace.truncated, live = NoneLive,
                    NEW orphaned \in SUBSET (1..MaxWindows)
             PROVE  Verified(trace, config.condition, orphaned) <=> orphaned = {}
  BY DEF VerifierPassesWholeTraces
<1>1. PageAndTrace
  BY Halves
<1> DEFINE P == trace.predictions
           D == trace.decisions
           Q == trace.interventions
<1>2. P \in Seq(Prediction) /\ D \in Seq(Decision) /\ Q \in Seq(Record)
  BY <1>1, TraceParts
<1>3. /\ Range(P) = {P[k] : k \in 1..Len(P)} /\ Range(D) = {D[k] : k \in 1..Len(D)}
      /\ Range(Q) = {Q[k] : k \in 1..Len(Q)}
  <2> HIDE DEF P, D, Q
  <2>1. DOMAIN P = 1..Len(P) /\ DOMAIN D = 1..Len(D) /\ DOMAIN Q = 1..Len(Q)
    BY <1>2
  <2> QED
    BY <2>1 DEF Range
<1>4. PredictionsNumbered(P, D, predictionCounter) /\ Numbered(Q, origin, predictionCounter)
  BY <1>1 DEF PageAndTrace, SaysOf, RecordsInOrder
<1>5. AllDecided(P, D)
  BY <1>1 DEF PageAndTrace, SaysOf
<1>6. \A e \in Applied(trace) : e \in 1..Len(origin) /\ e \in Issued(trace)
  BY <1>1, AppliedWereAccepted
<1>7. Unterminated(trace) = {}
  <2>1. \A e \in Applied(trace) : ~IsUp(live, e)
    BY <1>6 DEF IsUp, NoneLive
  <2>2. \A e \in Applied(trace) : e \in Terminal(trace)
    BY <1>1, <2>1, EndedUnlessUp
  <2> QED
    BY <2>2 DEF Unterminated
<1>8. config.condition = "baseline" => Applied(trace) = {}
  <2>1. config.condition = "baseline" => Bare(Q)
    BY <1>1 DEF PageAndTrace, BaselineIsBare
  <2>2. \A e \in Applied(trace) : HasKind(Q, {"applied"}, e)
    BY <1>2, EpisodesRecorded DEF Applied
  <2> HIDE DEF Q
  <2>3. Bare(Q) => Applied(trace) = {}
    BY <2>2 DEF Bare, HasKind
  <2> QED
    BY <2>1, <2>3
<1>9. CorrelationIdentifiers(trace)
  <2>1. \A p \in Range(P) : p.window # 0
    BY <1>3, <1>4 DEF PredictionsNumbered
  <2>2. \A r \in Range(Q) : r.episode # 0
    BY <1>3, <1>4 DEF Numbered
  <2> QED
    BY <2>1, <2>2 DEF CorrelationIdentifiers
<1>10. PolicyDecisionRecording(trace)
  <2>1. \A k \in 1..Len(P) : P[k].id # 0
    BY <1>4 DEF PredictionsNumbered
  <2>2. \A k \in 1..Len(P) : P[k].id \in {d.prediction : d \in Range(D)}
    <3> HIDE DEF P, D
    <3> QED
      BY <1>3, <1>5 DEF AllDecided
  <2>3. \A p \in Range(P) : p.id # 0 /\ p.id \in {d.prediction : d \in Range(D)}
    <3> HIDE DEF P, D
    <3> QED
      BY <1>3, <2>1, <2>2
  <2> QED
    BY <2>3 DEF PolicyDecisionRecording, Decided
<1> QED
  BY <1>6, <1>7, <1>8, <1>9, <1>10
     DEF Verified, EpisodePredictionAttribution, BaselineZeroMutations,
         WindowOutcomeCompleteness, ExportIntegrityWarnings

(* A set of numbers up to n that is not empty has its greatest for a maximum.*)
LEMMA GreatestIsMax ==
  ASSUME NEW n \in Nat, NEW T \in SUBSET (1..n), T # {}
  PROVE  Max(T) \in T
<1> DEFINE below == {n - x : x \in T}
<1>1. below \in SUBSET Nat /\ below # {}
  <2>1. \A x \in T : n - x \in Nat
    OBVIOUS
  <2>2. PICK x \in T : TRUE
    OBVIOUS
  <2>3. n - x \in below
    OBVIOUS
  <2> QED
    BY <2>1, <2>3
<1>2. PICK b \in below : \A m \in below : ~(m < b)
  BY <1>1, LeastNumber
<1>3. PICK x \in T : b = n - x
  BY <1>2
<1>4. \A y \in T : x >= y
  <2> SUFFICES ASSUME NEW y \in T PROVE x >= y
    OBVIOUS
  <2>1. ~(n - y < n - x)
    BY <1>2, <1>3
  <2> QED
    BY <2>1
<1> QED
  BY <1>4 DEF Max

(* The verifier attributes what was applied to the prediction it was begun  *)
(* for: the first record that names one is the acceptance, and so is the    *)
(* first that a policy decision matches.                                    *)
LEMMA OriginIsAttributed ==
  TraceInv => AttributedToItsOrigin
<1> SUFFICES ASSUME TraceInv, ~trace.truncated, NEW e \in Applied(trace)
             PROVE  EpisodePrediction(trace)[e] = origin[e]
  BY DEF AttributedToItsOrigin
<1>1. PageAndTrace
  BY Halves
<1> DEFINE Q == trace.interventions
           D == trace.decisions
           named == NamedOf(trace, e)
           again == Reattributing(trace, e)
<1>2. Q \in Seq(Record) /\ D \in Seq(Decision) /\ Len(Q) \in Nat /\ Len(D) \in Nat
      /\ DOMAIN Q = 1..Len(Q) /\ DOMAIN D = 1..Len(D)
  BY <1>1, TraceParts
<1>3. /\ origin[e] \in Nat \ {0}
      /\ \A k \in 1..Len(Q) : Q[k].episode = e =>
           \E j \in 1..Len(Q) : j <= k /\ Q[j].kind = "accepted" /\ Q[j].episode = e
                                /\ Q[j].prediction = origin[e]
  BY <1>1, AppliedWereAccepted
<1>4. HasKind(Q, {"applied"}, e)
  BY <1>2, EpisodesRecorded DEF Applied
<1>5. DecidedFirst(Q, D) /\ AcceptedForTheirOrigin(Q, origin)
  BY <1>1 DEF PageAndTrace, SaysOf, RecordsInOrder, NothingLost
<1>6. named = {k \in 1..Len(Q) : Q[k].prediction # 0 /\ Q[k].episode = e}
  BY <1>2 DEF NamedOf, Named
<1>7. \A k \in again :
        /\ k \in 1..Len(D)
        /\ MatchingDecision(trace, D[k]) # {}
        /\ Q[Min(MatchingDecision(trace, D[k]))].episode = e
  BY <1>2 DEF Reattributing
<1>8. \A k \in 1..Len(D) :
        MatchingDecision(trace, D[k]) =
          {j \in 1..Len(Q) : Q[j].type = D[k].candidate /\ Q[j].prediction = D[k].prediction}
  BY <1>2 DEF MatchingDecision
<1>9. again \in SUBSET (1..Len(D))
  BY <1>2 DEF Reattributing
<1>10. EpisodePrediction(trace)[e] =
         IF again = {} THEN Q[Min(named)].prediction ELSE D[Max(again)].prediction
  <2>1. \E k \in Named(trace) : Q[k].episode = e
    <3> HIDE DEF Q
    <3>1. \E j \in 1..Len(Q) : Q[j].episode = e /\ Q[j].prediction = origin[e]
      BY <1>3, <1>4 DEF HasKind
    <3> QED
      BY <1>2, <1>3, <3>1 DEF Named, Q
  <2>2. e \in {trace.interventions[k].episode : k \in Named(trace)}
    BY <2>1
  <2> QED
    BY <2>2 DEF EpisodePrediction
<1> HIDE DEF Q, D, named, again
<1>11. Q[Min(named)].prediction = origin[e]
  <2>1. PICK a \in 1..Len(Q) : Q[a].kind = "accepted" /\ Q[a].episode = e
                               /\ Q[a].prediction = origin[e]
    BY <1>3, <1>4 DEF HasKind
  <2>2. a \in named /\ named \in SUBSET Nat
    BY <1>3, <1>6, <2>1
  <2>3. Min(named) \in named /\ \A m \in named : Min(named) <= m
    BY <2>2, LeastIsMin
  <2> DEFINE k == Min(named)
  <2>4. k \in 1..Len(Q) /\ Q[k].episode = e /\ \A m \in named : k <= m
    BY <1>6, <2>3
  <2> HIDE DEF k
  <2>5. PICK j \in 1..Len(Q) : j <= k /\ Q[j].kind = "accepted" /\ Q[j].episode = e
                               /\ Q[j].prediction = origin[e]
    BY <1>3, <2>4
  <2>6. j \in named
    BY <1>3, <1>6, <2>5
  <2>7. j = k
    BY <1>2, <2>4, <2>5, <2>6
  <2> QED
    BY <2>5, <2>7 DEF k
<1>12. ASSUME again # {} PROVE D[Max(again)].prediction = origin[e]
  <2> DEFINE i == Max(again)
             matching == MatchingDecision(trace, D[i])
             k == Min(matching)
  <2>1. i \in again
    BY <1>2, <1>9, <1>12, GreatestIsMax
  <2> HIDE DEF i
  <2>2. i \in 1..Len(D) /\ matching # {} /\ Q[k].episode = e
    BY <1>7, <2>1
  <2>3. matching = {j \in 1..Len(Q) : Q[j].type = D[i].candidate /\ Q[j].prediction = D[i].prediction}
    BY <1>8, <2>2
  <2> HIDE DEF matching
  <2>4. matching \in SUBSET Nat
    BY <2>3
  <2>5. k \in matching /\ \A m \in matching : k <= m
    BY <2>2, <2>4, LeastIsMin
  <2> HIDE DEF k
  <2>6. k \in 1..Len(Q) /\ Q[k].type = D[i].candidate /\ Q[k].prediction = D[i].prediction
    BY <2>3, <2>5
  <2>7. PICK j \in 1..Len(Q) : j <= k /\ IsAcceptance(Q[j], D[i])
    BY <1>5, <2>2, <2>6 DEF DecidedFirst
  <2>8. j \in matching
    BY <2>3, <2>7 DEF IsAcceptance
  <2>9. j = k
    BY <1>2, <2>5, <2>6, <2>7, <2>8
  <2>10. Q[k].prediction = origin[Q[k].episode]
    BY <1>5, <2>6, <2>7, <2>9 DEF AcceptedForTheirOrigin, IsAcceptance
  <2> QED
    BY <2>2, <2>6, <2>10 DEF i
<1> QED
  BY <1>10, <1>11, <1>12

(* A trace from which nothing was evicted passes the verifier, once no      *)
(* adaptation is up, exactly if no window of it is orphaned, wherever the   *)
(* trial was reset, stopped or rotated (verifyTraceCompleteness,            *)
(* evaluateAndAct, stop, resetTrial).                                       *)
THEOREM WholeTracesVerified ==
  Spec => []VerifierPassesWholeTraces
<1> QED
  BY WholeTracesPass, TraceInvariant, PTL

(* The export's warning of an unterminated adaptation is true of what is on *)
(* the page, also of a truncated trace (collectIntegrityWarnings).          *)
THEOREM WarningsMeanWhatTheySay ==
  Spec => []UnterminatedAreLive
<1> QED
  BY LiveAreUnterminated, TraceInvariant, PTL

(* Every applied episode of a whole trace is attributed to the prediction   *)
(* it was begun for, whichever prediction its later events name             *)
(* (episodePrediction).                                                     *)
THEOREM AttributedToItsCause ==
  Spec => []AttributedToItsOrigin
<1> QED
  BY OriginIsAttributed, TraceInvariant, PTL

(* An ending without its application is of an adaptation that was up when   *)
(* the trial before it was closed, or in a trace that says it was truncated *)
(* (append, clear, closeTrial).                                             *)
THEOREM NoEndingFromNowhere ==
  Spec => []EndingsHaveTheirBeginning
<1> QED
  BY EndingsBegin, TraceInvariant, PTL
=============================================================================
