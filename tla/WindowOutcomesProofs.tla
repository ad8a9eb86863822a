------------------------- MODULE WindowOutcomesProofs -------------------------
(***************************************************************************)
(* Safety of the windows and their labels for every stride, settlement and *)
(* horizon, every capacity and retention, and any number of events, lives, *)
(* sessions and steps of the clock.                                        *)
(***************************************************************************)
EXTENDS WindowOutcomes, FiniteSetTheorems, FunctionTheorems, SequenceTheorems,
        WellFoundedInduction, TLAPS

(***************************************************************************)
(* The inductive invariant.                                                 *)
(***************************************************************************)
Window == [life: 0..MaxLives, id: Nat, start: Int, events: SUBSET Event]
Label == [life: 0..MaxLives, id: Nat, complete: BOOLEAN, terminated: BOOLEAN,
          outcome: {OutcomeClass(h, t) : h \in SUBSET Event, t \in BOOLEAN},
          knew: SUBSET Event]

(* What was heard and maxBufferedEvents has not pushed out of the deriver.  *)
Undropped == heard \ dropped

Typed ==
  /\ now \in Int /\ running \in BOOLEAN /\ session \in Nat /\ life \in 0..MaxLives
  /\ arrived \in 0..MaxEvents
  /\ heard \subseteq Event /\ IsFiniteSet(heard)
  /\ events \subseteq heard /\ dropped \subseteq heard
  /\ buffer \subseteq Undropped /\ Cardinality(buffer) <= MaxBuffered
  /\ IsFiniteSet(events) /\ Cardinality(events) <= Capacity
  /\ lastWindowEnd \in Int \cup {NoGrid} /\ windowIdCounter \in Nat
  /\ coveredThrough \in Int /\ streamEnded \in BOOLEAN
  /\ pendingOutcomeWindows \in Seq(Window) /\ microTensors \in Seq(Window)
  /\ outcomes \in Seq(Label)

(* The events of this life are told apart by their numbers, and the window  *)
(* they end up in is one of their slot.                                     *)
EventsNumbered ==
  /\ \A e \in heard : e.n < arrived
  /\ \A e, f \in heard : e.n = f.n => e = f
  /\ \A k \in DOMAIN microTensors : \A e \in microTensors[k].events :
       e.n < arrived /\ InSlot(e, microTensors[k].start)

(* No grid, nothing heard; and every slot the grid has passed ended.        *)
GridInStep ==
  /\ running /\ lastWindowEnd = NoGrid => heard = {}
  /\ \A k \in DOMAIN microTensors :
       running /\ microTensors[k].life = life =>
         lastWindowEnd # NoGrid /\ End(microTensors[k]) <= lastWindowEnd
  /\ \A k \in DOMAIN pendingOutcomeWindows :
       running /\ lastWindowEnd # NoGrid /\ End(pendingOutcomeWindows[k]) <= lastWindowEnd

(* What an earlier life's window counted was heard in that life.            *)
PastLivesAreOver ==
  /\ \A k \in DOMAIN microTensors :
       /\ microTensors[k].life <= life
       /\ microTensors[k].life < life => microTensors[k].events \cap heard = {}
  /\ \A k \in DOMAIN outcomes : outcomes[k].life <= life

(* The pending windows are of this life and in the order of their slots,    *)
(* and every label of this life is of a window before them.                 *)
PendingInOrder ==
  /\ \A k \in DOMAIN pendingOutcomeWindows :
       /\ pendingOutcomeWindows[k].life = life
       /\ pendingOutcomeWindows[k].id < windowIdCounter
  /\ \A j, k \in DOMAIN pendingOutcomeWindows : j < k =>
       /\ pendingOutcomeWindows[j].id < pendingOutcomeWindows[k].id
       /\ End(pendingOutcomeWindows[j]) <= pendingOutcomeWindows[k].start
LabelsAreOfEarlierWindows ==
  \A j \in DOMAIN outcomes : outcomes[j].life = life =>
    /\ running => outcomes[j].id < windowIdCounter
    /\ \A k \in DOMAIN pendingOutcomeWindows : outcomes[j].id < pendingOutcomeWindows[k].id
LabelsInOrder ==
  \A j, k \in DOMAIN outcomes : j < k =>
    \/ outcomes[j].life < outcomes[k].life
    \/ outcomes[j].life = outcomes[k].life /\ outcomes[j].id < outcomes[k].id

(* A window of this life that has no label waits for one.                   *)
Labelled(w) == \E j \in DOMAIN outcomes : LabelOf(w, outcomes[j])
Waiting(w) == \E j \in DOMAIN pendingOutcomeWindows : pendingOutcomeWindows[j] = w
NoneForgotten ==
  \A k \in DOMAIN microTensors :
    microTensors[k].life = life => Labelled(microTensors[k]) \/ Waiting(microTensors[k])

(* A window is emitted once its slot has settled, and one that waits was    *)
(* not due at the last flush, so no window of the trace is much newer.      *)
WaitingAreYoung ==
  /\ \A k \in DOMAIN microTensors : End(microTensors[k]) + Settlement <= now
  /\ \A j \in DOMAIN pendingOutcomeWindows, k \in DOMAIN microTensors :
       End(microTensors[k]) + Settlement < End(pendingOutcomeWindows[j]) + LookaheadMax + Grace

(* What the deriver's retention has evicted is before the horizon of every  *)
(* window that waits or is still to come; its limit drops what it will.     *)
EvictedAreOld ==
  running => \A e \in Undropped \ buffer :
    /\ e.t < lastWindowEnd + LookaheadMin
    /\ \A k \in DOMAIN pendingOutcomeWindows : e.t < End(pendingOutcomeWindows[k]) + LookaheadMin

WindowInv ==
  /\ Typed /\ EventsNumbered /\ GridInStep /\ PastLivesAreOver
  /\ PendingInOrder /\ LabelsAreOfEarlierWindows /\ LabelsInOrder
  /\ NoneForgotten /\ WaitingAreYoung
  /\ EventsCountedOnce /\ OpenSlotsKeepTheirEvents
  /\ EvictedAreOld /\ LabelsAreJustified

(***************************************************************************)
(* Enumerations.                                                            *)
(***************************************************************************)
(* Standings go from one to the number of members, and grow with them.          *)
LEMMA Standings ==
  ASSUME NEW S \in SUBSET Int, IsFiniteSet(S)
  PROVE  /\ \A i \in S : Standing(i, S) \in 1..Cardinality(S)
         /\ \A i, j \in S : i < j <=> Standing(i, S) < Standing(j, S)
<1> DEFINE Upto(i) == {j \in S : j <= i}
<1>1. ASSUME NEW i \in S
      PROVE  /\ IsFiniteSet(Upto(i)) /\ Cardinality(Upto(i)) \in Nat \ {0}
             /\ Cardinality(Upto(i)) <= Cardinality(S) /\ Cardinality(S) \in Nat
  <2>1. Upto(i) \in SUBSET S /\ i \in Upto(i)
    OBVIOUS
  <2>2. IsFiniteSet(Upto(i)) /\ Cardinality(Upto(i)) <= Cardinality(S)
    BY <2>1, FS_Subset
  <2>3. Cardinality(Upto(i)) \in Nat /\ Cardinality(S) \in Nat
    BY <2>2, FS_CardinalityType
  <2>4. Cardinality(Upto(i)) # 0
    BY <2>1, <2>2, FS_EmptySet
  <2> QED
    BY <2>2, <2>3, <2>4
<1>2. ASSUME NEW i \in S, NEW j \in S, i < j
      PROVE  Cardinality(Upto(i)) < Cardinality(Upto(j))
  <2>1. i \in Int /\ j \in Int /\ \A m \in S : m \in Int
    OBVIOUS
  <2>2. \A m \in S : m <= i => m <= j
    BY <1>2, <2>1
  <2>3. Upto(i) \in SUBSET Upto(j) /\ j \in Upto(j) /\ j \notin Upto(i)
    <3>1. Upto(i) \subseteq Upto(j)
      BY <2>2
    <3>2. j \in Upto(j)
      BY <2>1
    <3>3. j \notin Upto(i)
      BY <1>2, <2>1
    <3> QED
      BY <3>1, <3>2, <3>3
  <2>4. Cardinality(Upto(i)) <= Cardinality(Upto(j)) /\ Cardinality(Upto(i)) # Cardinality(Upto(j))
    BY <1>1, <2>3, FS_Subset
  <2> QED
    BY <1>1, <2>4
<1>3. \A i \in S : Standing(i, S) = Cardinality(Upto(i))
  BY DEF Standing
<1> HIDE DEF Upto
<1>4. \A i \in S : Standing(i, S) \in 1..Cardinality(S)
  BY <1>1, <1>3
<1>5. \A i, j \in S : i < j => Standing(i, S) < Standing(j, S)
  BY <1>2, <1>3
<1>6. ASSUME NEW i \in S, NEW j \in S, Standing(i, S) < Standing(j, S) PROVE i < j
  <2>1. CASE j < i
    BY <2>1, <1>4, <1>5, <1>6
  <2>2. CASE i = j
    BY <2>2, <1>4, <1>6
  <2> QED
    BY <2>1, <2>2
<1> QED
  BY <1>4, <1>5, <1>6

(* Ordered(S) has every member of S, each after the smaller ones.           *)
LEMMA OrderedEnumerates ==
  ASSUME NEW S \in SUBSET Int, IsFiniteSet(S)
  PROVE  /\ Cardinality(S) \in Nat /\ Ordered(S) \in [1..Cardinality(S) -> S]
         /\ \A j, k \in 1..Cardinality(S) : j < k => Ordered(S)[j] < Ordered(S)[k]
         /\ \A i \in S : \E k \in 1..Cardinality(S) : Ordered(S)[k] = i
<1> DEFINE n == Cardinality(S)
           rank == [i \in S |-> Standing(i, S)]
<1>1. n \in Nat /\ IsFiniteSet(1..n) /\ Cardinality(1..n) = n
  BY FS_CardinalityType, FS_Interval
<1>2. rank \in [S -> 1..n] /\ \A i, j \in S : rank[i] = rank[j] => i = j
  <2>1. \A i, j \in S : Standing(i, S) = Standing(j, S) => i = j
    <3> SUFFICES ASSUME NEW i \in S, NEW j \in S, Standing(i, S) = Standing(j, S), i # j PROVE FALSE
      OBVIOUS
    <3>1. i < j \/ j < i
      OBVIOUS
    <3>2. Standing(i, S) \in Int /\ Standing(j, S) \in Int
      BY Standings, <1>1
    <3> QED
      BY <3>1, <3>2, Standings
  <2> QED
    BY <2>1, Standings
<1>3. rank \in Surjection(S, 1..n)
  <2>1. rank \in Injection(S, 1..n)
    BY <1>2, Fun_IsInj
  <2> QED
    BY <1>1, <2>1, FS_Injection
<1>4. \A k \in 1..n : \E i \in S : Standing(i, S) = k
  <2>1. \A k \in 1..n : \E i \in S : rank[i] = k
    BY <1>3 DEF Surjection
  <2> QED
    BY <2>1
<1>5. \A k \in 1..n : Ordered(S)[k] \in S /\ Standing(Ordered(S)[k], S) = k
  BY <1>4 DEF Ordered
<1>6. Ordered(S) \in [1..n -> S]
  BY <1>5 DEF Ordered
<1>7. \A j, k \in 1..n : j < k => Ordered(S)[j] < Ordered(S)[k]
  BY <1>5, Standings
<1>8. ASSUME NEW i \in S PROVE \E k \in 1..n : Ordered(S)[k] = i
  <2>1. Standing(i, S) \in 1..n
    BY Standings
  <2>2. Ordered(S)[Standing(i, S)] = i
    BY <2>1, <1>2, <1>5
  <2> QED
    BY <2>1, <2>2
<1> QED
  BY <1>1, <1>6, <1>7, <1>8

(* Where the elements of Filtered(s, S) are in s.                           *)
Places(s, S, at) ==
  /\ at \in [1..Len(Filtered(s, S)) -> 1..Len(s)]
  /\ \A j, k \in 1..Len(Filtered(s, S)) : j < k => at[j] < at[k]
  /\ \A k \in 1..Len(Filtered(s, S)) : Filtered(s, S)[k] = s[at[k]] /\ s[at[k]] \in S
  /\ \A i \in 1..Len(s) : s[i] \in S => \E k \in 1..Len(Filtered(s, S)) : at[k] = i

(* Filtered(s, S) has the elements of s that are in S, in the order of s.   *)
LEMMA FilteredKeepsOrder ==
  ASSUME NEW D, NEW s \in Seq(D), NEW S
  PROVE  Filtered(s, S) \in Seq(D) /\ \E at : Places(s, S, at)
<1> DEFINE kept == {k \in DOMAIN s : s[k] \in S}
           at == Ordered(kept)
           n == Cardinality(kept)
<1>1. kept \in SUBSET Int /\ IsFiniteSet(kept) /\ kept \subseteq 1..Len(s) /\ Len(s) \in Nat
  <2>1. Len(s) \in Nat /\ DOMAIN s = 1..Len(s)
    OBVIOUS
  <2>2. IsFiniteSet(1..Len(s)) /\ kept \in SUBSET (1..Len(s))
    BY <2>1, FS_Interval
  <2> QED
    BY <2>1, <2>2, FS_Subset
<1>2. /\ n \in Nat /\ at \in [1..n -> kept]
      /\ \A j, k \in 1..n : j < k => at[j] < at[k]
      /\ \A i \in kept : \E k \in 1..n : at[k] = i
  <2> HIDE DEF kept
  <2> QED
    BY <1>1, OrderedEnumerates
<1>3. Filtered(s, S) = [k \in 1..n |-> s[at[k]]]
  <2>1. DOMAIN at = 1..n
    BY DEF Ordered
  <2> QED
    BY <2>1 DEF Filtered
<1>4. \A k \in 1..n : at[k] \in 1..Len(s) /\ s[at[k]] \in D /\ s[at[k]] \in S
  BY <1>1, <1>2
<1>in. \A i \in 1..Len(s) : s[i] \in S => i \in kept
  OBVIOUS
<1> HIDE DEF at, n, kept
<1>5. Filtered(s, S) \in Seq(D) /\ Len(Filtered(s, S)) = n
  <2>1. [k \in 1..n |-> s[at[k]]] \in [1..n -> D]
    BY <1>4
  <2>2. [k \in 1..n |-> s[at[k]]] \in Seq(D) /\ Len([k \in 1..n |-> s[at[k]]]) = n
    BY <2>1, <1>2
  <2> QED
    BY <2>2, <1>3
<1>6. Places(s, S, at)
  <2>1. at \in [1..n -> 1..Len(s)]
    BY <1>2, <1>4
  <2> QED
    BY <2>1, <1>2, <1>3, <1>4, <1>5, <1>in DEF Places
<1> QED
  BY <1>5, <1>6

(***************************************************************************)
(* The slots of a grid and the capacity of the buffer.                      *)
(***************************************************************************)
(* The lengths are natural numbers.                                         *)
LEMMA Lengths ==
  /\ Stride \in Nat \ {0} /\ Settlement \in Nat /\ Retention \in Nat
  /\ LookaheadMin \in Nat /\ LookaheadMax \in Nat /\ Grace \in Nat
  /\ DeriverRetention \in Nat /\ TieTolerance \in Nat /\ Tolerance \in Nat
  /\ Capacity \in Nat /\ MaxBuffered \in Nat \ {0}
BY WindowAssumption

(* The numbers and the times of windows and events.                         *)
LEMMA TimesAndNumbers ==
  /\ \A w \in Window : w.id \in Nat /\ w.start \in Int /\ End(w) \in Int
  /\ \A e \in Event : e.t \in Int /\ e.n \in Nat
BY Lengths DEF Window, End, Event

(* A set of natural numbers that is not empty has a least element.          *)
LEMMA LeastNumber ==
  ASSUME NEW T \in SUBSET Nat, T # {}
  PROVE  \E n \in T : \A m \in T : ~(m < n)
<1> DEFINE Less == {p \in Nat \X Nat : p[1] < p[2]}
<1>1. IsWellFoundedOn(Less, Nat)
  BY NatLessThanWellFounded DEF OpToRel
<1>2. \A m, k \in Nat : m < k => <<m, k>> \in Less
  OBVIOUS
<1> HIDE DEF Less
<1>3. PICK n \in T : \A m \in T : ~(<<m, n>> \in Less)
  BY <1>1, WFMin
<1>4. \A m \in T : ~(m < n)
  BY <1>2, <1>3
<1> QED
  BY <1>4

(* Events that their numbers tell apart have an oldest one.                 *)
LEMMA OldestIsOne ==
  ASSUME NEW S \in SUBSET Event, IsFiniteSet(S), S # {}, \A e, f \in S : e.n = f.n => e = f
  PROVE  Oldest(S) \in S
<1> DEFINE Older(e) == {f \in S : Before(f, e)}
           Numbers == {Cardinality(Older(e)) : e \in S}
<1>1. \A e \in S : IsFiniteSet(Older(e)) /\ Cardinality(Older(e)) \in Nat
  <2>1. \A e \in S : Older(e) \in SUBSET S
    OBVIOUS
  <2> QED
    BY <2>1, FS_Subset, FS_CardinalityType
<1>2. ASSUME NEW e \in S, NEW f \in S, Before(f, e)
      PROVE  Cardinality(Older(f)) < Cardinality(Older(e))
  <2>1. e.t \in Int /\ f.t \in Int /\ e.n \in Nat /\ f.n \in Nat
    BY DEF Event
  <2>2. ASSUME NEW g \in S, Before(g, f) PROVE Before(g, e)
    <3>1. g.t \in Int /\ g.n \in Nat
      BY DEF Event
    <3> QED
      BY <1>2, <2>1, <2>2, <3>1 DEF Before
  <2>3. Older(f) \subseteq Older(e)
    BY <2>2
  <2>4. f \in Older(e) /\ f \notin Older(f)
    BY <1>2, <2>1 DEF Before
  <2> HIDE DEF Older
  <2>5. /\ Cardinality(Older(f)) <= Cardinality(Older(e))
        /\ Cardinality(Older(f)) # Cardinality(Older(e))
    BY <1>1, <2>3, <2>4, FS_Subset
  <2> QED
    BY <1>1, <2>5
<1> HIDE DEF Older
<1>3. Numbers \in SUBSET Nat
  BY <1>1
<1>n. Numbers # {}
  OBVIOUS
<1>4. PICK n \in Numbers : \A m \in Numbers : ~(m < n)
  <2> HIDE DEF Numbers
  <2> QED
    BY <1>3, <1>n, LeastNumber
<1>5. PICK e \in S : Cardinality(Older(e)) = n
  BY <1>4
<1>6. ASSUME NEW f \in S \ {e} PROVE Before(e, f)
  <2>1. Cardinality(Older(f)) \in Numbers
    OBVIOUS
  <2>2. ~Before(f, e)
    <3> HIDE DEF Numbers
    <3> QED
      BY <1>2, <1>4, <1>5, <2>1
  <2>3. e.t \in Int /\ f.t \in Int /\ e.n \in Nat /\ f.n \in Nat /\ e.n # f.n
    BY DEF Event
  <2> QED
    BY <2>2, <2>3 DEF Before
<1> QED
  BY <1>6 DEF Oldest

(* What push() leaves fits the capacity.                                    *)
LEMMA OverflowBounds ==
  ASSUME NEW S \in SUBSET Event, IsFiniteSet(S), Cardinality(S) <= Capacity + 1,
         \A e, f \in S : e.n = f.n => e = f
  PROVE  IsFiniteSet(S \ Overflow(S)) /\ Cardinality(S \ Overflow(S)) <= Capacity
<1> DEFINE left == S \ Overflow(S)
<1>1. Cardinality(S) \in Nat /\ Capacity \in Nat
  BY FS_CardinalityType, WindowAssumption
<1>2. CASE Cardinality(S) > Capacity
  <2>1. S # {}
    BY <1>1, <1>2, FS_EmptySet
  <2>2. Oldest(S) \in S
    BY <2>1, OldestIsOne
  <2>3. left = S \ {Oldest(S)}
    BY <1>2 DEF Overflow
  <2> HIDE DEF left
  <2>4. IsFiniteSet(left) /\ Cardinality(left) = Cardinality(S) - 1
    BY <2>2, <2>3, FS_RemoveElement
  <2> QED
    BY <1>1, <2>4 DEF left
<1>3. CASE ~(Cardinality(S) > Capacity)
  <2>1. left = S
    BY <1>3 DEF Overflow
  <2> HIDE DEF left
  <2>2. IsFiniteSet(left) /\ Cardinality(left) = Cardinality(S)
    BY <2>1
  <2> QED
    BY <1>1, <1>3, <2>2 DEF left
<1> QED
  BY <1>2, <1>3

(* What OutcomeDeriver.push() leaves fits its limit: the event pushed first *)
(* is one.                                                                  *)
LEMMA DroppedBounds ==
  ASSUME NEW S \in SUBSET Event, IsFiniteSet(S), Cardinality(S) <= MaxBuffered + 1,
         \A e, f \in S : e.n = f.n => e = f
  PROVE  IsFiniteSet(S \ Dropped(S)) /\ Cardinality(S \ Dropped(S)) <= MaxBuffered
<1> DEFINE left == S \ Dropped(S)
<1>1. Cardinality(S) \in Nat /\ MaxBuffered \in Nat
  BY FS_CardinalityType, WindowAssumption
<1>2. CASE Cardinality(S) > MaxBuffered
  <2> DEFINE Numbers == {e.n : e \in S}
  <2>1. S # {}
    BY <1>1, <1>2, FS_EmptySet
  <2>2. \A e \in S : e.n \in Nat
    BY DEF Event
  <2>3. Numbers \in SUBSET Nat /\ Numbers # {}
    BY <2>1, <2>2
  <2>4. PICK n \in Numbers : \A m \in Numbers : ~(m < n)
    <3> HIDE DEF Numbers
    <3> QED
      BY <2>3, LeastNumber
  <2>5. PICK e \in S : e.n = n
    BY <2>4
  <2>6. \A f \in S : e.n <= f.n
    BY <2>2, <2>4, <2>5
  <2>7. \A f \in S : f.n <= e.n => f = e
    BY <2>2, <2>6
  <2>8. left = S \ {e}
    BY <1>2, <2>6, <2>7 DEF Dropped
  <2> HIDE DEF left
  <2>9. IsFiniteSet(left) /\ Cardinality(left) = Cardinality(S) - 1
    BY <2>8, FS_RemoveElement
  <2> QED
    BY <1>1, <2>9 DEF left
<1>3. CASE ~(Cardinality(S) > MaxBuffered)
  <2>1. left = S
    BY <1>3 DEF Dropped
  <2> HIDE DEF left
  <2>2. IsFiniteSet(left) /\ Cardinality(left) = Cardinality(S)
    BY <2>1
  <2> QED
    BY <1>1, <1>3, <2>2 DEF left
<1> QED
  BY <1>2, <1>3

(* The slots of a grid follow each other.                                   *)
LEMMA SlotsFollow ==
  ASSUME NEW grid \in Int, NEW k \in Nat \ {0}
  PROVE  /\ SlotStart(grid, k) \in Int /\ grid <= SlotStart(grid, k)
         /\ SlotStart(grid, k) + Stride = grid + k * Stride
         /\ \A j \in Nat \ {0} : j < k => SlotStart(grid, j) + Stride <= SlotStart(grid, k)
<1>1. Stride \in Nat /\ (k - 1) * Stride \in Nat /\ k * Stride = (k - 1) * Stride + Stride
  BY WindowAssumption
<1>2. ASSUME NEW j \in Nat \ {0}, j < k PROVE SlotStart(grid, j) + Stride <= SlotStart(grid, k)
  <2> DEFINE d == k - 1 - j
  <2>1. d \in Nat /\ k - 1 = j + d
    BY <1>2
  <2>2. (k - 1) * Stride = j * Stride + d * Stride
    <3> HIDE DEF d
    <3> QED
      BY <1>1, <2>1
  <2>3. d * Stride \in Nat /\ j * Stride \in Nat /\ (j - 1) * Stride + Stride = j * Stride
    <3> HIDE DEF d
    <3> QED
      BY <1>1, <2>1
  <2> HIDE DEF d
  <2> QED
    BY <1>1, <2>2, <2>3 DEF SlotStart
<1> QED
  BY <1>1, <1>2 DEF SlotStart

(* Every due slot ended a settlement ago, and before the grid's new end.    *)
LEMMA DueSlotsAreOver ==
  ASSUME now \in Int, NEW grid \in Int
  PROVE  /\ DueSlots(grid) \in Nat /\ grid + DueSlots(grid) * Stride \in Int
         /\ grid <= grid + DueSlots(grid) * Stride
         /\ \A k \in 1..DueSlots(grid) :
              /\ SlotStart(grid, k) + Stride + Settlement <= now
              /\ SlotStart(grid, k) + Stride <= grid + DueSlots(grid) * Stride
<1>1. Stride \in Nat \ {0} /\ Settlement \in Nat
  BY WindowAssumption
<1>2. CASE now - grid < Stride + Settlement
  BY <1>1, <1>2 DEF DueSlots
<1>3. CASE ~(now - grid < Stride + Settlement)
  <2> DEFINE span == now - grid - Settlement
             due == span \div Stride
  <2>1. span \in Nat /\ span >= Stride
    BY <1>1, <1>3
  <2>2. DueSlots(grid) = due
    BY <1>3 DEF DueSlots
  <2> HIDE DEF span
  <2>3. due \in Nat /\ due * Stride <= span
    BY <1>1, <2>1
  <2> HIDE DEF due
  <2>4. ASSUME NEW k \in 1..due
        PROVE  /\ k * Stride <= due * Stride /\ k * Stride \in Nat
               /\ SlotStart(grid, k) + Stride = grid + k * Stride
    <3> DEFINE d == due - k
    <3>1. d \in Nat /\ due = k + d /\ k \in Nat \ {0}
      BY <2>3
    <3> HIDE DEF d
    <3>2. due * Stride = k * Stride + d * Stride /\ d * Stride \in Nat /\ k * Stride \in Nat
      BY <1>1, <3>1
    <3>3. SlotStart(grid, k) + Stride = grid + k * Stride
      BY <3>1, SlotsFollow
    <3> QED
      BY <1>1, <2>3, <3>2, <3>3
  <2>5. due * Stride \in Nat
    BY <1>1, <2>3
  <2> QED
    BY <1>1, <2>2, <2>3, <2>4, <2>5 DEF span
<1> QED
  BY <1>2, <1>3

(***************************************************************************)
(* What a tick emits, what a flush settles.                                 *)
(***************************************************************************)
(* Windows in the order of their slots.                                     *)
SlotsInOrder(W) ==
  \A j, k \in 1..Len(W) : j < k => W[j].id < W[k].id /\ End(W[j]) <= W[k].start

(* The windows of a tick: numbered on, in order, of slots that are over.    *)
LEMMA TickEmits ==
  ASSUME Typed, NEW grid \in Int, NEW W, W = WindowsOf(events, grid)
  PROVE  /\ W \in Seq(Window) /\ SlotsInOrder(W)
         /\ \A k \in 1..Len(W) :
              /\ W[k].life = life /\ W[k].id = windowIdCounter + k - 1
              /\ grid <= W[k].start /\ End(W[k]) <= grid + DueSlots(grid) * Stride
              /\ End(W[k]) + Settlement <= now
              /\ W[k].events \subseteq events
              /\ \A e \in W[k].events : InSlot(e, W[k].start)
<1> DEFINE due == DueSlots(grid)
           slots == {slot \in 1..due : Emits(events, SlotStart(grid, slot))}
           n == Cardinality(slots)
           at == Ordered(slots)
           window(k) == [life |-> life, id |-> windowIdCounter + k - 1,
                         start |-> SlotStart(grid, at[k]),
                         events |-> SlotEvents(events, SlotStart(grid, at[k]))]
<1>typed. now \in Int /\ life \in 0..MaxLives /\ windowIdCounter \in Nat /\ events \in SUBSET Event
  BY DEF Typed
<1>due. due \in Nat
  BY <1>typed, DueSlotsAreOver
<1> HIDE DEF due
<1>1. slots \in SUBSET Int /\ IsFiniteSet(slots) /\ slots \subseteq 1..due
  <2>1. IsFiniteSet(1..due) /\ slots \in SUBSET (1..due)
    BY <1>due, FS_Interval
  <2>2. IsFiniteSet(slots)
    <3> HIDE DEF slots
    <3> QED
      BY <2>1, FS_Subset
  <2> QED
    BY <2>1, <2>2
<1>2. /\ n \in Nat /\ at \in [1..n -> slots]
      /\ \A j, k \in 1..n : j < k => at[j] < at[k]
  <2> HIDE DEF slots
  <2> QED
    BY <1>1, OrderedEnumerates
<1>3. W = [k \in 1..n |-> window(k)]
  <2>1. DOMAIN at = 1..n
    BY DEF Ordered
  <2> QED
    BY <2>1 DEF WindowsOf, due
<1>at. \A k \in 1..n : at[k] \in 1..due
  BY <1>1, <1>2
<1> HIDE DEF at, n, slots
<1>4. ASSUME NEW k \in 1..n
      PROVE  /\ window(k) \in Window /\ window(k).id = windowIdCounter + k - 1
             /\ window(k).life = life /\ window(k).start = SlotStart(grid, at[k])
             /\ window(k).start \in Int /\ End(window(k)) = SlotStart(grid, at[k]) + Stride
             /\ grid <= window(k).start /\ End(window(k)) <= grid + due * Stride
             /\ End(window(k)) + Settlement <= now
             /\ window(k).events \subseteq events
             /\ \A e \in window(k).events : InSlot(e, window(k).start)
  <2>1. at[k] \in Nat \ {0} /\ at[k] \in 1..due
    BY <1>at, <1>due
  <2>2. /\ SlotStart(grid, at[k]) \in Int /\ grid <= SlotStart(grid, at[k])
        /\ SlotStart(grid, at[k]) + Stride + Settlement <= now
        /\ SlotStart(grid, at[k]) + Stride <= grid + due * Stride
    BY <1>typed, <2>1, SlotsFollow, DueSlotsAreOver DEF due
  <2>3. /\ window(k).id \in Nat /\ window(k).id = windowIdCounter + k - 1
        /\ window(k).life = life /\ window(k).start = SlotStart(grid, at[k])
        /\ window(k).events = SlotEvents(events, SlotStart(grid, at[k]))
    BY <1>typed, <1>2
  <2>4. window(k).events \in SUBSET events /\ \A e \in window(k).events : InSlot(e, window(k).start)
    BY <2>3 DEF SlotEvents
  <2>5. window(k) \in Window
    BY <1>typed, <2>2, <2>3, <2>4 DEF Window
  <2> QED
    BY <2>2, <2>3, <2>4, <2>5 DEF End
<1>5. ASSUME NEW j \in 1..n, NEW k \in 1..n, j < k
      PROVE  window(j).id < window(k).id /\ End(window(j)) <= window(k).start
  <2>1. at[j] \in Nat \ {0} /\ at[k] \in Nat \ {0} /\ at[j] < at[k]
    BY <1>2, <1>5, <1>at, <1>due
  <2>2. SlotStart(grid, at[j]) + Stride <= SlotStart(grid, at[k])
    BY <2>1, SlotsFollow
  <2>3. windowIdCounter + j - 1 < windowIdCounter + k - 1
    BY <1>5, <1>typed, <1>2
  <2> HIDE DEF window
  <2> QED
    BY <1>4, <2>2, <2>3
<1> HIDE DEF window
<1>6. W \in Seq(Window) /\ Len(W) = n /\ \A k \in 1..n : W[k] = window(k)
  <2>1. [k \in 1..n |-> window(k)] \in [1..n -> Window]
    BY <1>4
  <2>2. [k \in 1..n |-> window(k)] \in Seq(Window) /\ Len([k \in 1..n |-> window(k)]) = n
    BY <2>1, <1>2
  <2> QED
    BY <2>2, <1>3
<1>7. SlotsInOrder(W)
  BY <1>5, <1>6 DEF SlotsInOrder
<1> QED
  BY <1>4, <1>6, <1>7 DEF due

(* What several evictions leave is what each of them would leave: LeftBy is *)
(* what the settlements one after another leave of the buffer.              *)
LEMMA EvictionsCommute ==
  ASSUME NEW s \in SUBSET Event, NEW c \in Int, NEW d \in Int
  PROVE  KeptFrom(KeptFrom(s, c), d) = KeptFrom(s, c) \cap KeptFrom(s, d)
<1>types. \A e \in s : e.t \in Int /\ e.n \in Nat
  BY DEF Event
<1>1. ASSUME NEW e \in KeptFrom(KeptFrom(s, c), d) PROVE e \in KeptFrom(s, c) \cap KeptFrom(s, d)
  BY <1>1 DEF KeptFrom
<1>2. ASSUME NEW e \in s, e \in KeptFrom(s, c), e \in KeptFrom(s, d)
      PROVE  e \in KeptFrom(KeptFrom(s, c), d)
  <2>1. PICK f \in s : f.n <= e.n /\ f.t >= c
    BY <1>2 DEF KeptFrom
  <2>2. PICK g \in s : g.n <= e.n /\ g.t >= d
    BY <1>2 DEF KeptFrom
  <2>3. CASE f.n <= g.n
    <3>1. g \in KeptFrom(s, c)
      BY <2>1, <2>3 DEF KeptFrom
    <3> QED
      BY <1>2, <2>2, <3>1 DEF KeptFrom
  <2>4. CASE ~(f.n <= g.n) /\ c >= d
    <3>1. f.t >= d /\ f \in KeptFrom(s, c)
      BY <1>types, <2>1, <2>4 DEF KeptFrom
    <3> QED
      BY <1>2, <2>1, <3>1 DEF KeptFrom
  <2>5. CASE ~(f.n <= g.n) /\ ~(c >= d)
    <3>1. g.t >= c /\ g.n <= g.n
      BY <1>types, <2>2, <2>5
    <3>2. g \in KeptFrom(s, c)
      BY <3>1 DEF KeptFrom
    <3> QED
      BY <1>2, <2>2, <3>2 DEF KeptFrom
  <2> QED
    BY <2>3, <2>4, <2>5
<1>3. \A e \in KeptFrom(s, c) : e \in s
  BY DEF KeptFrom
<1> QED
  BY <1>1, <1>2, <1>3

(* The labels so far are of earlier windows than those of P.                *)
LabelsBelow(P) ==
  \A j \in 1..Len(outcomes) : outcomes[j].life = life =>
    \A k \in 1..Len(P) : outcomes[j].id < P[k].id

(* One label.                                                               *)
LEMMA OutcomeIsLabel ==
  ASSUME NEW w \in Window, NEW s \in SUBSET Event, NEW covered \in Int,
         heard' \in SUBSET Event, streamEnded' \in BOOLEAN
  PROVE  /\ Outcome(w, s, covered) \in Label
         /\ Outcome(w, s, covered).life = w.life /\ Outcome(w, s, covered).id = w.id
<1> DEFINE o == Outcome(w, s, covered)
           complete == covered >= End(w) + LookaheadMax
           terminated == streamEnded' /\ ~complete
<1>1. complete \in BOOLEAN /\ terminated \in BOOLEAN
  OBVIOUS
<1> HIDE DEF complete
<1>t. terminated = (streamEnded' /\ ~complete)
  OBVIOUS
<1>2. o = [life |-> w.life, id |-> w.id, complete |-> complete, terminated |-> terminated,
           outcome |-> OutcomeClass(Horizon(s, w), terminated), knew |-> Horizon(heard' \ dropped', w)]
  BY DEF Outcome, complete
<1> HIDE DEF terminated
<1>3. Horizon(s, w) \in SUBSET Event /\ Horizon(heard' \ dropped', w) \in SUBSET Event
  BY DEF Horizon
<1>4. OutcomeClass(Horizon(s, w), terminated)
        \in {OutcomeClass(h, t) : h \in SUBSET Event, t \in BOOLEAN}
  BY <1>1, <1>3
<1>5. w.life \in 0..MaxLives /\ w.id \in Nat
  BY DEF Window
<1> HIDE DEF o
<1>6. o \in Label
  <2> DEFINE class == OutcomeClass(Horizon(s, w), terminated)
             classes == {OutcomeClass(h, t) : h \in SUBSET Event, t \in BOOLEAN}
             known == Horizon(heard' \ dropped', w)
  <2>1. class \in classes /\ known \in SUBSET Event
    BY <1>3, <1>4
  <2>2. o = [life |-> w.life, id |-> w.id, complete |-> complete, terminated |-> terminated,
             outcome |-> class, knew |-> known]
    BY <1>2
  <2>3. Label = [life: 0..MaxLives, id: Nat, complete: BOOLEAN, terminated: BOOLEAN,
                 outcome: classes, knew: SUBSET Event]
    BY DEF Label
  <2> HIDE DEF class, classes, known
  <2> QED
    BY <1>1, <1>5, <2>1, <2>2, <2>3
<1> QED
  BY <1>2, <1>6 DEF o

(* Labels appended for windows in order stay in order: each is after every  *)
(* label so far.                                                            *)
LEMMA LabelsAppended ==
  ASSUME Typed, LabelsInOrder, \A k \in DOMAIN outcomes : outcomes[k].life <= life,
         NEW settled \in Seq(Window), \A k \in 1..Len(settled) : settled[k].life = life,
         SlotsInOrder(settled), LabelsBelow(settled),
         NEW s \in SUBSET Event, NEW covered \in Int,
         heard' \in SUBSET Event, streamEnded' \in BOOLEAN,
         outcomes' = outcomes \o OutcomesOf(settled, s, covered)
  PROVE  /\ outcomes' \in Seq(Label) /\ LabelsInOrder'
         /\ \A i \in 1..Len(outcomes') :
              \/ \E j \in 1..Len(outcomes) : outcomes'[i] = outcomes[j]
              \/ \E k \in 1..Len(settled) :
                   outcomes'[i].life = life /\ outcomes'[i].id = settled[k].id
         /\ \A j \in 1..Len(outcomes) : \E i \in 1..Len(outcomes') : outcomes'[i] = outcomes[j]
         /\ \A k \in 1..Len(settled) : \E i \in 1..Len(outcomes') : LabelOf(settled[k], outcomes'[i])
<1> DEFINE n == Len(settled)
           m == Len(outcomes)
           more == OutcomesOf(settled, s, covered)
<1>typed. outcomes \in Seq(Label) /\ life \in Nat
  BY WindowAssumption DEF Typed
<1>1. n \in Nat /\ m \in Nat /\ DOMAIN settled = 1..n /\ DOMAIN outcomes = 1..m
      /\ \A k \in 1..n : settled[k] \in Window
  BY <1>typed
<1>2. more \in Seq(Label) /\ Len(more) = n
      /\ \A k \in 1..n : more[k].life = life /\ more[k].id = settled[k].id
  <2> DEFINE before(k) == LeftBy(s, {settled[j] : j \in 1..(k - 1)})
             label(k) == Outcome(settled[k], before(k), covered)
  <2>1. \A k \in 1..n : before(k) \in SUBSET Event
    BY DEF LeftBy
  <2>2. more = [k \in 1..n |-> label(k)]
    BY <1>1 DEF OutcomesOf
  <2> HIDE DEF before
  <2>3. \A k \in 1..n : label(k) \in Label /\ label(k).life = life /\ label(k).id = settled[k].id
    BY <1>1, <2>1, OutcomeIsLabel
  <2> HIDE DEF label
  <2>4. [k \in 1..n |-> label(k)] \in Seq(Label) /\ Len([k \in 1..n |-> label(k)]) = n
    <3>1. [k \in 1..n |-> label(k)] \in [1..n -> Label]
      BY <2>3
    <3> QED
      BY <1>1, <3>1
  <2> HIDE DEF more, n
  <2> QED
    BY <2>2, <2>3, <2>4
<1> HIDE DEF more
<1>3. /\ outcomes' \in Seq(Label) /\ Len(outcomes') = m + n
      /\ \A i \in 1..(m + n) :
           outcomes'[i] = IF i <= m THEN outcomes[i] ELSE more[i - m]
  <2>1. outcomes' = outcomes \o more
    BY DEF more
  <2> HIDE DEF more
  <2>2. /\ outcomes \o more \in Seq(Label) /\ Len(outcomes \o more) = Len(outcomes) + Len(more)
        /\ \A i \in 1..(Len(outcomes) + Len(more)) :
             (outcomes \o more)[i] = IF i <= Len(outcomes) THEN outcomes[i]
                                     ELSE more[i - Len(outcomes)]
    <3>1. outcomes \o more \in Seq(Label)
      BY <1>typed, <1>2, ConcatProperties
    <3>2. Len(outcomes \o more) = Len(outcomes) + Len(more)
      BY <1>typed, <1>2, ConcatProperties
    <3>3. \A i \in 1..(Len(outcomes) + Len(more)) :
            (outcomes \o more)[i] = IF i <= Len(outcomes) THEN outcomes[i]
                                    ELSE more[i - Len(outcomes)]
      BY <1>typed, <1>2, ConcatProperties
    <3> QED
      BY <3>1, <3>2, <3>3
  <2> QED
    BY <1>2, <2>1, <2>2
<1> HIDE DEF n, m
<1>4. \A j \in 1..m : outcomes'[j] = outcomes[j]
  BY <1>1, <1>3
<1>5. \A k \in 1..n : k + m \in 1..(m + n) /\ outcomes'[k + m].life = life
                      /\ outcomes'[k + m].id = settled[k].id
  <2> SUFFICES ASSUME NEW k \in 1..n
               PROVE  k + m \in 1..(m + n) /\ outcomes'[k + m] = more[k]
    BY <1>2
  <2>1. k + m \in 1..(m + n) /\ ~(k + m <= m) /\ (k + m) - m = k
    BY <1>1
  <2> QED
    BY <2>1, <1>3
<1>6. \A i \in 1..(m + n) : i \in 1..m \/ \E k \in 1..n : i = k + m
  <2> SUFFICES ASSUME NEW i \in 1..(m + n), i \notin 1..m PROVE \E k \in 1..n : i = k + m
    OBVIOUS
  <2>1. i - m \in 1..n /\ i = (i - m) + m
    BY <1>1
  <2> QED
    BY <2>1
<1>7. LabelsInOrder'
  <2> SUFFICES ASSUME NEW j \in 1..(m + n), NEW k \in 1..(m + n), j < k
               PROVE  \/ outcomes'[j].life < outcomes'[k].life
                      \/ outcomes'[j].life = outcomes'[k].life /\ outcomes'[j].id < outcomes'[k].id
    <3>1. DOMAIN outcomes' = 1..(m + n)
      BY <1>3
    <3> QED
      BY <3>1 DEF LabelsInOrder
  <2>1. CASE k \in 1..m
    <3>1. j \in 1..m
      BY <1>1, <2>1
    <3>2. outcomes'[j] = outcomes[j] /\ outcomes'[k] = outcomes[k]
      BY <1>4, <2>1, <3>1
    <3>3. \/ outcomes[j].life < outcomes[k].life
          \/ outcomes[j].life = outcomes[k].life /\ outcomes[j].id < outcomes[k].id
      BY <1>1, <2>1, <3>1 DEF LabelsInOrder
    <3> QED
      BY <3>2, <3>3
  <2>2. ASSUME NEW x \in 1..n, k = x + m
        PROVE  \/ outcomes'[j].life < outcomes'[k].life
               \/ outcomes'[j].life = outcomes'[k].life /\ outcomes'[j].id < outcomes'[k].id
    <3>1. outcomes'[k].life = life /\ outcomes'[k].id = settled[x].id
      BY <1>5, <2>2
    <3>2. CASE j \in 1..m
      <4>0. outcomes[j] \in Label /\ outcomes'[j] = outcomes[j] /\ outcomes[j].life <= life
        BY <1>1, <1>4, <1>typed, <3>2 DEF m
      <4>1. outcomes[j].life \in Nat
        BY <4>0, WindowAssumption DEF Label
      <4>2. outcomes[j].life = life => outcomes[j].id < settled[x].id
        BY <3>2 DEF LabelsBelow, m, n
      <4> QED
        BY <3>1, <4>0, <4>1, <4>2, <1>typed
    <3>3. ASSUME NEW y \in 1..n, j = y + m
          PROVE  outcomes'[j].life = life /\ outcomes'[j].id < outcomes'[k].id
      <4>1. outcomes'[j].life = life /\ outcomes'[j].id = settled[y].id
        BY <1>5, <3>3
      <4>2. y < x
        BY <1>1, <2>2, <3>3
      <4> QED
        BY <3>1, <4>1, <4>2 DEF SlotsInOrder, n
    <3> QED
      BY <1>6, <3>1, <3>2, <3>3
  <2> QED
    BY <1>6, <2>1, <2>2
<1>8. ASSUME NEW i \in 1..(m + n)
      PROVE  \/ \E j \in 1..m : outcomes'[i] = outcomes[j]
             \/ \E k \in 1..n : outcomes'[i].life = life /\ outcomes'[i].id = settled[k].id
  <2>1. CASE i \in 1..m
    BY <1>4, <2>1
  <2>2. ASSUME NEW x \in 1..n, i = x + m
        PROVE  outcomes'[i].life = life /\ outcomes'[i].id = settled[x].id
    BY <1>5, <2>2
  <2> QED
    BY <1>6, <2>1, <2>2
<1>9. \A j \in 1..m : j \in 1..(m + n)
  BY <1>1
<1>10. \A k \in 1..n : \E i \in 1..(m + n) : LabelOf(settled[k], outcomes'[i])
  <2> TAKE k \in 1..n
  <2>1. settled[k].life = life
    BY DEF n
  <2>2. k + m \in 1..(m + n)
    BY <1>5
  <2>3. LabelOf(settled[k], outcomes'[k + m])
    BY <1>5, <2>1 DEF LabelOf
  <2> QED
    BY <2>2, <2>3
<1> QED
  BY <1>3, <1>4, <1>7, <1>8, <1>9, <1>10 DEF n, m


(* A flush settles the oldest of the windows it is given: a window that     *)
(* settles comes before one that does not.                                  *)
LEMMA SettledComeFirst ==
  ASSUME now \in Int, NEW P \in Seq(Window), SlotsInOrder(P),
         NEW covered \in Int, NEW ended \in BOOLEAN,
         NEW a \in 1..Len(P), NEW b \in 1..Len(P),
         Settles(P[a], covered, ended), ~Settles(P[b], covered, ended)
  PROVE  P[a].id < P[b].id
<1>1. P[a] \in Window /\ P[b] \in Window
  OBVIOUS
<1>2. P[a].start \in Int /\ P[b].start \in Int
  BY <1>1 DEF Window
<1>3. Stride \in Nat /\ LookaheadMax \in Nat /\ Grace \in Nat
  BY WindowAssumption
<1>4. ~(b < a)
  <2> SUFFICES ASSUME b < a PROVE FALSE
    OBVIOUS
  <2>1. End(P[b]) <= P[a].start
    BY DEF SlotsInOrder
  <2> DEFINE sa == P[a].start
             sb == P[b].start
  <2>5. sa \in Int /\ sb \in Int /\ sb + Stride <= sa
    BY <1>2, <2>1 DEF End
  <2> HIDE DEF sa, sb
  <2>6. /\ sa + Stride + LookaheadMax \in Int /\ sb + Stride + LookaheadMax \in Int
        /\ sb + Stride + LookaheadMax <= sa + Stride + LookaheadMax
    BY <1>3, <2>5
  <2> DEFINE ea == P[a].start + Stride + LookaheadMax
             eb == P[b].start + Stride + LookaheadMax
  <2>3. ea \in Int /\ eb \in Int /\ eb <= ea
    BY <2>6 DEF sa, sb
  <2>4. /\ ended \/ covered >= ea \/ now - ea >= Grace
        /\ ~(ended \/ covered >= eb \/ now - eb >= Grace)
    BY DEF Settles, End
  <2> HIDE DEF ea, eb
  <2> QED
    BY <1>3, <2>3, <2>4
<1>5. a # b
  OBVIOUS
<1>6. a < b
  BY <1>4, <1>5
<1> QED
  BY <1>6 DEF SlotsInOrder

(* The deriver flushes its windows P, having heard s and covered so much.   *)
Settling(P, s, covered, ended) ==
  /\ Typed /\ LabelsInOrder /\ \A k \in DOMAIN outcomes : outcomes[k].life <= life
  /\ P \in Seq(Window) /\ \A k \in 1..Len(P) : P[k].life = life
  /\ SlotsInOrder(P) /\ LabelsBelow(P)
  /\ s \in SUBSET Event /\ covered \in Int /\ ended \in BOOLEAN
  /\ heard' \in SUBSET Event /\ streamEnded' \in BOOLEAN
  /\ Flush(s, P, covered, ended)


(* A flush labels some of the windows it is given and keeps the others, in  *)
(* their order: none is lost and none is labelled that it keeps.            *)
LEMMA FlushSettles ==
  ASSUME NEW P, NEW s, NEW covered, NEW ended, Settling(P, s, covered, ended)
  PROVE  /\ buffer' \subseteq s
         /\ pendingOutcomeWindows' \in Seq(Window) /\ SlotsInOrder(pendingOutcomeWindows')
         /\ \A k \in 1..Len(pendingOutcomeWindows') : \E i \in 1..Len(P) :
              pendingOutcomeWindows'[k] = P[i] /\ ~Settles(P[i], covered, ended)
         /\ outcomes' \in Seq(Label) /\ LabelsInOrder'
         /\ \A i \in 1..Len(outcomes') :
              \/ \E j \in 1..Len(outcomes) : outcomes'[i] = outcomes[j]
              \/ \E k \in 1..Len(P) : outcomes'[i].life = life /\ outcomes'[i].id = P[k].id
         /\ \A j \in 1..Len(outcomes) : \E i \in 1..Len(outcomes') : outcomes'[i] = outcomes[j]
         /\ \A i \in 1..Len(outcomes') : outcomes'[i].life = life =>
              \A k \in 1..Len(pendingOutcomeWindows') : outcomes'[i].id < pendingOutcomeWindows'[k].id
         /\ \A k \in 1..Len(P) :
              \/ \E i \in 1..Len(outcomes') : LabelOf(P[k], outcomes'[i])
              \/ \E i \in 1..Len(pendingOutcomeWindows') : pendingOutcomeWindows'[i] = P[k]
<1> SUFFICES
      ASSUME Typed, LabelsInOrder, \A k \in DOMAIN outcomes : outcomes[k].life <= life,
             P \in Seq(Window), \A k \in 1..Len(P) : P[k].life = life,
             SlotsInOrder(P), LabelsBelow(P),
             s \in SUBSET Event, covered \in Int, ended \in BOOLEAN,
             heard' \in SUBSET Event, streamEnded' \in BOOLEAN, Flush(s, P, covered, ended)
      PROVE  /\ buffer' \subseteq s
             /\ pendingOutcomeWindows' \in Seq(Window) /\ SlotsInOrder(pendingOutcomeWindows')
             /\ \A k \in 1..Len(pendingOutcomeWindows') : \E i \in 1..Len(P) :
                  pendingOutcomeWindows'[k] = P[i] /\ ~Settles(P[i], covered, ended)
             /\ outcomes' \in Seq(Label) /\ LabelsInOrder'
             /\ \A i \in 1..Len(outcomes') :
                  \/ \E j \in 1..Len(outcomes) : outcomes'[i] = outcomes[j]
                  \/ \E k \in 1..Len(P) : outcomes'[i].life = life /\ outcomes'[i].id = P[k].id
             /\ \A j \in 1..Len(outcomes) : \E i \in 1..Len(outcomes') : outcomes'[i] = outcomes[j]
             /\ \A i \in 1..Len(outcomes') : outcomes'[i].life = life =>
                  \A k \in 1..Len(pendingOutcomeWindows') : outcomes'[i].id < pendingOutcomeWindows'[k].id
             /\ \A k \in 1..Len(P) :
                  \/ \E i \in 1..Len(outcomes') : LabelOf(P[k], outcomes'[i])
                  \/ \E i \in 1..Len(pendingOutcomeWindows') : pendingOutcomeWindows'[i] = P[k]
  BY DEF Settling
<1> DEFINE due == {w \in Range(P) : Settles(w, covered, ended)}
           late == {w \in Range(P) : ~Settles(w, covered, ended)}
           settled == Filtered(P, due)
           left == Filtered(P, late)
<1>0. /\ now \in Int /\ DOMAIN P = 1..Len(P) /\ Len(P) \in Nat
      /\ \A k \in 1..Len(P) : P[k] \in Window
  BY DEF Typed
<1>due. \A k \in 1..Len(P) : /\ P[k] \in due <=> Settles(P[k], covered, ended)
                             /\ P[k] \in late <=> ~Settles(P[k], covered, ended)
  BY <1>0 DEF Range
<1>1. /\ buffer' = LeftBy(s, Range(settled))
      /\ outcomes' = outcomes \o OutcomesOf(settled, s, covered)
      /\ pendingOutcomeWindows' = left
  BY DEF Flush, SettledNow, StillPending
<1>b. buffer' \subseteq s
  BY <1>1 DEF LeftBy
<1> HIDE DEF due, late
<1>2. settled \in Seq(Window) /\ \E at : Places(P, due, at)
  BY FilteredKeepsOrder
<1>3. left \in Seq(Window) /\ \E at : Places(P, late, at)
  BY FilteredKeepsOrder
<1>4. PICK at : Places(P, due, at)
  BY <1>2
<1>5. PICK to : Places(P, late, to)
  BY <1>3
<1>6. /\ \A k \in 1..Len(settled) : at[k] \in 1..Len(P) /\ settled[k] = P[at[k]]
                                    /\ Settles(P[at[k]], covered, ended)
      /\ \A j, k \in 1..Len(settled) : j < k => at[j] < at[k]
      /\ \A i \in 1..Len(P) : Settles(P[i], covered, ended) =>
                                \E k \in 1..Len(settled) : settled[k] = P[i]
  <2>1. /\ at \in [1..Len(settled) -> 1..Len(P)]
        /\ \A j, k \in 1..Len(settled) : j < k => at[j] < at[k]
        /\ \A k \in 1..Len(settled) : settled[k] = P[at[k]] /\ P[at[k]] \in due
        /\ \A i \in 1..Len(P) : P[i] \in due => \E k \in 1..Len(settled) : at[k] = i
    BY <1>4 DEF Places
  <2> HIDE DEF settled
  <2>2. \A k \in 1..Len(settled) : at[k] \in 1..Len(P)
    BY <2>1
  <2>3. \A k \in 1..Len(settled) : Settles(P[at[k]], covered, ended)
    BY <2>1, <2>2, <1>due
  <2>4. ASSUME NEW i \in 1..Len(P), Settles(P[i], covered, ended)
        PROVE  \E k \in 1..Len(settled) : settled[k] = P[i]
    <3>1. P[i] \in due
      BY <2>4, <1>due
    <3>2. PICK k \in 1..Len(settled) : at[k] = i
      BY <2>1, <3>1
    <3> QED
      BY <2>1, <3>2
  <2> QED
    BY <2>1, <2>2, <2>3, <2>4
<1>7. /\ \A k \in 1..Len(left) : to[k] \in 1..Len(P) /\ left[k] = P[to[k]]
                                 /\ ~Settles(P[to[k]], covered, ended)
      /\ \A j, k \in 1..Len(left) : j < k => to[j] < to[k]
      /\ \A i \in 1..Len(P) : ~Settles(P[i], covered, ended) =>
                                \E k \in 1..Len(left) : left[k] = P[i]
  <2>1. /\ to \in [1..Len(left) -> 1..Len(P)]
        /\ \A j, k \in 1..Len(left) : j < k => to[j] < to[k]
        /\ \A k \in 1..Len(left) : left[k] = P[to[k]] /\ P[to[k]] \in late
        /\ \A i \in 1..Len(P) : P[i] \in late => \E k \in 1..Len(left) : to[k] = i
    BY <1>5 DEF Places
  <2> HIDE DEF left
  <2>2. \A k \in 1..Len(left) : to[k] \in 1..Len(P)
    BY <2>1
  <2>3. \A k \in 1..Len(left) : ~Settles(P[to[k]], covered, ended)
    BY <2>1, <2>2, <1>due
  <2>4. ASSUME NEW i \in 1..Len(P), ~Settles(P[i], covered, ended)
        PROVE  \E k \in 1..Len(left) : left[k] = P[i]
    <3>1. P[i] \in late
      BY <2>4, <1>due
    <3>2. PICK k \in 1..Len(left) : to[k] = i
      BY <2>1, <3>1
    <3> QED
      BY <2>1, <3>2
  <2> QED
    BY <2>1, <2>2, <2>3, <2>4
<1> HIDE DEF settled, left
<1>8. SlotsInOrder(settled) /\ SlotsInOrder(left)
  <2>1. SlotsInOrder(settled)
    BY <1>6 DEF SlotsInOrder
  <2>2. SlotsInOrder(left)
    BY <1>7 DEF SlotsInOrder
  <2> QED
    BY <2>1, <2>2
<1>9. LabelsBelow(settled) /\ \A k \in 1..Len(settled) : settled[k].life = life
  <2>1. \A k \in 1..Len(settled) : \E i \in 1..Len(P) : settled[k] = P[i]
    BY <1>6
  <2>2. LabelsBelow(settled)
    BY <2>1 DEF LabelsBelow
  <2>3. \A k \in 1..Len(settled) : settled[k].life = life
    BY <2>1
  <2> QED
    BY <2>2, <2>3
<1>10. /\ outcomes' \in Seq(Label) /\ LabelsInOrder'
       /\ \A i \in 1..Len(outcomes') :
            \/ \E j \in 1..Len(outcomes) : outcomes'[i] = outcomes[j]
            \/ \E k \in 1..Len(settled) :
                 outcomes'[i].life = life /\ outcomes'[i].id = settled[k].id
       /\ \A j \in 1..Len(outcomes) : \E i \in 1..Len(outcomes') : outcomes'[i] = outcomes[j]
       /\ \A k \in 1..Len(settled) : \E i \in 1..Len(outcomes') : LabelOf(settled[k], outcomes'[i])
  BY <1>1, <1>2, <1>8, <1>9, LabelsAppended
<1>11. ASSUME NEW i \in 1..Len(outcomes'), outcomes'[i].life = life, NEW k \in 1..Len(left)
       PROVE  outcomes'[i].id < left[k].id
  <2>1. to[k] \in 1..Len(P) /\ left[k] = P[to[k]] /\ ~Settles(P[to[k]], covered, ended)
    BY <1>7
  <2>2. ASSUME NEW j \in 1..Len(outcomes), outcomes'[i] = outcomes[j]
        PROVE  outcomes'[i].id < left[k].id
    BY <1>11, <2>1, <2>2 DEF LabelsBelow
  <2>3. ASSUME NEW x \in 1..Len(settled), outcomes'[i].id = settled[x].id
        PROVE  outcomes'[i].id < left[k].id
    <3>1. at[x] \in 1..Len(P) /\ settled[x] = P[at[x]] /\ Settles(P[at[x]], covered, ended)
      BY <1>6
    <3>2. P[at[x]].id < P[to[k]].id
      BY <1>0, <2>1, <3>1, SettledComeFirst
    <3> QED
      BY <2>1, <2>3, <3>1, <3>2
  <2> QED
    BY <1>10, <2>2, <2>3
<1>12. ASSUME NEW i \in 1..Len(outcomes')
       PROVE  \/ \E j \in 1..Len(outcomes) : outcomes'[i] = outcomes[j]
              \/ \E k \in 1..Len(P) : outcomes'[i].life = life /\ outcomes'[i].id = P[k].id
  <2>1. ASSUME NEW x \in 1..Len(settled),
               outcomes'[i].life = life, outcomes'[i].id = settled[x].id
        PROVE  \E k \in 1..Len(P) : outcomes'[i].life = life /\ outcomes'[i].id = P[k].id
    BY <1>6, <2>1
  <2> QED
    BY <1>10, <2>1
<1>13. ASSUME NEW k \in 1..Len(P)
       PROVE  \/ \E i \in 1..Len(outcomes') : LabelOf(P[k], outcomes'[i])
              \/ \E i \in 1..Len(left) : left[i] = P[k]
  <2>1. CASE Settles(P[k], covered, ended)
    <3>1. PICK x \in 1..Len(settled) : settled[x] = P[k]
      BY <1>6, <2>1
    <3> QED
      BY <1>10, <3>1
  <2>2. CASE ~Settles(P[k], covered, ended)
    BY <1>7, <2>2
  <2> QED
    BY <2>1, <2>2
<1>14. \A k \in 1..Len(left) : \E i \in 1..Len(P) :
         left[k] = P[i] /\ ~Settles(P[i], covered, ended)
  BY <1>7
<1> QED
  BY <1>b, <1>1, <1>3, <1>8, <1>10, <1>11, <1>12, <1>13, <1>14

(* A sequence followed by another: an element of one or of the other, those *)
(* of the first in their places.                                            *)
LEMMA Appended ==
  ASSUME NEW D, NEW s \in Seq(D), NEW t \in Seq(D), NEW u, u = s \o t
  PROVE  /\ u \in Seq(D) /\ Len(u) \in Nat /\ DOMAIN u = 1..Len(u)
         /\ \A k \in 1..Len(s) : k \in 1..Len(u) /\ u[k] = s[k]
         /\ \A x \in 1..Len(t) : x + Len(s) \in 1..Len(u) /\ u[x + Len(s)] = t[x]
         /\ \A k \in 1..Len(u) :
              \/ k \in 1..Len(s) /\ u[k] = s[k]
              \/ \E x \in 1..Len(t) : k = x + Len(s) /\ u[k] = t[x]
<1>1. /\ u \in Seq(D) /\ Len(u) = Len(s) + Len(t)
      /\ \A i \in 1..(Len(s) + Len(t)) : u[i] = IF i <= Len(s) THEN s[i] ELSE t[i - Len(s)]
  BY ConcatProperties
<1>2. Len(s) \in Nat /\ Len(t) \in Nat /\ Len(u) \in Nat /\ DOMAIN u = 1..Len(u)
  BY <1>1
<1>3. \A k \in 1..Len(s) : k \in 1..Len(u) /\ u[k] = s[k]
  BY <1>1, <1>2
<1>4. ASSUME NEW x \in 1..Len(t)
      PROVE  x + Len(s) \in 1..Len(u) /\ u[x + Len(s)] = t[x]
  <2>1. /\ x + Len(s) \in 1..(Len(s) + Len(t)) /\ ~(x + Len(s) <= Len(s))
        /\ (x + Len(s)) - Len(s) = x
    BY <1>2
  <2> QED
    BY <1>1, <2>1
<1>5. ASSUME NEW k \in 1..Len(u), k \notin 1..Len(s)
      PROVE  \E x \in 1..Len(t) : k = x + Len(s) /\ u[k] = t[x]
  <2>1. k - Len(s) \in 1..Len(t) /\ k = (k - Len(s)) + Len(s)
    BY <1>1, <1>2, <1>5
  <2> QED
    BY <1>4, <2>1
<1> QED
  BY <1>1, <1>2, <1>3, <1>4, <1>5

(***************************************************************************)
(* What a label depends on: the events of a horizon in their order.         *)
(***************************************************************************)
(* A finite set of events that their numbers tell apart.                    *)
Numbered(h) == h \in SUBSET Event /\ IsFiniteSet(h) /\ \A e, f \in h : e.n = f.n => e = f

(* One of two different events is before the other.                         *)
LEMMA BeforeOrders ==
  ASSUME NEW h, Numbered(h), NEW e \in h, NEW f \in h
  PROVE  /\ ~Before(e, f) <=> (e = f \/ Before(f, e))
         /\ ~(Before(e, f) /\ Before(f, e)) /\ ~Before(e, e)
         /\ Before(e, f) => e.t <= f.t
         /\ \A g \in h : Before(e, f) /\ Before(f, g) => Before(e, g)
<1>1. \A g \in h : g.t \in Int /\ g.n \in Nat
  BY DEF Numbered, Event
<1>2. e.n = f.n => e = f
  BY DEF Numbered
<1>3. ASSUME NEW g \in h PROVE Before(e, f) /\ Before(f, g) => Before(e, g)
  BY <1>1 DEF Before
<1> QED
  BY <1>1, <1>2, <1>3 DEF Before

(* The events of a horizon up to one of them.                               *)
Upto(e, h) == {f \in h : ~Before(e, f)}

(* The standing of an event in its horizon grows with its place in time.    *)
LEMMA StandingsInTime ==
  ASSUME NEW h, Numbered(h)
  PROVE  /\ Cardinality(h) \in Nat
         /\ \A e \in h : Cardinality(Upto(e, h)) \in 1..Cardinality(h)
         /\ \A e, f \in h : Before(e, f) => Cardinality(Upto(e, h)) < Cardinality(Upto(f, h))
<1>h. IsFiniteSet(h) /\ Cardinality(h) \in Nat
  BY FS_CardinalityType DEF Numbered
<1>1. ASSUME NEW e \in h
      PROVE  /\ IsFiniteSet(Upto(e, h)) /\ Cardinality(Upto(e, h)) \in Nat \ {0}
             /\ Cardinality(Upto(e, h)) <= Cardinality(h)
  <2>1. Upto(e, h) \in SUBSET h /\ e \in Upto(e, h)
    BY BeforeOrders DEF Upto
  <2>2. IsFiniteSet(Upto(e, h)) /\ Cardinality(Upto(e, h)) <= Cardinality(h)
    BY <1>h, <2>1, FS_Subset
  <2>3. Cardinality(Upto(e, h)) \in Nat /\ Cardinality(Upto(e, h)) # 0
    BY <2>1, <2>2, FS_CardinalityType, FS_EmptySet
  <2> QED
    BY <2>2, <2>3
<1>2. ASSUME NEW e \in h, NEW f \in h, Before(e, f)
      PROVE  Cardinality(Upto(e, h)) < Cardinality(Upto(f, h))
  <2>1. ASSUME NEW g \in h, ~Before(e, g) PROVE ~Before(f, g)
    BY <1>2, <2>1, BeforeOrders
  <2>2. Upto(e, h) \subseteq Upto(f, h)
    BY <2>1 DEF Upto
  <2>3. f \in Upto(f, h) /\ f \notin Upto(e, h)
    BY <1>2, BeforeOrders DEF Upto
  <2>4. /\ Cardinality(Upto(e, h)) <= Cardinality(Upto(f, h))
        /\ Cardinality(Upto(e, h)) # Cardinality(Upto(f, h))
    BY <1>1, <2>2, <2>3, FS_Subset
  <2> QED
    BY <1>1, <2>4
<1>3. \A e \in h : Cardinality(Upto(e, h)) \in 1..Cardinality(h)
  BY <1>h, <1>1
<1> QED
  BY <1>h, <1>2, <1>3

(* InTime(h) has every event of h, each after the earlier ones.             *)
LEMMA InTimeEnumerates ==
  ASSUME NEW h, Numbered(h), NEW sorted, sorted = InTime(h), NEW n, n = Cardinality(h)
  PROVE  /\ n \in Nat /\ sorted \in [1..n -> h]
         /\ \A j, k \in 1..n : j < k => Before(sorted[j], sorted[k])
         /\ \A e \in h : \E k \in 1..n : sorted[k] = e
<1> DEFINE rank == [e \in h |-> Cardinality(Upto(e, h))]
<1>1. n \in Nat /\ IsFiniteSet(1..n) /\ Cardinality(1..n) = n
  BY StandingsInTime, FS_Interval
<1>2. /\ \A e \in h : rank[e] \in 1..n
      /\ \A e, f \in h : Before(e, f) => rank[e] < rank[f]
  BY StandingsInTime
<1>3. rank \in [h -> 1..n]
  BY <1>2
<1>r. \A e \in h : rank[e] = Cardinality({f \in h : ~Before(e, f)})
  BY DEF Upto
<1> HIDE DEF rank
<1>4. ASSUME NEW e \in h, NEW f \in h, rank[e] = rank[f] PROVE e = f
  <2>1. e = f \/ Before(e, f) \/ Before(f, e)
    BY BeforeOrders
  <2>2. rank[e] \in Nat /\ rank[f] \in Nat
    BY <1>1, <1>2
  <2> QED
    BY <1>2, <1>4, <2>1, <2>2
<1>5. rank \in Surjection(h, 1..n)
  <2>1. rank \in Injection(h, 1..n)
    BY <1>3, <1>4, Fun_IsInj
  <2> QED
    BY <1>1, <2>1, FS_Injection
<1>6. \A k \in 1..n : \E e \in h : rank[e] = k
  BY <1>5 DEF Surjection
<1>7. \A k \in 1..n : sorted[k] = CHOOSE e \in h : rank[e] = k
  BY <1>r DEF InTime
<1>8. \A k \in 1..n : sorted[k] \in h /\ rank[sorted[k]] = k
  BY <1>6, <1>7
<1>9. sorted \in [1..n -> h]
  BY <1>8 DEF InTime
<1>10. ASSUME NEW j \in 1..n, NEW k \in 1..n, j < k PROVE Before(sorted[j], sorted[k])
  <2> DEFINE e == sorted[j]
             f == sorted[k]
  <2>1. e \in h /\ f \in h /\ rank[e] = j /\ rank[f] = k
    BY <1>8
  <2> HIDE DEF e, f
  <2>2. e = f \/ Before(e, f) \/ Before(f, e)
    BY <2>1, BeforeOrders
  <2>3. e # f /\ ~Before(f, e)
    BY <1>1, <1>2, <1>10, <2>1
  <2> QED
    BY <2>2, <2>3 DEF e, f
<1>11. ASSUME NEW e \in h PROVE \E k \in 1..n : sorted[k] = e
  <2>1. rank[e] \in 1..n
    BY <1>2
  <2>2. sorted[rank[e]] = e
    BY <2>1, <1>4, <1>8
  <2> QED
    BY <2>1, <2>2
<1> QED
  BY <1>1, <1>9, <1>10, <1>11

(* What the deriver counts on its way is the place of an event.             *)
LEMMA SeenIsPlace ==
  ASSUME NEW h, Numbered(h), NEW k \in 1..Cardinality(h)
  PROVE  Seen(InTime(h), k) = Place(InTime(h)[k], h)
<1> DEFINE n == Cardinality(h)
           sorted == InTime(h)
           e == sorted[k]
           earlier == {j \in 1..k : sorted[j].kind = e.kind}
           alike == {f \in h : f.kind = e.kind /\ ~Before(e, f)}
           at == [j \in earlier |-> sorted[j]]
<1>1. /\ n \in Nat /\ sorted \in [1..n -> h]
      /\ \A i, j \in 1..n : i < j => Before(sorted[i], sorted[j])
      /\ \A f \in h : \E j \in 1..n : sorted[j] = f
  BY InTimeEnumerates
<1>2. Seen(sorted, k) = Cardinality(earlier) /\ Place(e, h) = Cardinality(alike)
  BY DEF Seen, Place
<1>k. k \in 1..n /\ \A j \in 1..k : j \in 1..n /\ (j = k \/ j < k)
  BY <1>1
<1> HIDE DEF n, sorted
<1>3. e \in h /\ \A j \in 1..n : sorted[j] \in h
  BY <1>1, <1>k
<1> HIDE DEF e
<1>4. ASSUME NEW j \in earlier PROVE sorted[j] \in alike
  <2>1. j \in 1..n /\ (j = k \/ j < k) /\ sorted[j].kind = e.kind
    BY <1>k
  <2>2. sorted[j] = e \/ Before(sorted[j], e)
    BY <1>1, <1>k, <2>1 DEF e
  <2>3. ~Before(e, sorted[j])
    BY <1>3, <2>1, <2>2, BeforeOrders
  <2> QED
    BY <1>3, <2>1, <2>3
<1>5. ASSUME NEW i \in earlier, NEW j \in earlier, sorted[i] = sorted[j] PROVE i = j
  <2>1. i \in 1..n /\ j \in 1..n
    BY <1>k
  <2>2. i < j \/ j < i \/ i = j
    BY <1>1, <2>1
  <2>3. ~Before(sorted[i], sorted[i])
    BY <1>3, <2>1, BeforeOrders
  <2> QED
    BY <1>1, <1>5, <2>1, <2>2, <2>3
<1>6. ASSUME NEW f \in alike PROVE \E j \in earlier : sorted[j] = f
  <2>1. f \in h /\ f.kind = e.kind /\ ~Before(e, f)
    OBVIOUS
  <2>2. PICK j \in 1..n : sorted[j] = f
    BY <1>1, <2>1
  <2>3. ~(k < j)
    BY <1>1, <1>k, <2>1, <2>2 DEF e
  <2>4. j \in 1..k
    BY <1>1, <1>k, <2>3
  <2> QED
    BY <2>1, <2>2, <2>4
<1>7. IsFiniteSet(earlier)
  <2>1. IsFiniteSet(1..k) /\ earlier \in SUBSET (1..k)
    BY <1>k, FS_Interval
  <2> HIDE DEF earlier
  <2> QED
    BY <2>1, FS_Subset
<1> HIDE DEF earlier, alike
<1>8. at \in [earlier -> alike]
  BY <1>4
<1>9. at \in Bijection(earlier, alike)
  <2>1. \A i, j \in earlier : at[i] = at[j] => i = j
    BY <1>5
  <2>2. \A f \in alike : \E j \in earlier : at[j] = f
    BY <1>6
  <2> HIDE DEF at
  <2> QED
    BY <1>8, <2>1, <2>2, Fun_IsBij
<1>10. Cardinality(alike) = Cardinality(earlier)
  BY <1>7, <1>9, FS_Bijection DEF ExistsBijection
<1> QED
  BY <1>2, <1>10 DEF e, sorted

(* The candidates are the events that call for a label, in their order.     *)
LEMMA CandidatesCall ==
  ASSUME NEW h, Numbered(h), NEW found, found = CandidatesOf(h)
  PROVE  /\ Len(found) \in Nat /\ DOMAIN found = 1..Len(found)
         /\ found = << >> <=> Len(found) = 0
         /\ \A i \in 1..Len(found) : \E e \in Calling(h) :
              found[i].class = CallsFor(e, h) /\ found[i].t = e.t
         /\ \A e \in Calling(h) : \E i \in 1..Len(found) :
              found[i].class = CallsFor(e, h) /\ found[i].t = e.t
         /\ \A i, j \in 1..Len(found) : i < j => found[i].t <= found[j].t
<1> DEFINE n == Cardinality(h)
           sorted == InTime(h)
           ClassAt(k) == ClassOf(sorted[k].kind, Seen(sorted, k))
           marks == {k \in 1..n : ClassAt(k) # "NO_OUTCOME"}
           m == Cardinality(marks)
           at == Ordered(marks)
<1>1. /\ n \in Nat /\ sorted \in [1..n -> h]
      /\ \A i, j \in 1..n : i < j => Before(sorted[i], sorted[j])
      /\ \A e \in h : \E k \in 1..n : sorted[k] = e
  BY InTimeEnumerates
<1>2. \A k \in 1..n : ClassAt(k) = CallsFor(sorted[k], h)
  BY SeenIsPlace DEF CallsFor
<1>3. DOMAIN sorted = 1..n
  BY DEF InTime
<1>4. marks \in SUBSET Int /\ IsFiniteSet(marks) /\ marks \subseteq 1..n
  <2>1. IsFiniteSet(1..n) /\ marks \in SUBSET (1..n)
    BY <1>1, FS_Interval
  <2>2. IsFiniteSet(marks)
    <3> HIDE DEF marks
    <3> QED
      BY <2>1, FS_Subset
  <2> QED
    BY <2>1, <2>2
<1>5. /\ m \in Nat /\ at \in [1..m -> marks]
      /\ \A i, j \in 1..m : i < j => at[i] < at[j]
      /\ \A k \in marks : \E i \in 1..m : at[i] = k
  <2> HIDE DEF marks
  <2> QED
    BY <1>4, OrderedEnumerates
<1>6. found = [i \in 1..m |-> [class |-> ClassAt(at[i]), t |-> sorted[at[i]].t]]
  <2>1. DOMAIN at = 1..m
    BY DEF Ordered
  <2> QED
    BY <1>3, <2>1 DEF CandidatesOf
<1>marks. /\ \A k \in marks : k \in 1..n /\ sorted[k] \in Calling(h)
          /\ \A k \in 1..n : sorted[k] \in Calling(h) => k \in marks
  <2>1. \A k \in 1..n : sorted[k] \in h
    BY <1>1
  <2> HIDE DEF ClassAt, n, sorted
  <2> QED
    BY <1>2, <2>1 DEF Calling
<1> HIDE DEF n, sorted, ClassAt, m, at, marks
<1>7. \A i \in 1..m : /\ found[i].class = CallsFor(sorted[at[i]], h) /\ found[i].t = sorted[at[i]].t
                      /\ at[i] \in marks
  BY <1>2, <1>5, <1>6, <1>marks
<1>8. Len(found) = m /\ DOMAIN found = 1..m /\ (found = << >> <=> m = 0)
  <2> DEFINE Candidate(i) == [class |-> ClassAt(at[i]), t |-> sorted[at[i]].t]
             Some == {Candidate(i) : i \in 1..m}
  <2>1. found = [i \in 1..m |-> Candidate(i)]
    BY <1>6
  <2> HIDE DEF Candidate
  <2>2. [i \in 1..m |-> Candidate(i)] \in [1..m -> Some]
    OBVIOUS
  <2> HIDE DEF Some
  <2>3. found \in Seq(Some) /\ Len(found) = m /\ DOMAIN found = 1..m
    BY <1>5, <2>1, <2>2
  <2> QED
    BY <2>3, EmptySeq
<1>9. ASSUME NEW e \in Calling(h)
      PROVE  \E i \in 1..m : found[i].class = CallsFor(e, h) /\ found[i].t = e.t
  <2>1. e \in h
    BY DEF Calling
  <2>2. PICK k \in 1..n : sorted[k] = e
    BY <1>1, <2>1
  <2>3. k \in marks
    BY <1>marks, <2>2
  <2>4. PICK i \in 1..m : at[i] = k
    BY <1>5, <2>3
  <2> QED
    BY <1>7, <2>2, <2>4
<1>10. ASSUME NEW i \in 1..m, NEW j \in 1..m, i < j PROVE found[i].t <= found[j].t
  <2>1. at[i] \in 1..n /\ at[j] \in 1..n /\ at[i] < at[j]
    BY <1>5, <1>7, <1>10, <1>marks
  <2>2. sorted[at[i]] \in h /\ sorted[at[j]] \in h /\ Before(sorted[at[i]], sorted[at[j]])
    BY <1>1, <2>1
  <2>3. sorted[at[i]].t <= sorted[at[j]].t
    BY <2>2, BeforeOrders
  <2> QED
    BY <1>7, <2>3
<1>11. \A i \in 1..m : \E e \in Calling(h) : found[i].class = CallsFor(e, h) /\ found[i].t = e.t
  BY <1>7, <1>marks
<1> QED
  BY <1>5, <1>8, <1>9, <1>10, <1>11

(* The classes a label may name.                                            *)
Classes == {"FORM_SUBMIT", "CLICK", "BACKTRACK", "RAPID_SCROLL", "HOVER_DWELL", "ABANDON", "NO_OUTCOME"}

(* Every class has its rank in the hierarchy.                               *)
LEMMA ClassesAreRanked ==
  /\ \A kind, seen : ClassOf(kind, seen) \in Classes
  /\ \A class \in Classes : PriorityRank(class) \in 0..6
<1>1. ASSUME NEW kind, NEW seen PROVE ClassOf(kind, seen) \in Classes
  BY DEF ClassOf, Classes
<1>2. ASSUME NEW class \in Classes PROVE PriorityRank(class) \in 0..6
  <2> DEFINE Has(k) == PriorityHierarchy[k] = class
             place == CHOOSE k \in DOMAIN PriorityHierarchy : Has(k)
  <2>1. DOMAIN PriorityHierarchy = 1..7 /\ Len(PriorityHierarchy) = 7
    BY DEF PriorityHierarchy
  <2>2. Has(1) \/ Has(2) \/ Has(3) \/ Has(4) \/ Has(5) \/ Has(6) \/ Has(7)
    BY DEF Classes, PriorityHierarchy
  <2>3. PriorityRank(class) = 7 - place
    BY <2>1 DEF PriorityRank
  <2> HIDE DEF Has
  <2>4. \E k \in 1..7 : Has(k)
    BY <2>2
  <2>5. place \in 1..7
    BY <2>1, <2>4
  <2> HIDE DEF place
  <2> QED
    BY <2>3, <2>5
<1> QED
  BY <1>1, <1>2

(* Some element of a set of things with a class has the highest rank.       *)
LEMMA HighestRank ==
  ASSUME NEW T, T # {}, \A c \in T : c.class \in Classes
  PROVE  \E c \in T : \A d \in T : PriorityRank(d.class) <= PriorityRank(c.class)
<1> DEFINE Below(c) == 6 - PriorityRank(c.class)
           Belows == {Below(c) : c \in T}
<1>1. \A c \in T : PriorityRank(c.class) \in 0..6
  BY ClassesAreRanked
<1>2. \A c \in T : Below(c) \in Nat
  BY <1>1
<1>3. \A c, d \in T : ~(Below(d) < Below(c)) => PriorityRank(d.class) <= PriorityRank(c.class)
  BY <1>1
<1> HIDE DEF Below
<1>4. Belows \in SUBSET Nat /\ Belows # {}
  BY <1>2
<1>5. PICK b \in Belows : \A a \in Belows : ~(a < b)
  <2> HIDE DEF Belows
  <2> QED
    BY <1>4, LeastNumber
<1>6. PICK c \in T : Below(c) = b
  BY <1>5
<1>7. \A d \in T : ~(Below(d) < Below(c))
  BY <1>5, <1>6
<1> QED
  BY <1>3, <1>7

(* The class that the deriver gives to a horizon is the one its events call *)
(* for.                                                                     *)
LEMMA DerivedIsJustified ==
  ASSUME NEW h, Numbered(h), NEW o, o.knew = h, o.outcome = OutcomeClass(h, o.terminated)
  PROVE  Justified(o)
<1> DEFINE found == CandidatesOf(h)
           C == Calling(h)
           n == Len(found)
           first == {e \in C : \A f \in C : e.t <= f.t + TieTolerance}
           called == {CallsFor(e, h) : e \in first}
           T == Tied(found)
<1>1. /\ n \in Nat /\ DOMAIN found = 1..n /\ (found = << >> <=> n = 0)
      /\ \A i \in 1..n : \E e \in C : found[i].class = CallsFor(e, h) /\ found[i].t = e.t
      /\ \A e \in C : \E i \in 1..n : found[i].class = CallsFor(e, h) /\ found[i].t = e.t
      /\ \A i, j \in 1..n : i < j => found[i].t <= found[j].t
  BY CandidatesCall
<1>2. \A e \in C : e.t \in Int /\ CallsFor(e, h) \in Classes
  <2>1. \A e \in C : e \in Event
    BY DEF Calling, Numbered
  <2> QED
    BY <2>1, ClassesAreRanked DEF Event, CallsFor
<1>3. /\ o.outcome = IF found = << >>
                     THEN IF o.terminated /\ h = {} THEN "ABANDON" ELSE "NO_OUTCOME"
                     ELSE (CHOOSE c \in T : \A d \in T :
                             PriorityRank(d.class) <= PriorityRank(c.class)).class
      /\ T = {c \in Range(found) : c.t - Head(found).t <= TieTolerance}
  BY DEF OutcomeClass, Tied
<1>4. Justified(o) <=>
        IF called = {} THEN o.outcome = IF h = {} /\ o.terminated THEN "ABANDON" ELSE "NO_OUTCOME"
        ELSE o.outcome \in {c \in called : \A d \in called : PriorityRank(d) <= PriorityRank(c)}
  BY DEF Justified
<1>5. TieTolerance \in Nat
  BY WindowAssumption
<1> HIDE DEF found, C, n, T
<1>6. CASE n = 0
  <2>1. C = {}
    BY <1>1, <1>6
  <2>2. called = {}
    BY <2>1
  <2> HIDE DEF called
  <2> QED
    BY <1>1, <1>3, <1>4, <1>6, <2>2
<1>7. CASE n # 0
  <2> DEFINE start == found[1].t
  <2>1. 1 \in 1..n /\ found # << >>
    BY <1>1, <1>7
  <2>2. start \in Int /\ \A i \in 1..n : found[i].t \in Int /\ start <= found[i].t
    <3>1. \A i \in 1..n : found[i].t \in Int
      BY <1>1, <1>2
    <3>2. \A i \in 1..n : i = 1 \/ 1 < i
      BY <1>1
    <3>3. start <= start
      BY <2>1, <3>1
    <3> QED
      BY <1>1, <2>1, <3>1, <3>2, <3>3
  <2>3. Head(found) = found[1]
    OBVIOUS
  <2> HIDE DEF start
  <2>4. \A e \in C : start <= e.t
    BY <1>1, <2>2
  <2>5. PICK e1 \in C : e1.t = start
    BY <1>1, <2>1 DEF start
  <2>6. \A e \in C : e \in first <=> e.t - start <= TieTolerance
    <3> TAKE e \in C
    <3>1. ASSUME e \in first PROVE e.t - start <= TieTolerance
      <4>1. e.t <= start + TieTolerance
        BY <2>5, <3>1
      <4> QED
        BY <1>2, <1>5, <2>2, <4>1
    <3>2. ASSUME e.t - start <= TieTolerance, NEW f \in C PROVE e.t <= f.t + TieTolerance
      BY <1>2, <1>5, <2>2, <2>4, <3>2
    <3> QED
      BY <3>1, <3>2
  <2>7. ASSUME NEW c \in T PROVE c.class \in called
    <3>1. PICK i \in 1..n : c = found[i]
      BY <1>1, <1>3 DEF Range
    <3>2. PICK e \in C : found[i].class = CallsFor(e, h) /\ found[i].t = e.t
      BY <1>1
    <3>3. e.t - start <= TieTolerance
      BY <1>3, <2>3, <3>1, <3>2 DEF start
    <3> HIDE DEF first
    <3> QED
      BY <2>6, <3>1, <3>2, <3>3
  <2>8. ASSUME NEW d \in called PROVE \E c \in T : c.class = d
    <3>1. PICK e \in first : d = CallsFor(e, h)
      OBVIOUS
    <3>2. e \in C
      OBVIOUS
    <3> HIDE DEF first, called
    <3>3. PICK i \in 1..n : found[i].class = CallsFor(e, h) /\ found[i].t = e.t
      BY <1>1, <3>2
    <3>4. found[i].t - Head(found).t <= TieTolerance
      BY <2>3, <2>6, <3>1, <3>2, <3>3 DEF start
    <3>5. found[i] \in T
      BY <1>1, <1>3, <3>4 DEF Range
    <3> QED
      BY <3>1, <3>3, <3>5
  <2>9. called # {} /\ called \subseteq Classes
    <3>1. e1 \in first
      <4>1. e1.t - start <= TieTolerance
        BY <1>5, <2>2, <2>5
      <4> QED
        BY <2>6, <4>1
    <3>2. \A e \in first : e \in C
      OBVIOUS
    <3> HIDE DEF first
    <3> QED
      BY <1>2, <3>1, <3>2
  <2> HIDE DEF called, first
  <2>10. T # {} /\ \A c \in T : c.class \in Classes
    BY <2>7, <2>8, <2>9
  <2>11. \E c \in T : \A d \in T : PriorityRank(d.class) <= PriorityRank(c.class)
    BY <2>10, HighestRank
  <2> DEFINE best == CHOOSE c \in T : \A d \in T : PriorityRank(d.class) <= PriorityRank(c.class)
  <2>12. best \in T /\ \A d \in T : PriorityRank(d.class) <= PriorityRank(best.class)
    BY <2>11
  <2>13. o.outcome = best.class
    BY <1>3, <2>1
  <2> HIDE DEF best
  <2>14. best.class \in called /\ \A d \in called : PriorityRank(d) <= PriorityRank(best.class)
    BY <2>7, <2>8, <2>12
  <2> QED
    BY <1>4, <2>9, <2>13, <2>14
<1> QED
  BY <1>1, <1>6, <1>7

(***************************************************************************)
(* What the deriver still has of a horizon.                                 *)
(***************************************************************************)
(* An event that a settlement evicts is before the window's horizon.        *)
LEMMA EvictedIsOld ==
  ASSUME NEW s \in SUBSET Event, NEW w \in Window, NEW e \in s, e \notin KeptAfter(s, w)
  PROVE  e.t < End(w) + LookaheadMin
<1>1. e.t \in Int /\ e.n <= e.n
  BY DEF Event
<1>2. End(w) \in Int /\ LookaheadMin \in Nat /\ DeriverRetention \in Nat
  BY WindowAssumption DEF Window, End
<1>3. ~(e.t >= End(w) + LookaheadMin - DeriverRetention)
  BY <1>1 DEF KeptAfter, KeptFrom
<1> QED
  BY <1>1, <1>2, <1>3

(* Slots in order end in order.                                             *)
LEMMA SlotsEndInOrder ==
  ASSUME NEW W \in Seq(Window), SlotsInOrder(W), NEW j \in 1..Len(W), NEW k \in 1..Len(W), j < k
  PROVE  End(W[j]) \in Int /\ End(W[k]) \in Int /\ End(W[j]) < End(W[k])
<1>1. W[j] \in Window /\ W[k] \in Window
  OBVIOUS
<1>2. W[j].start \in Int /\ W[k].start \in Int /\ Stride \in Nat \ {0}
  BY <1>1, WindowAssumption DEF Window
<1>3. End(W[j]) <= W[k].start
  BY DEF SlotsInOrder
<1> DEFINE a == W[j].start
           b == W[k].start
<1>4. a \in Int /\ b \in Int /\ End(W[j]) = a + Stride /\ End(W[k]) = b + Stride /\ a + Stride <= b
  BY <1>2, <1>3 DEF End
<1> HIDE DEF a, b
<1> QED
  BY <1>2, <1>4

(* What the buffer lacks of what was heard is before the horizons of W.     *)
LacksOnlyOld(s, W) ==
  \A e \in Undropped' \ s : \A k \in 1..Len(W) : e.t < End(W[k]) + LookaheadMin

(* Labels appended for windows in order are the ones called for: nothing    *)
(* that the settlements before one evict is in its horizon.                 *)
LEMMA LabelsCalledFor ==
  ASSUME LabelsAreJustified, outcomes \in Seq(Label), outcomes' \in Seq(Label),
         NEW settled \in Seq(Window), SlotsInOrder(settled),
         Numbered(Undropped'), NEW s \in SUBSET Undropped', LacksOnlyOld(s, settled),
         NEW covered \in Int,
         outcomes' = outcomes \o OutcomesOf(settled, s, covered)
  PROVE  LabelsAreJustified'
<1> DEFINE n == Len(settled)
           more == OutcomesOf(settled, s, covered)
           before(k) == LeftBy(s, {settled[j] : j \in 1..(k - 1)})
<1>1. n \in Nat /\ DOMAIN settled = 1..n /\ \A k \in 1..n : settled[k] \in Window
  OBVIOUS
<1>2. more = [k \in 1..n |-> Outcome(settled[k], before(k), covered)]
  BY <1>1 DEF OutcomesOf
<1>e. Undropped' \in SUBSET Event /\ s \in SUBSET Event /\ LookaheadMin \in Nat
  BY WindowAssumption DEF Numbered
<1>3. ASSUME NEW k \in 1..n PROVE Justified(more[k])
  <2> DEFINE w == settled[k]
             known == Horizon(Undropped', w)
  <2>1. ASSUME NEW e \in Undropped', e.t >= End(w) + LookaheadMin PROVE e \in before(k)
    <3>0. e.t \in Int /\ End(w) \in Int
      <4>1. e \in Event /\ w \in Window
        BY <1>1, <1>e
      <4>2. \A v \in Window : End(v) \in Int
        BY WindowAssumption DEF Window, End
      <4>3. \A f \in Event : f.t \in Int
        BY DEF Event
      <4> QED
        BY <4>1, <4>2, <4>3
    <3>1. e \in s
      <4> SUFFICES ASSUME e \notin s PROVE FALSE
        OBVIOUS
      <4>1. e.t < End(w) + LookaheadMin
        BY DEF LacksOnlyOld
      <4> HIDE DEF w
      <4> QED
        BY <1>e, <2>1, <3>0, <4>1
    <3>2. ASSUME NEW j \in 1..(k - 1) PROVE e \in KeptAfter(s, settled[j])
      <4>1. j \in 1..n /\ j < k
        BY <1>1
      <4>2. End(settled[j]) \in Int /\ End(settled[j]) < End(w)
        BY <4>1, SlotsEndInOrder
      <4>3. ~(e.t < End(settled[j]) + LookaheadMin)
        <5> DEFINE other == End(settled[j])
                   mine == End(w)
        <5>1. other \in Int /\ mine \in Int /\ other < mine /\ e.t >= mine + LookaheadMin
          BY <2>1, <3>0, <4>2
        <5> HIDE DEF other, mine
        <5>2. ~(e.t < other + LookaheadMin)
          BY <1>e, <3>0, <5>1
        <5> QED
          BY <5>2 DEF other
      <4> QED
        BY <1>1, <1>e, <3>1, <4>1, <4>3, EvictedIsOld
    <3> HIDE DEF w
    <3> QED
      BY <3>1, <3>2 DEF LeftBy
  <2>2. before(k) \subseteq Undropped'
    BY DEF LeftBy
  <2> HIDE DEF before
  <2>3. Horizon(before(k), w) = known
    BY <2>1, <2>2 DEF Horizon
  <2>4. Numbered(known)
    <3>1. known \in SUBSET Undropped'
      BY DEF Horizon
    <3> HIDE DEF known
    <3>2. IsFiniteSet(known)
      BY <3>1, FS_Subset DEF Numbered
    <3> QED
      BY <3>1, <3>2 DEF Numbered
  <2>5. more[k] = Outcome(w, before(k), covered)
    BY <1>2
  <2>6. more[k].knew = known /\ more[k].outcome = OutcomeClass(known, more[k].terminated)
    BY <2>3, <2>5 DEF Outcome, Undropped
  <2> HIDE DEF known, more
  <2> QED
    BY <2>4, <2>6, DerivedIsJustified
<1>4. /\ Len(outcomes) \in Nat /\ DOMAIN outcomes = 1..Len(outcomes)
      /\ DOMAIN outcomes' = 1..(Len(outcomes) + n)
      /\ \A i \in 1..(Len(outcomes) + n) :
           outcomes'[i] = IF i <= Len(outcomes) THEN outcomes[i] ELSE more[i - Len(outcomes)]
  <2> DEFINE label(k) == Outcome(settled[k], before(k), covered)
             Some == Label \cup {label(k) : k \in 1..n}
  <2>1. more \in Seq(Some) /\ Len(more) = n
    <3>1. \A k \in 1..n : label(k) \in Some
      OBVIOUS
    <3>2. more = [k \in 1..n |-> label(k)]
      BY <1>2
    <3> HIDE DEF more, Some, label, n
    <3>3. [k \in 1..n |-> label(k)] \in [1..n -> Some]
      BY <3>1
    <3>4. [k \in 1..n |-> label(k)] \in Seq(Some) /\ Len([k \in 1..n |-> label(k)]) = n
      BY <1>1, <3>3
    <3> QED
      BY <3>2, <3>4
  <2>2. outcomes \in Seq(Some)
    <3>1. Label \subseteq Some
      OBVIOUS
    <3> HIDE DEF Some
    <3> QED
      BY <3>1
  <2> HIDE DEF more, Some
  <2>3. /\ Len(outcomes \o more) = Len(outcomes) + Len(more)
        /\ \A i \in 1..(Len(outcomes) + Len(more)) :
             (outcomes \o more)[i] = IF i <= Len(outcomes) THEN outcomes[i]
                                     ELSE more[i - Len(outcomes)]
    BY <2>1, <2>2, ConcatProperties
  <2>4. outcomes' = outcomes \o more
    BY DEF more
  <2>5. DOMAIN outcomes' = 1..Len(outcomes')
    OBVIOUS
  <2> QED
    BY <2>1, <2>3, <2>4, <2>5
<1> HIDE DEF more, n
<1>5. ASSUME NEW i \in DOMAIN outcomes' PROVE Justified(outcomes'[i])
  <2>1. CASE i <= Len(outcomes)
    <3>1. outcomes'[i] = outcomes[i] /\ i \in DOMAIN outcomes
      BY <1>1, <1>4, <2>1
    <3> QED
      BY <3>1 DEF LabelsAreJustified
  <2>2. CASE ~(i <= Len(outcomes))
    <3>1. outcomes'[i] = more[i - Len(outcomes)] /\ i - Len(outcomes) \in 1..n
      BY <1>1, <1>4, <2>2
    <3> QED
      BY <1>3, <3>1
  <2> QED
    BY <2>1, <2>2
<1> QED
  BY <1>5 DEF LabelsAreJustified

(* A flush derives the labels called for, and what it evicts is before the  *)
(* horizons of the windows it keeps and of any window still to come.        *)
LEMMA FlushJustifies ==
  ASSUME LabelsAreJustified, now \in Int, outcomes \in Seq(Label), outcomes' \in Seq(Label),
         NEW P \in Seq(Window), SlotsInOrder(P),
         Numbered(Undropped'), NEW s \in SUBSET Undropped', LacksOnlyOld(s, P),
         NEW covered \in Int, NEW ended \in BOOLEAN, Flush(s, P, covered, ended),
         NEW grid \in Int, \A k \in 1..Len(P) : End(P[k]) <= grid,
         \A e \in Undropped' \ s : e.t < grid + LookaheadMin
  PROVE  /\ LabelsAreJustified'
         /\ LacksOnlyOld(buffer', pendingOutcomeWindows')
         /\ \A e \in Undropped' \ buffer' : e.t < grid + LookaheadMin
<1> DEFINE due == {w \in Range(P) : Settles(w, covered, ended)}
           late == {w \in Range(P) : ~Settles(w, covered, ended)}
           settled == Filtered(P, due)
           left == Filtered(P, late)
<1>0. /\ DOMAIN P = 1..Len(P) /\ Len(P) \in Nat /\ Undropped' \in SUBSET Event /\ s \in SUBSET Event
      /\ LookaheadMin \in Nat
      /\ \A k \in 1..Len(P) : P[k] \in Window /\ P[k].id \in Nat /\ End(P[k]) \in Int
      /\ \A e \in Undropped' : e.t \in Int
  <2>1. LookaheadMin \in Nat /\ Stride \in Nat
    BY WindowAssumption
  <2>2. \A w \in Window : w.id \in Nat /\ End(w) \in Int
    BY <2>1 DEF Window, End
  <2>3. \A k \in 1..Len(P) : P[k] \in Window
    OBVIOUS
  <2>4. \A e \in Event : e.t \in Int
    BY DEF Event
  <2> QED
    BY <2>1, <2>2, <2>3, <2>4 DEF Numbered
<1>1. /\ buffer' = LeftBy(s, Range(settled))
      /\ outcomes' = outcomes \o OutcomesOf(settled, s, covered)
      /\ pendingOutcomeWindows' = left
  BY DEF Flush, SettledNow, StillPending
<1>due. \A k \in 1..Len(P) : /\ P[k] \in due <=> Settles(P[k], covered, ended)
                             /\ P[k] \in late <=> ~Settles(P[k], covered, ended)
  BY <1>0 DEF Range
<1> HIDE DEF due, late
<1>2. settled \in Seq(Window) /\ \E at : Places(P, due, at)
  BY FilteredKeepsOrder
<1>3. left \in Seq(Window) /\ \E at : Places(P, late, at)
  BY FilteredKeepsOrder
<1>4. PICK at : Places(P, due, at)
  BY <1>2
<1>5. PICK to : Places(P, late, to)
  BY <1>3
<1>6. /\ \A k \in 1..Len(settled) : at[k] \in 1..Len(P) /\ settled[k] = P[at[k]]
                                    /\ Settles(P[at[k]], covered, ended)
      /\ \A j, k \in 1..Len(settled) : j < k => at[j] < at[k]
  <2>1. /\ at \in [1..Len(settled) -> 1..Len(P)]
        /\ \A j, k \in 1..Len(settled) : j < k => at[j] < at[k]
        /\ \A k \in 1..Len(settled) : settled[k] = P[at[k]] /\ P[at[k]] \in due
    BY <1>4 DEF Places
  <2> HIDE DEF settled
  <2> QED
    BY <2>1, <1>due
<1>7. \A k \in 1..Len(left) : to[k] \in 1..Len(P) /\ left[k] = P[to[k]]
                              /\ ~Settles(P[to[k]], covered, ended)
  <2>1. /\ to \in [1..Len(left) -> 1..Len(P)]
        /\ \A k \in 1..Len(left) : left[k] = P[to[k]] /\ P[to[k]] \in late
    BY <1>5 DEF Places
  <2> HIDE DEF left
  <2> QED
    BY <2>1, <1>due
<1> HIDE DEF settled, left
<1>8. SlotsInOrder(settled) /\ LacksOnlyOld(s, settled)
  <2>1. SlotsInOrder(settled)
    BY <1>6 DEF SlotsInOrder
  <2>2. LacksOnlyOld(s, settled)
    BY <1>6 DEF LacksOnlyOld
  <2> QED
    BY <2>1, <2>2
<1>9. LabelsAreJustified'
  BY <1>1, <1>2, <1>8, LabelsCalledFor
<1>10. ASSUME NEW e \in Undropped' \ buffer', e \in s
       PROVE  \E x \in 1..Len(settled) : e.t < End(settled[x]) + LookaheadMin
  <2>1. PICK w \in Range(settled) : e \notin KeptAfter(s, w)
    BY <1>1, <1>10 DEF LeftBy
  <2>2. PICK x \in DOMAIN settled : settled[x] = w
    BY <2>1 DEF Range
  <2>3. x \in 1..Len(settled) /\ settled[x] \in Window
    BY <1>2
  <2> QED
    BY <1>0, <1>10, <2>1, <2>2, <2>3, EvictedIsOld
<1>11. LacksOnlyOld(buffer', left)
  <2> SUFFICES ASSUME NEW e \in Undropped' \ buffer', NEW k \in 1..Len(left)
               PROVE  e.t < End(left[k]) + LookaheadMin
    BY DEF LacksOnlyOld
  <2>1. to[k] \in 1..Len(P) /\ left[k] = P[to[k]] /\ ~Settles(P[to[k]], covered, ended)
    BY <1>7
  <2>2. CASE e \notin s
    BY <2>1, <2>2 DEF LacksOnlyOld
  <2>3. CASE e \in s
    <3>1. PICK x \in 1..Len(settled) : e.t < End(settled[x]) + LookaheadMin
      BY <1>10, <2>3
    <3>2. at[x] \in 1..Len(P) /\ settled[x] = P[at[x]] /\ Settles(P[at[x]], covered, ended)
      BY <1>6
    <3>3. P[at[x]].id < P[to[k]].id
      BY <2>1, <3>2, SettledComeFirst
    <3>4. ~(to[k] < at[x]) /\ at[x] # to[k]
      <4>1. to[k] < at[x] => P[to[k]].id < P[at[x]].id
        BY <2>1, <3>2 DEF SlotsInOrder
      <4> DEFINE a == P[at[x]].id
                 b == P[to[k]].id
      <4>2. a \in Nat /\ b \in Nat /\ a < b /\ (to[k] < at[x] => b < a)
        BY <1>0, <2>1, <3>2, <3>3, <4>1
      <4>3. at[x] = to[k] => a = b
        OBVIOUS
      <4> HIDE DEF a, b
      <4> QED
        BY <4>2, <4>3
    <3>5. at[x] < to[k]
      BY <1>0, <2>1, <3>2, <3>4
    <3>6. /\ End(P[at[x]]) \in Int /\ End(P[to[k]]) \in Int
          /\ End(P[at[x]]) < End(P[to[k]])
      BY <2>1, <3>2, <3>5, SlotsEndInOrder
    <3> DEFINE a == End(P[at[x]])
               b == End(P[to[k]])
    <3>7. a \in Int /\ b \in Int /\ a < b /\ e.t < a + LookaheadMin /\ e.t \in Int
      BY <1>0, <3>1, <3>2, <3>6
    <3> HIDE DEF a, b
    <3>8. e.t < b + LookaheadMin
      <4>1. LookaheadMin \in Nat
        BY Lengths
      <4> DEFINE t == e.t
      <4>2. t \in Int /\ t < a + LookaheadMin
        BY <3>7
      <4> HIDE DEF t
      <4>3. t < b + LookaheadMin
        BY <3>7, <4>1, <4>2
      <4> QED
        BY <4>3 DEF t
    <3> QED
      BY <2>1, <3>8 DEF b
  <2> QED
    BY <2>2, <2>3
<1>12. ASSUME NEW e \in Undropped' \ buffer' PROVE e.t < grid + LookaheadMin
  <2>1. CASE e \notin s
    BY <2>1
  <2>2. CASE e \in s
    <3>1. PICK x \in 1..Len(settled) : e.t < End(settled[x]) + LookaheadMin
      BY <1>10, <2>2
    <3>2. at[x] \in 1..Len(P) /\ settled[x] = P[at[x]]
      BY <1>6
    <3> DEFINE a == End(P[at[x]])
    <3>3. a \in Int /\ a <= grid /\ e.t < a + LookaheadMin /\ e.t \in Int
      BY <1>0, <3>1, <3>2
    <3> HIDE DEF a
    <3> QED
      BY <1>0, <3>3
  <2> QED
    BY <2>1, <2>2
<1> QED
  BY <1>1, <1>9, <1>11, <1>12

(***************************************************************************)
(* What the steps with a flush do to the order of labels and windows.       *)
(***************************************************************************)
(* The flush of a step that may have emitted windows, and grown the trace   *)
(* by those alone.                                                          *)
LEMMA FlushKeepsOrder ==
  ASSUME WindowInv, running, running' = running, life' = life, now' = now,
         NEW P \in Seq(Window), \A k \in 1..Len(P) : P[k].life = life,
         SlotsInOrder(P), LabelsBelow(P),
         windowIdCounter' \in Nat, windowIdCounter <= windowIdCounter',
         \A k \in 1..Len(P) : P[k].id < windowIdCounter',
         NEW s \in SUBSET Event, NEW covered \in Int, NEW ended \in BOOLEAN,
         heard' \in SUBSET Event, streamEnded' \in BOOLEAN,
         Flush(s, P, covered, ended),
         microTensors' \in Seq(Window),
         \A k \in 1..Len(microTensors') : End(microTensors'[k]) + Settlement <= now,
         \A k \in 1..Len(microTensors') : microTensors'[k].life = life =>
            Labelled(microTensors'[k]) \/ \E x \in 1..Len(P) : P[x] = microTensors'[k]
  PROVE  /\ buffer' \subseteq s
         /\ pendingOutcomeWindows' \in Seq(Window) /\ outcomes' \in Seq(Label)
         /\ \A k \in 1..Len(pendingOutcomeWindows') : \E i \in 1..Len(P) :
              pendingOutcomeWindows'[k] = P[i]
         /\ \A k \in DOMAIN outcomes' : outcomes'[k].life <= life'
         /\ PendingInOrder' /\ LabelsAreOfEarlierWindows' /\ LabelsInOrder'
         /\ NoneForgotten' /\ WaitingAreYoung'
<1>inv. /\ Typed /\ LabelsInOrder /\ PastLivesAreOver /\ LabelsAreOfEarlierWindows
        /\ now \in Int /\ life \in Nat /\ windowIdCounter \in Nat /\ outcomes \in Seq(Label)
        /\ \A k \in DOMAIN outcomes : outcomes[k].life <= life
  <2>1. Typed /\ LabelsInOrder /\ PastLivesAreOver /\ LabelsAreOfEarlierWindows
    BY DEF WindowInv
  <2>2. now \in Int /\ life \in Nat /\ windowIdCounter \in Nat /\ outcomes \in Seq(Label)
    BY <2>1, WindowAssumption DEF Typed
  <2> QED
    BY <2>1, <2>2 DEF PastLivesAreOver
<1> DEFINE kept == pendingOutcomeWindows'
           labels == outcomes'
<1>1. /\ buffer' \subseteq s
      /\ kept \in Seq(Window) /\ SlotsInOrder(kept)
      /\ \A k \in 1..Len(kept) : \E i \in 1..Len(P) :
           kept[k] = P[i] /\ ~Settles(P[i], covered, ended)
      /\ labels \in Seq(Label) /\ LabelsInOrder'
      /\ \A i \in 1..Len(labels) :
           \/ \E j \in 1..Len(outcomes) : labels[i] = outcomes[j]
           \/ \E k \in 1..Len(P) : labels[i].life = life /\ labels[i].id = P[k].id
      /\ \A j \in 1..Len(outcomes) : \E i \in 1..Len(labels) : labels[i] = outcomes[j]
      /\ \A i \in 1..Len(labels) : labels[i].life = life =>
           \A k \in 1..Len(kept) : labels[i].id < kept[k].id
      /\ \A k \in 1..Len(P) :
           \/ \E i \in 1..Len(labels) : LabelOf(P[k], labels[i])
           \/ \E i \in 1..Len(kept) : kept[i] = P[k]
  <2>1. s \in SUBSET Event
    OBVIOUS
  <2>2. Settling(P, s, covered, ended)
    BY <1>inv, <2>1 DEF Settling
  <2> QED
    BY <2>2, FlushSettles
<1>2. /\ DOMAIN pendingOutcomeWindows' = 1..Len(kept) /\ DOMAIN outcomes' = 1..Len(labels)
      /\ DOMAIN microTensors' = 1..Len(microTensors') /\ DOMAIN outcomes = 1..Len(outcomes)
  BY <1>1, <1>inv
<1>3. ASSUME NEW i \in 1..Len(labels)
      PROVE  labels[i].life <= life /\ (labels[i].life = life => labels[i].id < windowIdCounter')
  <2>1. ASSUME NEW j \in 1..Len(outcomes), labels[i] = outcomes[j]
        PROVE  labels[i].life <= life /\ (labels[i].life = life => labels[i].id < windowIdCounter')
    <3>1. outcomes[j] \in Label /\ outcomes[j].life <= life
      BY <1>inv, <1>2
    <3>2. outcomes[j].life = life => outcomes[j].id < windowIdCounter
      BY <1>2, <1>inv DEF LabelsAreOfEarlierWindows
    <3>3. outcomes[j].id \in Nat
      BY <3>1 DEF Label
    <3> QED
      BY <2>1, <3>1, <3>2, <3>3, <1>inv
  <2>2. ASSUME NEW k \in 1..Len(P), labels[i].life = life /\ labels[i].id = P[k].id
        PROVE  labels[i].life <= life /\ (labels[i].life = life => labels[i].id < windowIdCounter')
    BY <2>2, <1>inv
  <2> QED
    BY <1>1, <2>1, <2>2
<1>4. \A k \in 1..Len(kept) : kept[k] \in Window /\ \E i \in 1..Len(P) : kept[k] = P[i]
  BY <1>1
<1>5. PendingInOrder'
  <2>1. \A k \in 1..Len(kept) : kept[k].life = life /\ kept[k].id < windowIdCounter'
    BY <1>4
  <2>2. \A j, k \in 1..Len(kept) : j < k => kept[j].id < kept[k].id /\ End(kept[j]) <= kept[k].start
    BY <1>1 DEF SlotsInOrder
  <2> HIDE DEF kept
  <2>3. PendingInOrder' <=>
          /\ \A k \in DOMAIN kept : kept[k].life = life' /\ kept[k].id < windowIdCounter'
          /\ \A j, k \in DOMAIN kept : j < k => kept[j].id < kept[k].id /\ End(kept[j]) <= kept[k].start
    BY DEF PendingInOrder, kept, End
  <2>4. DOMAIN kept = 1..Len(kept)
    BY <1>2 DEF kept
  <2> QED
    BY <2>1, <2>2, <2>3, <2>4
<1>6. LabelsAreOfEarlierWindows'
  BY <1>1, <1>2, <1>3 DEF LabelsAreOfEarlierWindows
<1>7. ASSUME NEW w \in Window, Labelled(w) PROVE \E i \in 1..Len(labels) : LabelOf(w, labels[i])
  <2>1. PICK j \in 1..Len(outcomes) : LabelOf(w, outcomes[j])
    BY <1>2, <1>7 DEF Labelled
  <2> QED
    BY <1>1, <2>1
<1>8. NoneForgotten'
  <2> SUFFICES ASSUME NEW k \in 1..Len(microTensors'), microTensors'[k].life = life
               PROVE  \/ \E i \in 1..Len(labels) : LabelOf(microTensors'[k], labels[i])
                      \/ \E i \in 1..Len(kept) : kept[i] = microTensors'[k]
    BY <1>2 DEF NoneForgotten, Labelled, Waiting, LabelOf
  <2> DEFINE w == microTensors'[k]
  <2>1. w \in Window /\ (Labelled(w) \/ \E x \in 1..Len(P) : P[x] = w)
    OBVIOUS
  <2> HIDE DEF w
  <2>2. CASE Labelled(w)
    BY <1>7, <2>1, <2>2 DEF w
  <2>3. ASSUME NEW x \in 1..Len(P), P[x] = w
        PROVE  \/ \E i \in 1..Len(labels) : LabelOf(w, labels[i])
               \/ \E i \in 1..Len(kept) : kept[i] = w
    BY <1>1, <2>3
  <2> QED
    BY <2>1, <2>2, <2>3 DEF w
<1>9. ASSUME NEW j \in 1..Len(kept), NEW k \in 1..Len(microTensors')
      PROVE  End(microTensors'[k]) + Settlement < End(kept[j]) + LookaheadMax + Grace
  <2>1. kept[j] \in Window /\ ~Settles(kept[j], covered, ended)
    BY <1>1
  <2>2. microTensors'[k] \in Window /\ End(microTensors'[k]) + Settlement <= now
    OBVIOUS
  <2>3. /\ Stride \in Nat /\ LookaheadMax \in Nat /\ Grace \in Nat /\ Settlement \in Nat
        /\ End(kept[j]) \in Int /\ End(microTensors'[k]) \in Int
    <3>1. End(kept[j]) \in Int /\ End(microTensors'[k]) \in Int
      BY <2>1, <2>2, TimesAndNumbers
    <3> QED
      BY <3>1, Lengths
  <2>4. ~(now - (End(kept[j]) + LookaheadMax) >= Grace)
    BY <2>1 DEF Settles
  <2> DEFINE emitted == End(microTensors'[k])
             waiting == End(kept[j])
  <2>5. /\ emitted \in Int /\ waiting \in Int /\ emitted + Settlement <= now
        /\ ~(now - (waiting + LookaheadMax) >= Grace)
    BY <2>2, <2>3, <2>4
  <2> HIDE DEF emitted, waiting
  <2>6. now \in Int
    BY <1>inv
  <2>7. emitted + Settlement < waiting + LookaheadMax + Grace
    BY Lengths, <2>5, <2>6
  <2> QED
    BY <2>7 DEF emitted, waiting
<1>10. WaitingAreYoung'
  <2>1. \A k \in DOMAIN microTensors' : End(microTensors'[k]) + Settlement <= now'
    BY <1>2
  <2> QED
    BY <1>2, <1>9, <2>1 DEF WaitingAreYoung, End
<1>11. \A k \in DOMAIN outcomes' : outcomes'[k].life <= life'
  BY <1>2, <1>3
<1> QED
  BY <1>1, <1>4, <1>5, <1>6, <1>8, <1>10, <1>11

(***************************************************************************)
(* The invariant, one step at a time.                                       *)
(***************************************************************************)
(* Nothing is recorded at first.                                            *)
LEMMA InitInvariant == Init => WindowInv
<1> SUFFICES ASSUME Init PROVE WindowInv
  OBVIOUS
<1>0. /\ heard = {} /\ events = {} /\ buffer = {} /\ dropped = {} /\ now = 0 /\ arrived = 0 /\ life = 0
      /\ running = TRUE /\ session = 0
      /\ windowIdCounter = 0 /\ lastWindowEnd = NoGrid /\ coveredThrough = 0 /\ streamEnded = FALSE
      /\ pendingOutcomeWindows = << >> /\ microTensors = << >> /\ outcomes = << >>
  BY DEF Init, Fresh
<1>1. Typed
  <2>1. IsFiniteSet({}) /\ Cardinality({}) = 0
    BY FS_EmptySet
  <2>2. 0 \in 0..MaxLives /\ 0 \in 0..MaxEvents /\ 0 <= Capacity
    BY WindowAssumption
  <2>3. << >> \in Seq(Window) /\ << >> \in Seq(Label)
    OBVIOUS
  <2>4. /\ pendingOutcomeWindows \in Seq(Window) /\ microTensors \in Seq(Window)
        /\ outcomes \in Seq(Label)
    BY <1>0, <2>3
  <2>5. /\ IsFiniteSet(events) /\ Cardinality(events) <= Capacity
        /\ heard \subseteq Event /\ events \subseteq heard /\ IsFiniteSet(heard)
    BY <1>0, <2>1, <2>2
  <2>7. dropped \subseteq heard /\ buffer \subseteq Undropped /\ Cardinality(buffer) <= MaxBuffered
    <3>1. 0 <= MaxBuffered
      BY WindowAssumption
    <3> QED
      BY <1>0, <2>1, <3>1
  <2>6. /\ life \in 0..MaxLives /\ arrived \in 0..MaxEvents /\ now \in Int /\ session \in Nat
        /\ coveredThrough \in Int /\ windowIdCounter \in Nat
    BY <1>0, <2>2
  <2> QED
    BY <1>0, <2>4, <2>5, <2>6, <2>7 DEF Typed
<1>2. DOMAIN microTensors = {} /\ DOMAIN outcomes = {} /\ DOMAIN pendingOutcomeWindows = {}
  BY <1>0
<1>3. EventsNumbered /\ GridInStep /\ PastLivesAreOver
  BY <1>0, <1>2 DEF EventsNumbered, GridInStep, PastLivesAreOver
<1>4. PendingInOrder /\ LabelsAreOfEarlierWindows /\ LabelsInOrder /\ NoneForgotten /\ WaitingAreYoung
  BY <1>2 DEF PendingInOrder, LabelsAreOfEarlierWindows, LabelsInOrder, NoneForgotten, WaitingAreYoung
<1>5. EventsCountedOnce /\ OpenSlotsKeepTheirEvents
  BY <1>0, <1>2 DEF EventsCountedOnce, OpenSlotsKeepTheirEvents
<1>6. EvictedAreOld /\ LabelsAreJustified
  BY <1>0, <1>2 DEF EvictedAreOld, Undropped, LabelsAreJustified
<1> QED
  BY <1>1, <1>3, <1>4, <1>5, <1>6 DEF WindowInv

(* Every step that leaves the pipeline and the trace as they are, and the   *)
(* clock no earlier.                                                        *)
LEMMA PipelineRests ==
  ASSUME WindowInv, UNCHANGED <<running, arrived, pipeline, trace>>,
         now' \in Int, now <= now', session' \in Nat
  PROVE  WindowInv'
<1>same. /\ running' = running /\ arrived' = arrived /\ events' = events
         /\ lastWindowEnd' = lastWindowEnd /\ windowIdCounter' = windowIdCounter
         /\ buffer' = buffer /\ pendingOutcomeWindows' = pendingOutcomeWindows
         /\ coveredThrough' = coveredThrough /\ streamEnded' = streamEnded /\ heard' = heard
         /\ shifted' = shifted /\ dropped' = dropped /\ life' = life
         /\ microTensors' = microTensors /\ outcomes' = outcomes
  BY DEF pipeline, trace
<1>1. Typed'
  BY <1>same DEF WindowInv, Typed, Undropped
<1>2. EventsNumbered'
  BY <1>same DEF WindowInv, EventsNumbered, InSlot
<1>3. GridInStep'
  BY <1>same DEF WindowInv, GridInStep, End
<1>4. PastLivesAreOver'
  BY <1>same DEF WindowInv, PastLivesAreOver
<1>5. PendingInOrder'
  BY <1>same DEF WindowInv, PendingInOrder, End
<1>6. LabelsAreOfEarlierWindows' /\ LabelsInOrder'
  BY <1>same DEF WindowInv, LabelsAreOfEarlierWindows, LabelsInOrder
<1>7. NoneForgotten'
  BY <1>same DEF WindowInv, NoneForgotten, Labelled, Waiting, LabelOf
<1>8. WaitingAreYoung'
  <2>1. ASSUME NEW k \in DOMAIN microTensors PROVE End(microTensors[k]) + Settlement <= now'
    <3>1. microTensors[k] \in Window /\ now \in Int /\ End(microTensors[k]) + Settlement <= now
      BY DEF WindowInv, Typed, WaitingAreYoung
    <3>2. End(microTensors[k]) \in Int /\ Settlement \in Nat
      BY <3>1, Lengths, TimesAndNumbers
    <3> QED
      BY <3>1, <3>2
  <2> QED
    BY <1>same, <2>1 DEF WindowInv, WaitingAreYoung, End
<1>9. EventsCountedOnce' /\ OpenSlotsKeepTheirEvents'
  BY <1>same DEF WindowInv, EventsCountedOnce, OpenSlotsKeepTheirEvents
<1>10. EvictedAreOld' /\ LabelsAreJustified'
  BY <1>same DEF WindowInv, EvictedAreOld, Undropped, LabelsAreJustified, End
<1> QED
  BY <1>1, <1>2, <1>3, <1>4, <1>5, <1>6, <1>7, <1>8, <1>9, <1>10 DEF WindowInv

(* Time passes.                                                             *)
LEMMA AdvanceInvariant == ASSUME WindowInv, Advance PROVE WindowInv'
<1>1. now \in Int /\ session \in Nat
  BY DEF WindowInv, Typed
<1>2. now' = now + 1 /\ session' = session /\ UNCHANGED <<running, arrived, pipeline, trace>>
  BY DEF Advance
<1>3. now' \in Int /\ now <= now' /\ session' \in Nat
  BY <1>1, <1>2
<1> QED
  BY <1>2, <1>3, PipelineRests

(* A step that changes no variable.                                         *)
LEMMA StutterInvariant == ASSUME WindowInv, UNCHANGED vars PROVE WindowInv'
<1>1. now \in Int /\ session \in Nat
  BY DEF WindowInv, Typed
<1>2. now' = now /\ session' = session /\ UNCHANGED <<running, arrived, pipeline, trace>>
  BY DEF vars, pipeline, trace
<1>3. now' \in Int /\ now <= now' /\ session' \in Nat
  BY <1>1, <1>2
<1> QED
  BY <1>2, <1>3, PipelineRests

(* An event: it is heard by the buffer and by the deriver, which flushes.   *)
LEMMA HearInvariant ==
  ASSUME WindowInv, NEW kind \in Kinds, Hear(kind)
  PROVE  WindowInv'
<1> DEFINE e == [t |-> now, n |-> arrived, kind |-> kind]
           more == events \cup {e}
           pushed == buffer \cup {e}
           s == pushed \ Dropped(pushed)
           covered == IF now > coveredThrough THEN now ELSE coveredThrough
           ended == streamEnded \/ kind = "lifecycle"
<1>same. /\ running /\ running' = running /\ now' = now /\ session' = session /\ life' = life
         /\ windowIdCounter' = windowIdCounter /\ microTensors' = microTensors
  BY DEF Hear
<1>new. /\ arrived < MaxEvents /\ arrived' = arrived + 1 /\ heard' = heard \cup {e}
        /\ shifted' = shifted \cup Overflow(more) /\ dropped' = dropped \cup Dropped(pushed)
        /\ lastWindowEnd' = IF lastWindowEnd = NoGrid THEN now ELSE lastWindowEnd
        /\ events' = IF lastWindowEnd = NoGrid THEN Evicted(more \ Overflow(more), now)
                     ELSE more \ Overflow(more)
        /\ coveredThrough' = covered /\ streamEnded' = ended
        /\ Flush(s, pendingOutcomeWindows, covered, ended)
  BY DEF Hear
<1>types. /\ Typed /\ now \in Int /\ arrived \in Nat /\ life \in Nat /\ windowIdCounter \in Nat
          /\ heard \subseteq Event /\ IsFiniteSet(heard)
          /\ events \subseteq heard /\ IsFiniteSet(events)
          /\ Cardinality(events) <= Capacity /\ Capacity \in Nat
          /\ dropped \subseteq heard /\ buffer \subseteq Undropped /\ buffer \subseteq heard
          /\ Cardinality(buffer) <= MaxBuffered /\ MaxBuffered \in Nat
          /\ lastWindowEnd \in Int \cup {NoGrid} /\ NoGrid \notin Int
          /\ coveredThrough \in Int /\ streamEnded \in BOOLEAN
          /\ pendingOutcomeWindows \in Seq(Window) /\ microTensors \in Seq(Window)
          /\ DOMAIN pendingOutcomeWindows = 1..Len(pendingOutcomeWindows)
          /\ DOMAIN microTensors = 1..Len(microTensors)
          /\ outcomes \in Seq(Label) /\ DOMAIN outcomes = 1..Len(outcomes)
  <2>1. arrived \in 0..MaxEvents /\ life \in 0..MaxLives
    BY DEF WindowInv, Typed
  <2> QED
    BY <2>1, WindowAssumption DEF WindowInv, Typed, Undropped
<1>e. e \in Event /\ e.t = now /\ e.n = arrived
  BY <1>types DEF Event
<1> HIDE DEF e
<1>c. covered \in Int /\ ended \in BOOLEAN
  BY <1>types
<1> HIDE DEF covered, ended
<1>heard. /\ heard' \in SUBSET Event /\ IsFiniteSet(heard')
          /\ more \subseteq heard' /\ more \in SUBSET Event
  <2>1. IsFiniteSet(heard \cup {e})
    BY <1>types, FS_AddElement
  <2> QED
    BY <1>new, <1>types, <1>e, <2>1
<1>numbers. /\ \A f \in heard' : f.n < arrived'
            /\ \A f, g \in heard' : f.n = g.n => f = g
  <2>1. /\ \A f \in heard : f.n < arrived
        /\ \A f, g \in heard : f.n = g.n => f = g
    BY DEF WindowInv, EventsNumbered
  <2>2. \A f \in heard : f.n \in Nat
    BY <1>types DEF Event
  <2> QED
    BY <1>new, <1>types, <1>e, <2>1, <2>2
<1>pushed. pushed \subseteq heard' /\ IsFiniteSet(s) /\ Cardinality(s) <= MaxBuffered
  <2>1. IsFiniteSet(buffer) /\ Cardinality(buffer) \in Nat
    BY <1>types, FS_Subset, FS_CardinalityType
  <2>2. IsFiniteSet(pushed) /\ Cardinality(pushed) = IF e \in buffer THEN Cardinality(buffer)
                                                     ELSE Cardinality(buffer) + 1
    BY <2>1, FS_AddElement
  <2>3. pushed \subseteq heard'
    BY <1>new, <1>types
  <2>4. \A f, g \in pushed : f.n = g.n => f = g
    BY <1>numbers, <2>3
  <2>5. pushed \in SUBSET Event
    BY <1>heard, <2>3
  <2> HIDE DEF pushed
  <2>6. Cardinality(pushed) <= MaxBuffered + 1
    BY <1>types, <2>1, <2>2
  <2> QED
    BY <2>2, <2>3, <2>4, <2>5, <2>6, DroppedBounds
<1>news. e \notin heard
  BY <1>e, <1>types DEF WindowInv, EventsNumbered
<1>drop. /\ dropped' \subseteq heard' /\ s \subseteq Undropped'
         /\ \A f \in Undropped' \ s : f \in Undropped \ buffer
  <2>1. Dropped(pushed) \subseteq pushed
    BY DEF Dropped
  <2>2. pushed = buffer \cup {e}
    OBVIOUS
  <2>3. dropped' = dropped \cup Dropped(pushed) /\ heard' = heard \cup {e}
    BY <1>new
  <2> HIDE DEF pushed
  <2>4. dropped' \subseteq heard'
    BY <1>types, <1>pushed, <2>1, <2>3
  <2>5. s \subseteq Undropped'
    BY <1>news, <1>types, <2>2, <2>3 DEF Undropped
  <2>6. \A f \in Undropped' \ s : f \in Undropped \ buffer
    BY <2>2, <2>3 DEF Undropped
  <2> QED
    BY <2>4, <2>5, <2>6
<1> HIDE DEF s, pushed
<1>grid. lastWindowEnd' \in Int /\ (lastWindowEnd # NoGrid => lastWindowEnd' = lastWindowEnd)
  BY <1>new, <1>types
<1>order. /\ buffer' \subseteq s
          /\ pendingOutcomeWindows' \in Seq(Window) /\ outcomes' \in Seq(Label)
          /\ \A k \in 1..Len(pendingOutcomeWindows') : \E i \in 1..Len(pendingOutcomeWindows) :
               pendingOutcomeWindows'[k] = pendingOutcomeWindows[i]
          /\ \A k \in DOMAIN outcomes' : outcomes'[k].life <= life'
          /\ PendingInOrder' /\ LabelsAreOfEarlierWindows' /\ LabelsInOrder'
          /\ NoneForgotten' /\ WaitingAreYoung'
  <2> DEFINE P == pendingOutcomeWindows
  <2>1. \A k \in 1..Len(P) : P[k].life = life /\ P[k].id < windowIdCounter
    BY <1>types DEF WindowInv, PendingInOrder
  <2>2. SlotsInOrder(P)
    BY <1>types DEF WindowInv, PendingInOrder, SlotsInOrder
  <2>3. LabelsBelow(P)
    BY <1>types DEF WindowInv, LabelsAreOfEarlierWindows, LabelsBelow
  <2>4. s \in SUBSET Event
    BY <1>heard, <1>drop DEF Undropped
  <2>5. \A k \in 1..Len(microTensors') : End(microTensors'[k]) + Settlement <= now
    BY <1>same, <1>types DEF WindowInv, WaitingAreYoung
  <2>6. \A k \in 1..Len(microTensors') : microTensors'[k].life = life =>
          Labelled(microTensors'[k]) \/ \E x \in 1..Len(P) : P[x] = microTensors'[k]
    BY <1>same, <1>types DEF WindowInv, NoneForgotten, Waiting
  <2>7. Flush(s, P, covered, ended) /\ P \in Seq(Window)
    BY <1>new, <1>types
  <2>8. /\ windowIdCounter' \in Nat /\ windowIdCounter <= windowIdCounter'
        /\ \A k \in 1..Len(P) : P[k].id < windowIdCounter'
    BY <1>same, <1>types, <2>1
  <2>9. streamEnded' \in BOOLEAN /\ microTensors' \in Seq(Window)
    BY <1>same, <1>new, <1>types, <1>c
  <2> HIDE DEF P
  <2>10. /\ buffer' \subseteq s
         /\ pendingOutcomeWindows' \in Seq(Window) /\ outcomes' \in Seq(Label)
         /\ \A k \in 1..Len(pendingOutcomeWindows') : \E i \in 1..Len(P) :
              pendingOutcomeWindows'[k] = P[i]
         /\ \A k \in DOMAIN outcomes' : outcomes'[k].life <= life'
         /\ PendingInOrder' /\ LabelsAreOfEarlierWindows' /\ LabelsInOrder'
         /\ NoneForgotten' /\ WaitingAreYoung'
    BY <1>same, <1>heard, <1>c, <2>1, <2>2, <2>3, <2>4, <2>5, <2>6, <2>7, <2>8, <2>9, FlushKeepsOrder
  <2> QED
    BY <2>10 DEF P
<1>fits. /\ IsFiniteSet(more \ Overflow(more)) /\ Cardinality(more \ Overflow(more)) <= Capacity
  <2>1. IsFiniteSet(more) /\ Cardinality(more) <= Capacity + 1
    <3>1. IsFiniteSet(more) /\ Cardinality(more) = IF e \in events THEN Cardinality(events)
                                                   ELSE Cardinality(events) + 1
      BY <1>types, FS_AddElement
    <3>2. Cardinality(events) \in Nat
      BY <1>types, FS_CardinalityType
    <3> HIDE DEF more
    <3> QED
      BY <1>types, <3>1, <3>2
  <2>2. \A f, g \in more : f.n = g.n => f = g
    BY <1>heard, <1>numbers
  <2> HIDE DEF more
  <2> QED
    BY <1>heard, <2>1, <2>2, OverflowBounds
<1>held. /\ events' \subseteq more /\ IsFiniteSet(events') /\ Cardinality(events') <= Capacity
  <2> DEFINE left == more \ Overflow(more)
             young == Evicted(left, now)
  <2>1. left \subseteq more /\ young \in SUBSET left
    BY DEF Evicted
  <2>2. events' = left \/ events' = young
    BY <1>new
  <2>3. IsFiniteSet(left) /\ Cardinality(left) <= Capacity
    BY <1>fits
  <2> HIDE DEF left, young, more
  <2>4. /\ IsFiniteSet(young) /\ Cardinality(young) <= Cardinality(left)
        /\ Cardinality(young) \in Nat /\ Cardinality(left) \in Nat
    BY <2>1, <2>3, FS_Subset, FS_CardinalityType
  <2>5. CASE events' = left
    BY <2>1, <2>3, <2>5
  <2>6. CASE events' = young
    BY <1>types, <2>1, <2>3, <2>4, <2>6
  <2> QED
    BY <2>2, <2>5, <2>6
<1>buffer. buffer' \subseteq Undropped' /\ Cardinality(buffer') <= MaxBuffered
  <2>1. buffer' \in SUBSET s
    BY <1>order
  <2>2. /\ IsFiniteSet(buffer') /\ Cardinality(buffer') <= Cardinality(s)
        /\ Cardinality(buffer') \in Nat /\ Cardinality(s) \in Nat
    BY <1>pushed, <2>1, FS_Subset, FS_CardinalityType
  <2> QED
    BY <1>types, <1>pushed, <1>drop, <2>1, <2>2
<1>1. Typed'
  <2>1. arrived' \in 0..MaxEvents
    BY <1>new, <1>types, WindowAssumption
  <2>2. events' \subseteq heard'
    BY <1>held, <1>heard
  <2>3. coveredThrough' \in Int /\ streamEnded' \in BOOLEAN
    BY <1>new, <1>c
  <2> HIDE DEF more
  <2> QED
    BY <1>same, <1>types, <1>heard, <1>grid, <1>order, <1>held, <1>drop, <1>buffer,
       <2>1, <2>2, <2>3 DEF Typed
<1>2. EventsNumbered'
  <2>1. ASSUME NEW k \in DOMAIN microTensors, NEW f \in microTensors[k].events
        PROVE  f.n < arrived' /\ InSlot(f, microTensors[k].start)
    <3>1. f.n < arrived /\ InSlot(f, microTensors[k].start)
      BY DEF WindowInv, EventsNumbered
    <3>2. f.n \in Nat
      <4>1. microTensors[k] \in Window
        BY <1>types
      <4>2. f \in Event
        BY <4>1 DEF Window
      <4> QED
        BY <4>2 DEF Event
    <3> QED
      BY <1>new, <1>types, <3>1, <3>2
  <2> QED
    BY <1>same, <1>numbers, <2>1 DEF EventsNumbered, InSlot
<1>3. GridInStep'
  <2>1. ASSUME NEW k \in DOMAIN microTensors, microTensors[k].life = life
        PROVE  lastWindowEnd' # NoGrid /\ End(microTensors[k]) <= lastWindowEnd'
    BY <1>same, <1>grid, <1>types, <2>1 DEF WindowInv, GridInStep
  <2>2. ASSUME NEW k \in 1..Len(pendingOutcomeWindows')
        PROVE  lastWindowEnd' # NoGrid /\ End(pendingOutcomeWindows'[k]) <= lastWindowEnd'
    <3>1. PICK i \in 1..Len(pendingOutcomeWindows) :
            pendingOutcomeWindows'[k] = pendingOutcomeWindows[i]
      BY <1>order
    <3>2. lastWindowEnd # NoGrid /\ End(pendingOutcomeWindows[i]) <= lastWindowEnd
      BY <1>types DEF WindowInv, GridInStep
    <3> QED
      BY <1>grid, <1>types, <3>1, <3>2
  <2>3. DOMAIN pendingOutcomeWindows' = 1..Len(pendingOutcomeWindows')
    BY <1>order
  <2>4. lastWindowEnd' # NoGrid
    BY <1>grid, <1>types
  <2> QED
    BY <1>same, <2>1, <2>2, <2>3, <2>4 DEF GridInStep, End
<1>4. PastLivesAreOver'
  <2>1. ASSUME NEW k \in DOMAIN microTensors, microTensors[k].life < life
        PROVE  microTensors[k].events \cap heard' = {}
    <3>1. microTensors[k].events \cap heard = {}
      BY <2>1 DEF WindowInv, PastLivesAreOver
    <3>2. e \notin microTensors[k].events
      BY <1>e, <1>types DEF WindowInv, EventsNumbered
    <3> QED
      BY <1>new, <3>1, <3>2
  <2>2. \A k \in DOMAIN microTensors : microTensors[k].life <= life
    BY DEF WindowInv, PastLivesAreOver
  <2> QED
    BY <1>same, <1>order, <2>1, <2>2 DEF PastLivesAreOver
<1>5. EventsCountedOnce'
  BY <1>same DEF WindowInv, EventsCountedOnce
<1>6. OpenSlotsKeepTheirEvents'
  <2> SUFFICES ASSUME NEW f \in heard' \ shifted', f.t >= lastWindowEnd'
               PROVE  f \in events'
    BY DEF OpenSlotsKeepTheirEvents
  <2>1. CASE lastWindowEnd # NoGrid
    <3>1. CASE f = e
      BY <1>new, <2>1, <3>1
    <3>2. CASE f # e
      <4>1. f \in heard \ shifted /\ f.t >= lastWindowEnd
        BY <1>new, <1>grid, <2>1, <3>2
      <4>2. f \in events
        BY <1>same, <2>1, <4>1 DEF WindowInv, OpenSlotsKeepTheirEvents
      <4> QED
        BY <1>new, <2>1, <4>2
    <3> QED
      BY <3>1, <3>2
  <2>2. CASE lastWindowEnd = NoGrid
    <3>1. f = e
      BY <1>same, <1>new, <2>2 DEF WindowInv, GridInStep
    <3>2. f \in more \ Overflow(more)
      BY <1>new, <3>1
    <3>3. now >= now - Retention
      BY <1>types, WindowAssumption
    <3> HIDE DEF more
    <3> QED
      BY <1>new, <1>e, <2>2, <3>1, <3>2, <3>3 DEF Evicted
  <2> QED
    BY <2>1, <2>2
<1>7. EvictedAreOld' /\ LabelsAreJustified'
  <2> DEFINE P == pendingOutcomeWindows
             next == lastWindowEnd'
  <2>1. P \in Seq(Window) /\ SlotsInOrder(P)
    BY <1>types DEF WindowInv, PendingInOrder, SlotsInOrder
  <2>2. Numbered(Undropped') /\ s \in SUBSET Undropped'
    <3>1. Undropped' \in SUBSET heard'
      BY DEF Undropped
    <3>2. IsFiniteSet(Undropped')
      BY <1>heard, <3>1, FS_Subset
    <3> QED
      BY <1>drop, <1>heard, <1>numbers, <3>1, <3>2 DEF Numbered
  <2>3. \A f \in Undropped' \ s : f \in Undropped \ buffer /\ lastWindowEnd # NoGrid
    <3>1. \A f \in Undropped : lastWindowEnd # NoGrid
      BY <1>same DEF WindowInv, GridInStep, Undropped
    <3> QED
      BY <1>drop, <3>1
  <2>4. LacksOnlyOld(s, P)
    BY <1>same, <1>types, <2>3 DEF WindowInv, EvictedAreOld, LacksOnlyOld
  <2>5. \A f \in Undropped' \ s : f.t < next + LookaheadMin
    BY <1>same, <1>grid, <2>3 DEF WindowInv, EvictedAreOld
  <2>6. next \in Int /\ \A k \in 1..Len(P) : End(P[k]) <= next
    BY <1>grid, <1>types DEF WindowInv, GridInStep
  <2>7. Flush(s, P, covered, ended) /\ LabelsAreJustified /\ outcomes' \in Seq(Label)
    BY <1>new, <1>order DEF WindowInv
  <2>8. now \in Int /\ outcomes \in Seq(Label) /\ covered \in Int /\ ended \in BOOLEAN
    BY <1>types, <1>c
  <2> HIDE DEF P, next
  <2>10. LabelsAreJustified'
    BY <2>1, <2>2, <2>4, <2>5, <2>6, <2>7, <2>8, FlushJustifies
  <2>11. LacksOnlyOld(buffer', pendingOutcomeWindows')
    BY <2>1, <2>2, <2>4, <2>5, <2>6, <2>7, <2>8, FlushJustifies
  <2>12. \A f \in Undropped' \ buffer' : f.t < next + LookaheadMin
    BY <2>1, <2>2, <2>4, <2>5, <2>6, <2>7, <2>8, FlushJustifies
  <2>9. DOMAIN pendingOutcomeWindows' = 1..Len(pendingOutcomeWindows')
    BY <1>order
  <2> QED
    BY <2>9, <2>10, <2>11, <2>12 DEF EvictedAreOld, LacksOnlyOld, End, next
<1> QED
  BY <1>1, <1>2, <1>3, <1>4, <1>5, <1>6, <1>7, <1>order DEF WindowInv

(* A tick: the windows of the slots that are due, and their flush.          *)
LEMMA TickInvariant == ASSUME WindowInv, Tick PROVE WindowInv'
<1> DEFINE grid == IF lastWindowEnd # NoGrid THEN lastWindowEnd ELSE now
           W == WindowsOf(events, grid)
           due == DueSlots(grid)
           P == pendingOutcomeWindows \o W
           end == grid + due * Stride
<1>same. /\ running /\ running' = running /\ now' = now /\ session' = session /\ life' = life
         /\ arrived' = arrived /\ coveredThrough' = coveredThrough
         /\ streamEnded' = streamEnded /\ heard' = heard /\ shifted' = shifted
         /\ dropped' = dropped
  BY DEF Tick
<1>new. /\ lastWindowEnd' = end
        /\ windowIdCounter' = windowIdCounter + Len(W)
        /\ events' = IF ~(lastWindowEnd # NoGrid) THEN Evicted(events, now)
                     ELSE IF due = 0 THEN events ELSE Evicted(events, grid + (due - 1) * Stride)
        /\ microTensors' = microTensors \o W
        /\ Flush(buffer, P, coveredThrough, streamEnded)
  BY DEF Tick
<1>types. /\ Typed /\ now \in Int /\ arrived \in Nat /\ life \in Nat /\ windowIdCounter \in Nat
          /\ heard \in SUBSET Event /\ IsFiniteSet(heard)
          /\ events \subseteq heard /\ IsFiniteSet(events)
          /\ Cardinality(events) <= Capacity /\ Capacity \in Nat
          /\ dropped \subseteq heard /\ buffer \subseteq Undropped /\ buffer \in SUBSET Event
          /\ Cardinality(buffer) <= MaxBuffered /\ MaxBuffered \in Nat /\ IsFiniteSet(buffer)
          /\ lastWindowEnd \in Int \cup {NoGrid} /\ NoGrid \notin Int
          /\ coveredThrough \in Int /\ streamEnded \in BOOLEAN
          /\ pendingOutcomeWindows \in Seq(Window) /\ microTensors \in Seq(Window)
          /\ DOMAIN pendingOutcomeWindows = 1..Len(pendingOutcomeWindows)
          /\ DOMAIN microTensors = 1..Len(microTensors)
          /\ outcomes \in Seq(Label) /\ DOMAIN outcomes = 1..Len(outcomes)
          /\ Stride \in Nat \ {0} /\ Retention \in Nat
  <2>1. arrived \in 0..MaxEvents /\ life \in 0..MaxLives
    BY DEF WindowInv, Typed
  <2>2. buffer \in SUBSET heard
    BY DEF WindowInv, Typed, Undropped
  <2>3. IsFiniteSet(buffer) /\ buffer \in SUBSET Event
    BY <2>2, FS_Subset DEF WindowInv, Typed
  <2> QED
    BY <2>1, <2>3, WindowAssumption DEF WindowInv, Typed
<1>grid. /\ grid \in Int
         /\ lastWindowEnd # NoGrid => grid = lastWindowEnd
         /\ lastWindowEnd = NoGrid => heard = {} /\ Len(pendingOutcomeWindows) = 0
         /\ \A k \in 1..Len(microTensors) :
              microTensors[k].life = life => End(microTensors[k]) <= grid
         /\ \A k \in 1..Len(pendingOutcomeWindows) : End(pendingOutcomeWindows[k]) <= grid
  <2>1. grid \in Int
    BY <1>types
  <2>2. lastWindowEnd = NoGrid => heard = {}
    BY <1>same DEF WindowInv, GridInStep
  <2>3. lastWindowEnd = NoGrid => ~(\E k \in 1..Len(pendingOutcomeWindows) : TRUE)
    BY <1>types DEF WindowInv, GridInStep
  <2>4. lastWindowEnd = NoGrid => Len(pendingOutcomeWindows) = 0
    <3>1. Len(pendingOutcomeWindows) \in Nat
      BY <1>types
    <3>2. Len(pendingOutcomeWindows) # 0 => 1 \in 1..Len(pendingOutcomeWindows)
      BY <3>1
    <3> QED
      BY <2>3, <3>2
  <2>5. \A k \in 1..Len(microTensors) :
          microTensors[k].life = life => End(microTensors[k]) <= grid
    BY <1>same, <1>types DEF WindowInv, GridInStep
  <2>6. \A k \in 1..Len(pendingOutcomeWindows) : End(pendingOutcomeWindows[k]) <= grid
    BY <1>types DEF WindowInv, GridInStep
  <2> QED
    BY <2>1, <2>2, <2>4, <2>5, <2>6
<1> HIDE DEF grid
<1>end. due \in Nat /\ end \in Int /\ grid <= end
  BY <1>types, <1>grid, DueSlotsAreOver
<1>W. /\ W \in Seq(Window) /\ SlotsInOrder(W) /\ Len(W) \in Nat
      /\ \A k \in 1..Len(W) :
           /\ W[k] \in Window /\ W[k].start \in Int /\ W[k].id \in Nat /\ End(W[k]) \in Int
           /\ W[k].life = life /\ W[k].id = windowIdCounter + k - 1
           /\ grid <= W[k].start /\ End(W[k]) <= end
           /\ End(W[k]) + Settlement <= now
           /\ W[k].events \subseteq events
           /\ \A f \in W[k].events : InSlot(f, W[k].start)
  <2>1. /\ W \in Seq(Window) /\ SlotsInOrder(W)
        /\ \A k \in 1..Len(W) :
             /\ W[k].life = life /\ W[k].id = windowIdCounter + k - 1
             /\ grid <= W[k].start /\ End(W[k]) <= end
             /\ End(W[k]) + Settlement <= now
             /\ W[k].events \subseteq events
             /\ \A f \in W[k].events : InSlot(f, W[k].start)
    BY <1>types, <1>grid, TickEmits
  <2> HIDE DEF W
  <2>2. Len(W) \in Nat /\ \A k \in 1..Len(W) : W[k] \in Window
    BY <2>1
  <2>3. \A w \in Window : w.start \in Int /\ w.id \in Nat /\ End(w) \in Int
    BY <1>types DEF Window, End
  <2> QED
    BY <2>1, <2>2, <2>3
<1> HIDE DEF W, due, end
<1> DEFINE m == Len(pendingOutcomeWindows)
           mt == microTensors'
<1>P. /\ P \in Seq(Window) /\ Len(P) \in Nat
      /\ \A k \in 1..m : k \in 1..Len(P) /\ P[k] = pendingOutcomeWindows[k]
      /\ \A x \in 1..Len(W) : x + m \in 1..Len(P) /\ P[x + m] = W[x]
      /\ \A k \in 1..Len(P) :
           \/ k \in 1..m /\ P[k] = pendingOutcomeWindows[k]
           \/ \E x \in 1..Len(W) : k = x + m /\ P[k] = W[x]
  <2>1. P = pendingOutcomeWindows \o W
    OBVIOUS
  <2>2. pendingOutcomeWindows \in Seq(Window) /\ W \in Seq(Window)
    BY <1>types, <1>W
  <2> HIDE DEF P, m
  <2>3. P \in Seq(Window) /\ Len(P) \in Nat
    BY <2>1, <2>2, Appended
  <2>4. \A k \in 1..Len(pendingOutcomeWindows) : k \in 1..Len(P) /\ P[k] = pendingOutcomeWindows[k]
    BY <2>1, <2>2, Appended
  <2>5. ASSUME NEW x \in 1..Len(W)
        PROVE  /\ x + Len(pendingOutcomeWindows) \in 1..Len(P)
               /\ P[x + Len(pendingOutcomeWindows)] = W[x]
    BY <2>1, <2>2, Appended
  <2>6. \A k \in 1..Len(P) :
          \/ k \in 1..Len(pendingOutcomeWindows) /\ P[k] = pendingOutcomeWindows[k]
          \/ \E x \in 1..Len(W) : k = x + Len(pendingOutcomeWindows) /\ P[k] = W[x]
    BY <2>1, <2>2, Appended
  <2> QED
    BY <2>3, <2>4, <2>5, <2>6 DEF m
<1> HIDE DEF P
<1>mt. /\ mt \in Seq(Window) /\ Len(mt) \in Nat /\ DOMAIN mt = 1..Len(mt)
       /\ \A k \in 1..Len(mt) :
            \/ k \in 1..Len(microTensors) /\ mt[k] = microTensors[k]
            \/ \E x \in 1..Len(W) : k = x + Len(microTensors) /\ mt[k] = W[x]
  <2>1. mt = microTensors \o W /\ microTensors \in Seq(Window) /\ W \in Seq(Window)
    BY <1>new, <1>types, <1>W
  <2> HIDE DEF mt
  <2>2. mt \in Seq(Window) /\ Len(mt) \in Nat /\ DOMAIN mt = 1..Len(mt)
    BY <2>1, Appended
  <2>3. \A k \in 1..Len(mt) :
          \/ k \in 1..Len(microTensors) /\ mt[k] = microTensors[k]
          \/ \E x \in 1..Len(W) : k = x + Len(microTensors) /\ mt[k] = W[x]
    BY <2>1, Appended
  <2> QED
    BY <2>2, <2>3
<1>len. m \in Nat /\ Len(microTensors) \in Nat
  BY <1>types
<1>old. \A k \in 1..m : /\ pendingOutcomeWindows[k] \in Window /\ pendingOutcomeWindows[k].life = life
                        /\ pendingOutcomeWindows[k].id \in Nat
                        /\ pendingOutcomeWindows[k].id < windowIdCounter
                        /\ End(pendingOutcomeWindows[k]) \in Int
                        /\ End(pendingOutcomeWindows[k]) <= grid
  <2>1. \A k \in 1..m : pendingOutcomeWindows[k] \in Window
    BY <1>types
  <2>2. \A w \in Window : w.id \in Nat /\ End(w) \in Int
    BY <1>types DEF Window, End
  <2>3. \A k \in 1..m : /\ pendingOutcomeWindows[k].life = life
                        /\ pendingOutcomeWindows[k].id < windowIdCounter
    BY <1>types DEF WindowInv, PendingInOrder
  <2> QED
    BY <1>grid, <2>1, <2>2, <2>3
<1>counter. /\ windowIdCounter' \in Nat /\ windowIdCounter <= windowIdCounter'
            /\ \A k \in 1..Len(P) : P[k].id < windowIdCounter' /\ P[k].life = life
  <2>1. windowIdCounter' \in Nat /\ windowIdCounter <= windowIdCounter'
    BY <1>new, <1>types, <1>W
  <2>2. ASSUME NEW k \in 1..m
        PROVE  pendingOutcomeWindows[k].id < windowIdCounter'
    BY <1>old, <1>types, <2>1
  <2>3. ASSUME NEW x \in 1..Len(W) PROVE W[x].id < windowIdCounter'
    <3>1. W[x].id = windowIdCounter + x - 1 /\ x <= Len(W) /\ x \in Nat /\ Len(W) \in Nat
      BY <1>W
    <3>2. windowIdCounter' = windowIdCounter + Len(W) /\ windowIdCounter \in Nat
      BY <1>new, <1>types
    <3> QED
      BY <3>1, <3>2
  <2>4. ASSUME NEW k \in 1..Len(P) PROVE P[k].id < windowIdCounter' /\ P[k].life = life
    <3>1. ASSUME k \in 1..m, P[k] = pendingOutcomeWindows[k]
          PROVE  P[k].id < windowIdCounter' /\ P[k].life = life
      BY <1>old, <2>2, <3>1
    <3>2. ASSUME NEW x \in 1..Len(W), P[k] = W[x]
          PROVE  P[k].id < windowIdCounter' /\ P[k].life = life
      BY <1>W, <2>3, <3>2
    <3> QED
      BY <1>P, <3>1, <3>2
  <2> QED
    BY <2>1, <2>4
<1>inorder. SlotsInOrder(P)
  <2> SUFFICES ASSUME NEW j \in 1..Len(P), NEW k \in 1..Len(P), j < k
               PROVE  P[j].id < P[k].id /\ End(P[j]) <= P[k].start
    BY DEF SlotsInOrder
  <2>1. CASE k \in 1..m
    <3>1. j \in 1..m /\ P[j] = pendingOutcomeWindows[j] /\ P[k] = pendingOutcomeWindows[k]
      BY <1>P, <1>len, <2>1
    <3> QED
      BY <1>types, <2>1, <3>1 DEF WindowInv, PendingInOrder
  <2>2. ASSUME NEW x \in 1..Len(W), k = x + m, P[k] = W[x]
        PROVE  P[j].id < P[k].id /\ End(P[j]) <= P[k].start
    <3>1. ASSUME j \in 1..m, P[j] = pendingOutcomeWindows[j]
          PROVE  P[j].id < P[k].id /\ End(P[j]) <= P[k].start
      <4>1. /\ P[j].id \in Nat /\ P[j].id < windowIdCounter
            /\ End(P[j]) \in Int /\ End(P[j]) <= grid
        BY <1>old, <3>1
      <4>2. /\ P[k].id \in Nat /\ P[k].id = windowIdCounter + x - 1
            /\ P[k].start \in Int /\ grid <= P[k].start
        BY <1>W, <2>2
      <4> DEFINE a == P[j].id
                 b == P[k].id
                 c == windowIdCounter
      <4>3. c \in Nat /\ x \in Nat /\ 1 <= x
        BY <1>types, <1>W
      <4>6. a \in Nat /\ b \in Nat /\ a < c /\ b = c + x - 1
        BY <4>1, <4>2
      <4> HIDE DEF a, b, c
      <4>7. a < b
        BY <4>3, <4>6
      <4>4. P[j].id < P[k].id
        BY <4>7 DEF a, b
      <4>5. End(P[j]) <= P[k].start
        BY <1>grid, <4>1, <4>2
      <4> QED
        BY <4>4, <4>5
    <3>2. ASSUME NEW y \in 1..Len(W), j = y + m, P[j] = W[y]
          PROVE  P[j].id < P[k].id /\ End(P[j]) <= P[k].start
      <4>1. y < x
        BY <1>len, <1>W, <2>2, <3>2
      <4> QED
        BY <1>W, <2>2, <3>2, <4>1 DEF SlotsInOrder
    <3> QED
      BY <1>P, <3>1, <3>2
  <2> QED
    BY <1>P, <2>1, <2>2
<1>below. LabelsBelow(P)
  <2> SUFFICES ASSUME NEW j \in 1..Len(outcomes), outcomes[j].life = life, NEW k \in 1..Len(P)
               PROVE  outcomes[j].id < P[k].id
    BY DEF LabelsBelow
  <2>1. /\ outcomes[j].id < windowIdCounter
        /\ \A i \in 1..m : outcomes[j].id < pendingOutcomeWindows[i].id
    BY <1>same, <1>types DEF WindowInv, LabelsAreOfEarlierWindows
  <2>2. outcomes[j].id \in Nat
    <3>1. outcomes[j] \in Label
      BY <1>types
    <3> QED
      BY <3>1 DEF Label
  <2>3. ASSUME NEW x \in 1..Len(W) PROVE outcomes[j].id < W[x].id
    <3>1. W[x].id = windowIdCounter + x - 1 /\ x \in Nat /\ x >= 1
      BY <1>W
    <3> QED
      BY <1>types, <2>1, <2>2, <3>1
  <2> QED
    BY <1>P, <2>1, <2>3
<1>order. /\ buffer' \subseteq buffer
          /\ pendingOutcomeWindows' \in Seq(Window) /\ outcomes' \in Seq(Label)
          /\ \A k \in 1..Len(pendingOutcomeWindows') : \E i \in 1..Len(P) :
               pendingOutcomeWindows'[k] = P[i]
          /\ \A k \in DOMAIN outcomes' : outcomes'[k].life <= life'
          /\ PendingInOrder' /\ LabelsAreOfEarlierWindows' /\ LabelsInOrder'
          /\ NoneForgotten' /\ WaitingAreYoung'
  <2>1. ASSUME NEW k \in 1..Len(mt) PROVE End(mt[k]) + Settlement <= now
    <3>1. \A j \in 1..Len(microTensors) : End(microTensors[j]) + Settlement <= now
      BY <1>types DEF WindowInv, WaitingAreYoung
    <3> QED
      BY <1>W, <1>mt, <3>1
  <2>2. ASSUME NEW k \in 1..Len(mt), mt[k].life = life
        PROVE  Labelled(mt[k]) \/ \E x \in 1..Len(P) : P[x] = mt[k]
    <3>1. ASSUME k \in 1..Len(microTensors), mt[k] = microTensors[k]
          PROVE  Labelled(mt[k]) \/ \E x \in 1..Len(P) : P[x] = mt[k]
      <4>1. Labelled(microTensors[k]) \/ Waiting(microTensors[k])
        BY <1>types, <2>2, <3>1 DEF WindowInv, NoneForgotten
      <4>2. CASE Waiting(microTensors[k])
        <5>1. PICK i \in 1..m : pendingOutcomeWindows[i] = microTensors[k]
          BY <1>types, <4>2 DEF Waiting
        <5>2. i \in 1..Len(P) /\ P[i] = mt[k]
          BY <1>P, <3>1, <5>1
        <5> QED
          BY <5>2
      <4> QED
        BY <3>1, <4>1, <4>2
    <3>2. ASSUME NEW x \in 1..Len(W), mt[k] = W[x]
          PROVE  \E i \in 1..Len(P) : P[i] = mt[k]
      BY <1>P, <3>2
    <3> QED
      BY <1>mt, <3>1, <3>2
  <2>3. buffer \in SUBSET Event /\ heard' \in SUBSET Event /\ streamEnded' \in BOOLEAN
    BY <1>same, <1>types
  <2>4. /\ WindowInv /\ running /\ running' = running /\ life' = life /\ now' = now
        /\ coveredThrough \in Int /\ streamEnded \in BOOLEAN
    BY <1>same, <1>types
  <2>5. /\ P \in Seq(Window) /\ \A k \in 1..Len(P) : P[k].life = life
        /\ SlotsInOrder(P) /\ LabelsBelow(P)
        /\ windowIdCounter' \in Nat /\ windowIdCounter <= windowIdCounter'
        /\ \A k \in 1..Len(P) : P[k].id < windowIdCounter'
    BY <1>P, <1>counter, <1>inorder, <1>below
  <2>6. Flush(buffer, P, coveredThrough, streamEnded) /\ microTensors' \in Seq(Window)
    BY <1>new, <1>mt
  <2>7. /\ \A k \in 1..Len(microTensors') : End(microTensors'[k]) + Settlement <= now
        /\ \A k \in 1..Len(microTensors') : microTensors'[k].life = life =>
             Labelled(microTensors'[k]) \/ \E x \in 1..Len(P) : P[x] = microTensors'[k]
    BY <2>1, <2>2
  <2> HIDE DEF m, mt
  <2> QED
    BY <2>3, <2>4, <2>5, <2>6, <2>7, FlushKeepsOrder
<1>held. events' \subseteq events /\ IsFiniteSet(events') /\ Cardinality(events') <= Capacity
  <2>1. events' \in SUBSET events
    BY <1>new DEF Evicted
  <2>2. /\ IsFiniteSet(events') /\ Cardinality(events') <= Cardinality(events)
        /\ Cardinality(events') \in Nat /\ Cardinality(events) \in Nat
    BY <1>types, <2>1, FS_Subset, FS_CardinalityType
  <2> QED
    BY <1>types, <2>1, <2>2
<1>buffer. buffer' \subseteq Undropped' /\ Cardinality(buffer') <= MaxBuffered
  <2>1. buffer' \in SUBSET buffer /\ Undropped' = Undropped
    BY <1>order, <1>same DEF Undropped
  <2>2. /\ Cardinality(buffer') <= Cardinality(buffer)
        /\ Cardinality(buffer') \in Nat /\ Cardinality(buffer) \in Nat
    BY <1>types, <2>1, FS_Subset, FS_CardinalityType
  <2> QED
    BY <1>types, <2>1, <2>2
<1>1. Typed'
  <2>1. lastWindowEnd' \in Int \cup {NoGrid} /\ events' \subseteq heard'
    BY <1>new, <1>end, <1>held, <1>same, <1>types
  <2> QED
    BY <1>same, <1>types, <1>order, <1>held, <1>buffer, <1>mt, <1>counter, <2>1 DEF Typed
<1>2. EventsNumbered'
  <2>1. /\ \A f \in heard : f.n < arrived
        /\ \A f, g \in heard : f.n = g.n => f = g
        /\ \A k \in 1..Len(microTensors) : \A f \in microTensors[k].events :
             f.n < arrived /\ InSlot(f, microTensors[k].start)
    BY <1>types DEF WindowInv, EventsNumbered
  <2>2. ASSUME NEW x \in 1..Len(W), NEW f \in W[x].events
        PROVE  f.n < arrived /\ InSlot(f, W[x].start)
    BY <1>W, <1>types, <2>1
  <2>3. \A k \in 1..Len(mt) : \A f \in mt[k].events : f.n < arrived /\ InSlot(f, mt[k].start)
    BY <1>mt, <2>1, <2>2
  <2> QED
    BY <1>same, <1>mt, <2>1, <2>3 DEF EventsNumbered, InSlot
<1>3. GridInStep'
  <2>1. lastWindowEnd' # NoGrid /\ lastWindowEnd' = end
    BY <1>new, <1>end, <1>types
  <2>2. ASSUME NEW k \in 1..Len(mt), mt[k].life = life PROVE End(mt[k]) <= end
    <3>1. ASSUME k \in 1..Len(microTensors), mt[k] = microTensors[k]
          PROVE  End(mt[k]) <= end
      <4>1. End(microTensors[k]) <= grid
        BY <1>grid, <2>2, <3>1
      <4>2. microTensors[k] \in Window
        BY <1>types, <3>1
      <4>3. End(microTensors[k]) \in Int
        BY <1>types, <4>2 DEF Window, End
      <4> QED
        BY <1>grid, <1>end, <3>1, <4>1, <4>3
    <3> QED
      BY <1>mt, <1>W, <3>1
  <2>3. ASSUME NEW k \in 1..Len(pendingOutcomeWindows')
        PROVE  End(pendingOutcomeWindows'[k]) <= end
    <3>1. PICK i \in 1..Len(P) : pendingOutcomeWindows'[k] = P[i]
      BY <1>order
    <3>2. ASSUME i \in 1..m, P[i] = pendingOutcomeWindows[i] PROVE End(P[i]) <= end
      BY <1>old, <1>grid, <1>end, <3>2
    <3>3. End(P[i]) <= end
      BY <1>P, <1>W, <3>2
    <3> QED
      BY <3>1, <3>3
  <2>4. DOMAIN pendingOutcomeWindows' = 1..Len(pendingOutcomeWindows')
    BY <1>order
  <2> QED
    BY <1>same, <1>mt, <2>1, <2>2, <2>3, <2>4 DEF GridInStep, End
<1>4. PastLivesAreOver'
  <2>1. \A k \in 1..Len(microTensors) :
          /\ microTensors[k].life <= life
          /\ microTensors[k].life < life => microTensors[k].events \cap heard = {}
    BY <1>types DEF WindowInv, PastLivesAreOver
  <2>2. \A x \in 1..Len(W) : W[x].life <= life /\ ~(W[x].life < life)
    BY <1>W, <1>types
  <2>3. \A k \in 1..Len(mt) :
          /\ mt[k].life <= life
          /\ mt[k].life < life => mt[k].events \cap heard = {}
    BY <1>mt, <2>1, <2>2
  <2> QED
    BY <1>same, <1>mt, <1>order, <2>3 DEF PastLivesAreOver
<1>5. EventsCountedOnce'
  <2>1. ASSUME NEW j \in 1..Len(microTensors), NEW x \in 1..Len(W)
        PROVE  microTensors[j].events \cap W[x].events = {}
    <3>1. microTensors[j] \in Window
      BY <1>types
    <3>2. microTensors[j].life \in Nat /\ End(microTensors[j]) = microTensors[j].start + Stride
          /\ microTensors[j].start \in Int
      BY <3>1, WindowAssumption DEF Window, End
    <3>3. microTensors[j].life <= life
      BY <1>types DEF WindowInv, PastLivesAreOver
    <3>4. CASE microTensors[j].life < life
      <4>1. microTensors[j].events \cap heard = {}
        BY <1>types, <3>4 DEF WindowInv, PastLivesAreOver
      <4>2. W[x].events \subseteq heard
        BY <1>W, <1>types
      <4> QED
        BY <4>1, <4>2
    <3>5. CASE microTensors[j].life = life
      <4> SUFFICES ASSUME NEW f \in microTensors[j].events, f \in W[x].events PROVE FALSE
        OBVIOUS
      <4>1. InSlot(f, microTensors[j].start) /\ InSlot(f, W[x].start)
        BY <1>types, <1>W DEF WindowInv, EventsNumbered
      <4>2. End(microTensors[j]) <= grid /\ grid <= W[x].start /\ W[x].start \in Int
        BY <1>grid, <1>W, <3>5
      <4>3. f \in Event
        BY <1>W, <1>types
      <4>4. f.t \in Int
        BY <4>3 DEF Event
      <4>5. f.t < microTensors[j].start + Stride /\ f.t >= W[x].start
        BY <4>1 DEF InSlot
      <4> DEFINE a == microTensors[j].start + Stride
                 b == W[x].start
                 g == grid
      <4>6. a \in Int /\ b \in Int /\ g \in Int /\ a <= g /\ g <= b
            /\ f.t \in Int /\ f.t < a /\ f.t >= b
        BY <1>types, <1>grid, <3>2, <4>2, <4>4, <4>5, Lengths
      <4> HIDE DEF a, b, g
      <4> QED
        BY <4>6
    <3> QED
      BY <1>types, <3>2, <3>3, <3>4, <3>5
  <2>2. ASSUME NEW x \in 1..Len(W), NEW y \in 1..Len(W), x < y
        PROVE  W[x].events \cap W[y].events = {}
    <3> SUFFICES ASSUME NEW f \in W[x].events, f \in W[y].events PROVE FALSE
      OBVIOUS
    <3>1. InSlot(f, W[x].start) /\ InSlot(f, W[y].start)
      BY <1>W
    <3>2. End(W[x]) <= W[y].start /\ W[x].start \in Int /\ W[y].start \in Int
      BY <1>W, <2>2 DEF SlotsInOrder
    <3>3. f \in Event
      BY <1>W, <1>types
    <3>4. f.t \in Int
      BY <3>3 DEF Event
    <3>5. f.t < W[x].start + Stride /\ f.t >= W[y].start /\ W[x].start + Stride <= W[y].start
      BY <3>1, <3>2 DEF InSlot, End
    <3> DEFINE a == W[x].start + Stride
               b == W[y].start
    <3>6. a \in Int /\ b \in Int /\ f.t \in Int /\ f.t < a /\ f.t >= b /\ a <= b
      BY <3>2, <3>4, <3>5, Lengths
    <3> HIDE DEF a, b
    <3> QED
      BY <3>6
  <2>3. \A j, k \in 1..Len(microTensors) : j # k =>
          microTensors[j].events \cap microTensors[k].events = {}
    BY <1>types DEF WindowInv, EventsCountedOnce
  <2>4. ASSUME NEW j \in 1..Len(mt), NEW k \in 1..Len(mt), j < k
        PROVE  mt[j].events \cap mt[k].events = {}
    <3>1. ASSUME k \in 1..Len(microTensors), mt[k] = microTensors[k]
          PROVE  mt[j].events \cap mt[k].events = {}
      <4>1. j \in 1..Len(microTensors) /\ j # k
        BY <1>len, <2>4, <3>1
      <4>2. mt[j] = microTensors[j]
        BY <1>mt, <1>len, <4>1
      <4> QED
        BY <2>3, <3>1, <4>1, <4>2
    <3>2. ASSUME NEW y \in 1..Len(W), k = y + Len(microTensors), mt[k] = W[y]
          PROVE  mt[j].events \cap mt[k].events = {}
      <4>1. ASSUME NEW x \in 1..Len(W), j = x + Len(microTensors), mt[j] = W[x]
            PROVE  mt[j].events \cap mt[k].events = {}
        <5>1. x < y
          BY <1>len, <1>W, <2>4, <3>2, <4>1
        <5> QED
          BY <2>2, <3>2, <4>1, <5>1
      <4>2. ASSUME j \in 1..Len(microTensors), mt[j] = microTensors[j]
            PROVE  mt[j].events \cap mt[k].events = {}
        BY <2>1, <3>2, <4>2
      <4> QED
        BY <1>mt, <4>1, <4>2
    <3> QED
      BY <1>mt, <3>1, <3>2
  <2>5. ASSUME NEW j \in 1..Len(mt), NEW k \in 1..Len(mt), j # k
        PROVE  mt[j].events \cap mt[k].events = {}
    <3>1. j < k \/ k < j
      BY <2>5
    <3> QED
      BY <2>4, <3>1
  <2> QED
    BY <1>mt, <2>5 DEF EventsCountedOnce
<1>6. OpenSlotsKeepTheirEvents'
  <2> SUFFICES ASSUME NEW f \in heard \ shifted, f.t >= end PROVE f \in events'
    BY <1>same, <1>new DEF OpenSlotsKeepTheirEvents
  <2>1. lastWindowEnd # NoGrid /\ grid = lastWindowEnd
    BY <1>grid
  <2>2. f \in Event
    BY <1>types
  <2>3. f.t \in Int
    BY <2>2 DEF Event
  <2>4. f \in events
    <3>1. f.t >= lastWindowEnd
      BY <1>grid, <1>end, <2>1, <2>3
    <3> QED
      BY <1>same, <2>1, <3>1 DEF WindowInv, OpenSlotsKeepTheirEvents
  <2>5. grid + (due - 1) * Stride <= end /\ grid + (due - 1) * Stride \in Int
    <3>1. due * Stride = (due - 1) * Stride + Stride /\ (due - 1) * Stride \in Int
      BY <1>end, <1>types
    <3> QED
      BY <1>grid, <1>types, <3>1 DEF end
  <2> DEFINE last == grid + (due - 1) * Stride
  <2>6. last \in Int /\ last <= end
    BY <2>5
  <2>7. events' = events \/ events' = Evicted(events, last)
    BY <1>new, <2>1
  <2> HIDE DEF last
  <2>8. f.t >= last - Retention
    BY <1>types, <1>end, <2>3, <2>6
  <2> QED
    BY <2>4, <2>7, <2>8 DEF Evicted
<1>7. EvictedAreOld' /\ LabelsAreJustified'
  <2>1. Numbered(Undropped') /\ buffer \in SUBSET Undropped'
    <3>1. Undropped' = Undropped /\ Undropped \in SUBSET heard
      BY <1>same DEF Undropped
    <3>2. IsFiniteSet(Undropped)
      BY <1>types, <3>1, FS_Subset
    <3> QED
      BY <1>types, <3>1, <3>2 DEF WindowInv, EventsNumbered, Numbered
  <2>0. LookaheadMin \in Nat /\ \A f \in Undropped : f.t \in Int
    BY <1>types, WindowAssumption DEF Event, Undropped
  <2>2. ASSUME NEW f \in Undropped \ buffer
        PROVE  /\ f.t < grid + LookaheadMin /\ f.t < end + LookaheadMin
               /\ \A k \in 1..m : f.t < End(pendingOutcomeWindows[k]) + LookaheadMin
    <3>1. f \in heard /\ lastWindowEnd # NoGrid /\ f.t < lastWindowEnd + LookaheadMin
      BY <1>same, <1>grid DEF WindowInv, EvictedAreOld, Undropped
    <3>2. \A k \in 1..m : f.t < End(pendingOutcomeWindows[k]) + LookaheadMin
      BY <1>same, <1>types DEF WindowInv, EvictedAreOld, m
    <3>3. f.t < grid + LookaheadMin
      BY <1>grid, <3>1
    <3> QED
      BY <1>grid, <1>end, <2>0, <3>2, <3>3
  <2>3. ASSUME NEW f \in Undropped \ buffer, NEW k \in 1..Len(P) PROVE f.t < End(P[k]) + LookaheadMin
    <3>1. ASSUME NEW x \in 1..Len(W), P[k] = W[x] PROVE f.t < End(P[k]) + LookaheadMin
      <4> DEFINE a == End(W[x])
      <4>1. a \in Int /\ grid <= a
        <5>1. W[x].start \in Int /\ grid <= W[x].start
          BY <1>W
        <5> QED
          BY <1>grid, <1>types, <5>1 DEF End
      <4> HIDE DEF a
      <4>2. f.t < a + LookaheadMin
        BY <1>grid, <2>0, <2>2, <4>1
      <4> QED
        BY <3>1, <4>2 DEF a
    <3> QED
      BY <1>P, <2>2, <3>1
  <2>4. LacksOnlyOld(buffer, P)
    BY <1>same, <2>3 DEF LacksOnlyOld, Undropped
  <2>5. \A f \in Undropped' \ buffer : f.t < end + LookaheadMin
    BY <1>same, <2>2 DEF Undropped
  <2>6. ASSUME NEW k \in 1..Len(P) PROVE End(P[k]) <= end
    <3>1. ASSUME k \in 1..m, P[k] = pendingOutcomeWindows[k] PROVE End(P[k]) <= end
      BY <1>old, <1>grid, <1>end, <3>1
    <3> QED
      BY <1>P, <1>W, <3>1
  <2>7. /\ Flush(buffer, P, coveredThrough, streamEnded) /\ LabelsAreJustified
        /\ outcomes' \in Seq(Label)
    BY <1>new, <1>order DEF WindowInv
  <2>8. /\ now \in Int /\ outcomes \in Seq(Label) /\ coveredThrough \in Int
        /\ streamEnded \in BOOLEAN /\ end \in Int /\ P \in Seq(Window) /\ SlotsInOrder(P)
    BY <1>types, <1>end, <1>P, <1>inorder
  <2>10. LabelsAreJustified'
    BY <2>1, <2>4, <2>5, <2>6, <2>7, <2>8, FlushJustifies
  <2>11. LacksOnlyOld(buffer', pendingOutcomeWindows')
    BY <2>1, <2>4, <2>5, <2>6, <2>7, <2>8, FlushJustifies
  <2>12. \A f \in Undropped' \ buffer' : f.t < end + LookaheadMin
    BY <2>1, <2>4, <2>5, <2>6, <2>7, <2>8, FlushJustifies
  <2>9. DOMAIN pendingOutcomeWindows' = 1..Len(pendingOutcomeWindows')
    BY <1>order
  <2> QED
    BY <1>new, <2>9, <2>10, <2>11, <2>12 DEF EvictedAreOld, LacksOnlyOld, End
<1> QED
  BY <1>1, <1>2, <1>3, <1>4, <1>5, <1>6, <1>7, <1>order DEF WindowInv

(* What a clear of the pipeline begins: a life of which nothing is recorded.*)
LEMMA ClearInvariant ==
  ASSUME WindowInv, life < MaxLives, Clear, streamEnded' = FALSE, running' \in BOOLEAN,
         UNCHANGED <<now, session, arrived>>,
         \/ UNCHANGED trace
         \/ microTensors' = << >> /\ outcomes' = << >>
  PROVE  WindowInv'
<1>same. now' = now /\ session' = session /\ arrived' = arrived
  OBVIOUS
<1>new. /\ life' = life + 1 /\ events' = {} /\ lastWindowEnd' = NoGrid /\ windowIdCounter' = 0
        /\ buffer' = {} /\ pendingOutcomeWindows' = << >> /\ coveredThrough' = 0
        /\ heard' = {} /\ shifted' = {} /\ dropped' = {}
  BY DEF Clear
<1>types. /\ now \in Int /\ session \in Nat /\ arrived \in 0..MaxEvents
          /\ life \in 0..MaxLives /\ life \in Nat /\ MaxLives \in Nat
          /\ microTensors \in Seq(Window) /\ outcomes \in Seq(Label)
  BY WindowAssumption DEF WindowInv, Typed
<1>trace. /\ \/ microTensors' = microTensors /\ outcomes' = outcomes
             \/ microTensors' = << >> /\ outcomes' = << >>
  BY DEF trace
<1>empty. /\ DOMAIN pendingOutcomeWindows' = {} /\ << >> \in Seq(Window) /\ << >> \in Seq(Label)
          /\ DOMAIN << >> = {}
  BY <1>new
<1>windows. \A k \in DOMAIN microTensors' : k \in DOMAIN microTensors /\ microTensors'[k] = microTensors[k]
  BY <1>trace, <1>empty
<1>labels. \A k \in DOMAIN outcomes' : k \in DOMAIN outcomes /\ outcomes'[k] = outcomes[k]
  BY <1>trace, <1>empty
<1>past. /\ \A k \in DOMAIN microTensors : /\ microTensors[k].life \in Nat /\ microTensors[k].life <= life
         /\ \A k \in DOMAIN outcomes : /\ outcomes[k].life \in Nat /\ outcomes[k].life <= life
  <2>1. ASSUME NEW k \in DOMAIN microTensors PROVE microTensors[k].life \in Nat
    <3>1. microTensors[k] \in Window
      BY <1>types
    <3> QED
      BY <3>1, WindowAssumption DEF Window
  <2>2. ASSUME NEW k \in DOMAIN outcomes PROVE outcomes[k].life \in Nat
    <3>1. outcomes[k] \in Label
      BY <1>types
    <3> QED
      BY <3>1, WindowAssumption DEF Label
  <2> QED
    BY <2>1, <2>2 DEF WindowInv, PastLivesAreOver
<1>1. Typed'
  <2>1. life' \in 0..MaxLives
    BY <1>new, <1>types
  <2>2. /\ pendingOutcomeWindows' \in Seq(Window) /\ microTensors' \in Seq(Window)
        /\ outcomes' \in Seq(Label)
    BY <1>new, <1>types, <1>trace, <1>empty
  <2>3. IsFiniteSet({}) /\ Cardinality({}) = 0 /\ 0 <= Capacity /\ 0 <= MaxBuffered
    BY FS_EmptySet, WindowAssumption
  <2>4. /\ IsFiniteSet(events') /\ Cardinality(events') <= Capacity
        /\ heard' \subseteq Event /\ IsFiniteSet(heard')
        /\ events' \subseteq heard' /\ dropped' \subseteq heard'
        /\ buffer' \subseteq Undropped' /\ Cardinality(buffer') <= MaxBuffered
    BY <1>new, <2>3
  <2>5. /\ lastWindowEnd' \in Int \cup {NoGrid} /\ windowIdCounter' \in Nat /\ coveredThrough' \in Int
        /\ now' \in Int /\ session' \in Nat /\ arrived' \in 0..MaxEvents
    BY <1>same, <1>new, <1>types
  <2> QED
    BY <2>1, <2>2, <2>4, <2>5 DEF Typed
<1>2. EventsNumbered'
  <2>1. \A k \in DOMAIN microTensors : \A f \in microTensors[k].events :
          f.n < arrived /\ InSlot(f, microTensors[k].start)
    BY DEF WindowInv, EventsNumbered
  <2>2. \A k \in DOMAIN microTensors' : \A f \in microTensors'[k].events :
          f.n < arrived' /\ InSlot(f, microTensors'[k].start)
    BY <1>same, <1>windows, <2>1
  <2> QED
    BY <1>new, <2>2 DEF EventsNumbered, InSlot
<1>3. GridInStep'
  <2>1. \A k \in DOMAIN microTensors' : ~(microTensors'[k].life = life')
    BY <1>new, <1>types, <1>windows, <1>past
  <2> QED
    BY <1>new, <1>empty, <2>1 DEF GridInStep
<1>4. PastLivesAreOver'
  <2>1. \A k \in DOMAIN microTensors' : microTensors'[k].life <= life'
    BY <1>new, <1>types, <1>windows, <1>past
  <2>2. \A k \in DOMAIN outcomes' : outcomes'[k].life <= life'
    BY <1>new, <1>types, <1>labels, <1>past
  <2> QED
    BY <1>new, <2>1, <2>2 DEF PastLivesAreOver
<1>5. PendingInOrder'
  BY <1>empty DEF PendingInOrder
<1>6. LabelsAreOfEarlierWindows'
  <2>1. \A k \in DOMAIN outcomes' : ~(outcomes'[k].life = life')
    BY <1>new, <1>types, <1>labels, <1>past
  <2> QED
    BY <2>1 DEF LabelsAreOfEarlierWindows
<1>7. LabelsInOrder'
  BY <1>labels DEF WindowInv, LabelsInOrder
<1>8. NoneForgotten'
  <2>1. \A k \in DOMAIN microTensors' : ~(microTensors'[k].life = life')
    BY <1>new, <1>types, <1>windows, <1>past
  <2> QED
    BY <2>1 DEF NoneForgotten
<1>9. WaitingAreYoung'
  BY <1>same, <1>empty, <1>windows DEF WindowInv, WaitingAreYoung, End
<1>10. EventsCountedOnce'
  BY <1>windows DEF WindowInv, EventsCountedOnce
<1>11. OpenSlotsKeepTheirEvents' /\ EvictedAreOld'
  BY <1>new DEF OpenSlotsKeepTheirEvents, EvictedAreOld, Undropped
<1>12. LabelsAreJustified'
  BY <1>labels DEF WindowInv, LabelsAreJustified
<1> QED
  BY <1>1, <1>2, <1>3, <1>4, <1>5, <1>6, <1>7, <1>8, <1>9, <1>10, <1>11, <1>12 DEF WindowInv

(* resetTrial() keeps the trace.                                            *)
LEMMA ResetInvariant == ASSUME WindowInv, ResetTrial PROVE WindowInv'
<1>1. /\ life < MaxLives /\ Clear /\ streamEnded' = FALSE
      /\ UNCHANGED <<now, session, arrived>> /\ UNCHANGED trace /\ running' = running
  BY DEF ResetTrial
<1>2. running' \in BOOLEAN
  BY <1>1 DEF WindowInv, Typed
<1> QED
  BY <1>1, <1>2, ClearInvariant

(* bootTestbed() empties the recorder.                                      *)
LEMMA BootInvariant == ASSUME WindowInv, BootTestbed PROVE WindowInv'
<1>1. /\ life < MaxLives /\ Clear /\ streamEnded' = FALSE
      /\ UNCHANGED <<now, session, arrived>> /\ microTensors' = << >> /\ outcomes' = << >>
      /\ running' \in BOOLEAN
  BY DEF BootTestbed
<1> QED
  BY <1>1, ClearInvariant

(* A new session: the recorder is emptied and the clock may step anywhere;  *)
(* the pipeline goes on.                                                    *)
LEMMA RotateInvariant ==
  ASSUME WindowInv, NEW step \in ClockSteps, RotateSession(step)
  PROVE  WindowInv'
<1>same. /\ running' = running /\ arrived' = arrived /\ events' = events
         /\ lastWindowEnd' = lastWindowEnd /\ windowIdCounter' = windowIdCounter
         /\ buffer' = buffer /\ pendingOutcomeWindows' = pendingOutcomeWindows
         /\ coveredThrough' = coveredThrough /\ streamEnded' = streamEnded /\ heard' = heard
         /\ shifted' = shifted /\ dropped' = dropped /\ life' = life
  BY DEF RotateSession, pipeline
<1>new. /\ now' = now + step /\ now + step \in 0..MaxTime /\ session' = session + 1
        /\ microTensors' = << >> /\ outcomes' = << >>
  BY DEF RotateSession
<1>empty. DOMAIN microTensors' = {} /\ DOMAIN outcomes' = {}
  BY <1>new
<1>1. Typed'
  <2>1. now' \in Int /\ session' \in Nat
    <3>1. session \in Nat
      BY DEF WindowInv, Typed
    <3> QED
      BY <1>new, <3>1, WindowAssumption
  <2>2. << >> \in Seq(Window) /\ << >> \in Seq(Label)
    OBVIOUS
  <2>3. microTensors' \in Seq(Window) /\ outcomes' \in Seq(Label)
    BY <1>new, <2>2
  <2> QED
    BY <1>same, <2>1, <2>3 DEF WindowInv, Typed, Undropped
<1>2. EventsNumbered'
  BY <1>same, <1>empty DEF WindowInv, EventsNumbered
<1>3. GridInStep'
  BY <1>same, <1>empty DEF WindowInv, GridInStep, End
<1>4. PastLivesAreOver'
  BY <1>empty DEF PastLivesAreOver
<1>5. PendingInOrder'
  BY <1>same DEF WindowInv, PendingInOrder, End
<1>6. LabelsAreOfEarlierWindows' /\ LabelsInOrder' /\ NoneForgotten' /\ WaitingAreYoung'
  BY <1>empty DEF LabelsAreOfEarlierWindows, LabelsInOrder, NoneForgotten, WaitingAreYoung
<1>7. EventsCountedOnce'
  BY <1>empty DEF EventsCountedOnce
<1>8. OpenSlotsKeepTheirEvents' /\ EvictedAreOld'
  BY <1>same DEF WindowInv, OpenSlotsKeepTheirEvents, EvictedAreOld, Undropped, End
<1>9. LabelsAreJustified'
  BY <1>empty DEF LabelsAreJustified
<1> QED
  BY <1>1, <1>2, <1>3, <1>4, <1>5, <1>6, <1>7, <1>8, <1>9 DEF WindowInv

(* stop(): everything pending is labelled.                                  *)
LEMMA StopInvariant == ASSUME WindowInv, StopTestbed PROVE WindowInv'
<1> DEFINE P == pendingOutcomeWindows
           labels == outcomes'
<1>same. /\ running /\ heard' = heard /\ now' = now /\ session' = session /\ life' = life
         /\ arrived' = arrived /\ microTensors' = microTensors /\ shifted' = shifted
         /\ dropped' = dropped
  BY DEF StopTestbed
<1>new. /\ running' = FALSE
        /\ events' = {} /\ lastWindowEnd' = NoGrid /\ windowIdCounter' = 0
        /\ streamEnded' = TRUE
        /\ outcomes' = outcomes \o OutcomesOf(P, buffer, coveredThrough)
        /\ buffer' = {} /\ pendingOutcomeWindows' = << >> /\ coveredThrough' = 0
  BY DEF StopTestbed
<1>types. /\ Typed /\ now \in Int /\ session \in Nat /\ arrived \in 0..MaxEvents
          /\ life \in 0..MaxLives /\ heard \in SUBSET Event /\ buffer \in SUBSET Event
          /\ IsFiniteSet(heard) /\ dropped \subseteq heard /\ buffer \subseteq Undropped
          /\ coveredThrough \in Int /\ P \in Seq(Window) /\ microTensors \in Seq(Window)
          /\ DOMAIN P = 1..Len(P) /\ DOMAIN microTensors = 1..Len(microTensors)
          /\ outcomes \in Seq(Label) /\ DOMAIN outcomes = 1..Len(outcomes)
  BY DEF WindowInv, Typed, Undropped
<1>empty. DOMAIN pendingOutcomeWindows' = {} /\ << >> \in Seq(Window)
  <2>1. << >> \in Seq(Window)
    OBVIOUS
  <2>2. pendingOutcomeWindows' = << >> /\ DOMAIN << >> = {}
    BY <1>new
  <2> QED
    BY <2>1, <2>2
<1>order. /\ labels \in Seq(Label) /\ LabelsInOrder'
          /\ \A i \in 1..Len(labels) :
               \/ \E j \in 1..Len(outcomes) : labels[i] = outcomes[j]
               \/ \E k \in 1..Len(P) : labels[i].life = life /\ labels[i].id = P[k].id
          /\ \A j \in 1..Len(outcomes) : \E i \in 1..Len(labels) : labels[i] = outcomes[j]
          /\ \A k \in 1..Len(P) : \E i \in 1..Len(labels) : LabelOf(P[k], labels[i])
  <2>1. SlotsInOrder(P) /\ \A k \in 1..Len(P) : P[k].life = life
    BY <1>types DEF WindowInv, PendingInOrder, SlotsInOrder
  <2>2. LabelsBelow(P)
    BY <1>types DEF WindowInv, LabelsAreOfEarlierWindows, LabelsBelow
  <2>3. LabelsInOrder /\ \A k \in DOMAIN outcomes : outcomes[k].life <= life
    BY DEF WindowInv, PastLivesAreOver
  <2>4. heard' \in SUBSET Event /\ streamEnded' \in BOOLEAN
    BY <1>same, <1>new, <1>types
  <2> HIDE DEF P
  <2> QED
    BY <1>types, <1>new, <2>1, <2>2, <2>3, <2>4, LabelsAppended
<1>dom. DOMAIN outcomes' = 1..Len(labels)
  BY <1>order
<1>called. LabelsAreJustified'
  <2>1. P \in Seq(Window) /\ SlotsInOrder(P)
    BY <1>types DEF WindowInv, PendingInOrder, SlotsInOrder
  <2>2. Numbered(Undropped') /\ buffer \in SUBSET Undropped'
    <3>1. Undropped' = Undropped /\ Undropped \in SUBSET heard
      BY <1>same DEF Undropped
    <3>2. IsFiniteSet(Undropped)
      BY <1>types, <3>1, FS_Subset
    <3> QED
      BY <1>types, <3>1, <3>2 DEF WindowInv, EventsNumbered, Numbered
  <2>3. LacksOnlyOld(buffer, P)
    BY <1>same, <1>types DEF WindowInv, EvictedAreOld, LacksOnlyOld, Undropped
  <2>4. LabelsAreJustified /\ outcomes' \in Seq(Label)
    BY <1>order DEF WindowInv
  <2> HIDE DEF P
  <2> QED
    BY <1>types, <1>new, <2>1, <2>2, <2>3, <2>4, LabelsCalledFor
<1> HIDE DEF P
<1>1. Typed'
  <2>1. IsFiniteSet({}) /\ Cardinality({}) = 0 /\ 0 <= Capacity /\ 0 <= MaxBuffered
    BY FS_EmptySet, WindowAssumption
  <2>2. /\ IsFiniteSet(events') /\ Cardinality(events') <= Capacity
        /\ heard' \subseteq Event /\ IsFiniteSet(heard')
        /\ events' \subseteq heard' /\ dropped' \subseteq heard'
        /\ buffer' \subseteq Undropped' /\ Cardinality(buffer') <= MaxBuffered
    BY <1>same, <1>new, <1>types, <2>1
  <2>3. lastWindowEnd' \in Int \cup {NoGrid} /\ windowIdCounter' \in Nat /\ coveredThrough' \in Int
    BY <1>new
  <2>5. running' \in BOOLEAN /\ streamEnded' \in BOOLEAN
    BY <1>new
  <2>4. pendingOutcomeWindows' \in Seq(Window) /\ outcomes' \in Seq(Label)
    BY <1>new, <1>empty, <1>order
  <2> QED
    BY <1>same, <1>types, <2>2, <2>3, <2>4, <2>5 DEF Typed
<1>2. EventsNumbered'
  BY <1>same DEF WindowInv, EventsNumbered, InSlot
<1>3. GridInStep'
  BY <1>new, <1>empty DEF GridInStep
<1>4. PastLivesAreOver'
  <2>1. \A k \in DOMAIN outcomes : outcomes[k].life <= life
    BY DEF WindowInv, PastLivesAreOver
  <2>2. life <= life
    BY <1>types
  <2>3. \A i \in 1..Len(labels) : labels[i].life <= life
    BY <1>order, <1>types, <2>1, <2>2
  <2> QED
    BY <1>same, <1>dom, <2>3 DEF WindowInv, PastLivesAreOver
<1>5. PendingInOrder'
  BY <1>empty DEF PendingInOrder
<1>6. LabelsAreOfEarlierWindows'
  BY <1>new, <1>empty DEF LabelsAreOfEarlierWindows
<1>7. NoneForgotten'
  <2> SUFFICES ASSUME NEW k \in DOMAIN microTensors, microTensors[k].life = life
               PROVE  \E i \in 1..Len(labels) : LabelOf(microTensors[k], labels[i])
    BY <1>same, <1>dom DEF NoneForgotten, Labelled, LabelOf
  <2> DEFINE w == microTensors[k]
  <2>1. Labelled(w) \/ Waiting(w)
    BY DEF WindowInv, NoneForgotten
  <2> HIDE DEF w
  <2>2. CASE Labelled(w)
    <3>1. PICK j \in 1..Len(outcomes) : LabelOf(w, outcomes[j])
      BY <1>types, <2>2 DEF Labelled
    <3>2. PICK i \in 1..Len(labels) : labels[i] = outcomes[j]
      BY <1>order
    <3> QED
      BY <3>1, <3>2 DEF w
  <2>3. CASE Waiting(w)
    <3>1. PICK j \in 1..Len(P) : P[j] = w
      BY <1>types, <2>3 DEF Waiting, P
    <3> QED
      BY <1>order, <3>1 DEF w
  <2> QED
    BY <2>1, <2>2, <2>3
<1>8. WaitingAreYoung'
  BY <1>same, <1>empty DEF WindowInv, WaitingAreYoung, End
<1>9. EventsCountedOnce'
  BY <1>same DEF WindowInv, EventsCountedOnce
<1>10. OpenSlotsKeepTheirEvents' /\ EvictedAreOld'
  BY <1>new DEF OpenSlotsKeepTheirEvents, EvictedAreOld
<1> QED
  BY <1>1, <1>2, <1>3, <1>4, <1>5, <1>6, <1>7, <1>8, <1>9, <1>10, <1>order, <1>called DEF WindowInv

(***************************************************************************)
(* The theorems.                                                            *)
(***************************************************************************)
(* The inductive invariant holds of every step of every behaviour.          *)
THEOREM WindowInvariant == Spec => []WindowInv
<1>1. ASSUME WindowInv, [Next]_vars PROVE WindowInv'
  <2>1. ASSUME NEW kind \in KindsAt[arrived], arrived < MaxEvents, Hear(kind) PROVE WindowInv'
    <3>1. arrived \in 0..MaxEvents /\ MaxEvents \in Nat
      BY <1>1, WindowAssumption DEF WindowInv, Typed
    <3>2. arrived \in 0..(MaxEvents - 1)
      BY <2>1, <3>1
    <3>3. KindsAt[arrived] \in SUBSET Kinds
      BY <3>2, WindowAssumption
    <3>4. kind \in Kinds
      BY <3>3
    <3> QED
      BY <1>1, <2>1, <3>4, HearInvariant
  <2>2. ASSUME NEW step \in ClockSteps, RotateSession(step) PROVE WindowInv'
    BY <1>1, <2>2, RotateInvariant
  <2>3. CASE Advance
    BY <1>1, <2>3, AdvanceInvariant
  <2>4. CASE Tick
    BY <1>1, <2>4, TickInvariant
  <2>5. CASE ResetTrial
    BY <1>1, <2>5, ResetInvariant
  <2>6. CASE StopTestbed
    BY <1>1, <2>6, StopInvariant
  <2>7. CASE BootTestbed
    BY <1>1, <2>7, BootInvariant
  <2>8. CASE UNCHANGED vars
    BY <1>1, <2>8, StutterInvariant
  <2> QED
    BY <1>1, <2>1, <2>2, <2>3, <2>4, <2>5, <2>6, <2>7, <2>8 DEF Next
<1> QED
  BY <1>1, InitInvariant, PTL DEF Spec

(* Every variable keeps its type, and the buffers their bounds.             *)
THEOREM TypesKept == Spec => []TypeOK
<1>1. WindowInv => TypeOK
  <2> SUFFICES ASSUME WindowInv PROVE TypeOK
    OBVIOUS
  <2>1. Typed
    BY DEF WindowInv
  <2>2. \A k \in DOMAIN pendingOutcomeWindows : pendingOutcomeWindows[k].life = life
    BY DEF WindowInv, PendingInOrder
  <2>3. \A k \in DOMAIN microTensors : microTensors[k].life <= life
    BY DEF WindowInv, PastLivesAreOver
  <2>4. ASSUME NEW w \in Window, w.life <= life PROVE IsWindow(w)
    <3>1. w.life \in Nat /\ life \in Nat
      BY <2>1, WindowAssumption DEF Window, Typed
    <3>2. w.life \in 0..life
      BY <2>4, <3>1
    <3> QED
      BY <3>2 DEF Window, IsWindow
  <2>5. life <= life
    BY <2>1, WindowAssumption DEF Typed
  <2>6. ASSUME NEW k \in DOMAIN pendingOutcomeWindows PROVE IsWindow(pendingOutcomeWindows[k])
    <3>1. pendingOutcomeWindows[k] \in Window
      BY <2>1 DEF Typed
    <3> QED
      BY <2>2, <2>4, <2>5, <3>1
  <2>7. ASSUME NEW k \in DOMAIN microTensors PROVE IsWindow(microTensors[k])
    <3>1. microTensors[k] \in Window
      BY <2>1 DEF Typed
    <3> QED
      BY <2>3, <2>4, <3>1
  <2> QED
    BY <2>1, <2>2, <2>6, <2>7 DEF TypeOK, Typed, Undropped
<1> QED
  BY <1>1, WindowInvariant, PTL

(* No event is counted in two windows of a trace, whatever the clock does.  *)
THEOREM NoEventCountedTwice == Spec => []EventsCountedOnce
<1>1. WindowInv => EventsCountedOnce
  BY DEF WindowInv
<1> QED
  BY <1>1, WindowInvariant, PTL

(* Only the capacity of the buffer takes an event from an open slot.        *)
THEOREM OpenSlotsLoseNothing == Spec => []OpenSlotsKeepTheirEvents
<1>1. WindowInv => OpenSlotsKeepTheirEvents
  BY DEF WindowInv
<1> QED
  BY <1>1, WindowInvariant, PTL

(* A label is the one called for by everything heard in its window's        *)
(* horizon that the deriver's limit did not drop: what its retention        *)
(* evicted before was never in it.                                          *)
THEOREM LabelsJustified == Spec => []LabelsAreJustified
<1>1. WindowInv => LabelsAreJustified
  BY DEF WindowInv
<1> QED
  BY <1>1, WindowInvariant, PTL

(* Labels come in the order of their windows, one for each; a window of     *)
(* this life has its label or waits for it, and never both.                 *)
THEOREM EachWindowLabelledOnce == Spec => []WindowsLabelledOnce
<1>1. WindowInv => WindowsLabelledOnce
  <2> SUFFICES ASSUME WindowInv PROVE WindowsLabelledOnce
    OBVIOUS
  <2>1. LabelsInOrder /\ LabelsAreOfEarlierWindows /\ NoneForgotten /\ Typed
    BY DEF WindowInv
  <2>2. ASSUME NEW k \in DOMAIN microTensors, microTensors[k].life = life
        PROVE  Labelled(microTensors[k]) <=> ~Waiting(microTensors[k])
    <3> DEFINE w == microTensors[k]
    <3>0. w \in Window /\ w.life = life
      BY <2>1, <2>2 DEF Typed
    <3>1. Labelled(w) \/ Waiting(w)
      BY <2>1, <2>2 DEF NoneForgotten
    <3>2. w.id \in Nat
      BY <3>0 DEF Window
    <3> HIDE DEF w
    <3>3. ~(Labelled(w) /\ Waiting(w))
      <4> SUFFICES ASSUME NEW j \in DOMAIN outcomes, LabelOf(w, outcomes[j]),
                          NEW i \in DOMAIN pendingOutcomeWindows, pendingOutcomeWindows[i] = w
                   PROVE  FALSE
        BY DEF Labelled, Waiting
      <4>1. outcomes[j].life = life /\ outcomes[j].id = w.id
        BY <3>0 DEF LabelOf
      <4>2. outcomes[j].id < w.id
        BY <2>1, <4>1 DEF LabelsAreOfEarlierWindows
      <4> QED
        BY <3>2, <4>1, <4>2
    <3> QED
      BY <3>1, <3>3 DEF w
  <2> QED
    BY <2>1, <2>2 DEF WindowsLabelledOnce, LabelsInOrder, Labelled, Waiting
<1> QED
  BY <1>1, WindowInvariant, PTL

(* No window of this life is an orphan: one without a label waits, and is   *)
(* younger than the allowance the recorder and the verifier give.           *)
THEOREM NoneOrphaned == Spec => []NoOrphanedWindows
<1>1. WindowInv => NoOrphanedWindows
  <2> SUFFICES ASSUME WindowInv, NEW w \in Orphaned(microTensors, outcomes), w.life = life
               PROVE  FALSE
    BY DEF NoOrphanedWindows
  <2>1. /\ w \in Range(microTensors) /\ w.id \notin {o.id : o \in Range(outcomes)}
        /\ \E v \in Range(microTensors) :
             v.start - w.start >= LookaheadMax + Grace + Tolerance
    BY DEF Orphaned, FindOrphanedWindows
  <2>2. PICK k \in DOMAIN microTensors : microTensors[k] = w
    BY <2>1 DEF Range
  <2>3. PICK j \in DOMAIN microTensors :
          microTensors[j].start - w.start >= LookaheadMax + Grace + Tolerance
    BY <2>1 DEF Range
  <2>4. ~Labelled(w)
    BY <2>1 DEF Labelled, LabelOf, Range
  <2>5. Waiting(w)
    BY <2>2, <2>4 DEF WindowInv, NoneForgotten
  <2>6. PICK i \in DOMAIN pendingOutcomeWindows : pendingOutcomeWindows[i] = w
    BY <2>5 DEF Waiting
  <2>7. End(microTensors[j]) + Settlement < End(w) + LookaheadMax + Grace
    BY <2>6 DEF WindowInv, WaitingAreYoung
  <2>8. microTensors[j] \in Window /\ microTensors[k] \in Window
    BY DEF WindowInv, Typed
  <2>9. microTensors[j].start \in Int /\ w.start \in Int
    BY <2>2, <2>8 DEF Window
  <2>10. /\ Stride \in Nat /\ Settlement \in Nat /\ LookaheadMax \in Nat /\ Grace \in Nat
         /\ Tolerance \in Nat
    BY WindowAssumption
  <2>11. microTensors[j].start + Stride + Settlement < w.start + Stride + LookaheadMax + Grace
    BY <2>7 DEF End
  <2> DEFINE late == microTensors[j].start
             early == w.start
  <2>12. late \in Int /\ early \in Int /\ late - early >= LookaheadMax + Grace + Tolerance
    BY <2>3, <2>9
  <2>13. late + Stride + Settlement < early + Stride + LookaheadMax + Grace
    BY <2>11
  <2> HIDE DEF late, early
  <2> QED
    BY <2>10, <2>12, <2>13
<1> QED
  BY <1>1, WindowInvariant, PTL
=============================================================================
