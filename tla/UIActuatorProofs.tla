--------------------------- MODULE UIActuatorProofs ---------------------------
(***************************************************************************)
(* Episode accounting in the actuator, for every set of adaptation types   *)
(* and any number of episodes, and its refinement of EpisodeLifecycle.     *)
(***************************************************************************)
EXTENDS UIActuator, Integers, WellFoundedInduction, TLAPS

(* The initial state satisfies the inductive invariant.                     *)
LEMMA InitActuatorInv == Init => ActuatorInv
  BY ActuatorAssumption
  DEF Init, ActuatorInv, TypeOK, EpisodeAccounting, BegunOnly, TimersOfLiveEpisodes,
      HandlersOfLiveEpisodes, None, Episodes, Dismissible

(* Clearing a set of types reverts exactly their live episodes and keeps    *)
(* the accounting, the timers and the handlers in step with the map.        *)
LEMMA ClearKeepsInv ==
  ASSUME ActuatorInv, NEW S \in SUBSET Types, Clear(S), UNCHANGED <<begun, kind>>,
         dismissed' \in [Episodes -> Nat],
         \A e \in Episodes :
           \/ dismissed'[e] = dismissed[e]
           \/ dismissed'[e] = dismissed[e] + 1 /\ e \in ActiveIn(S)
  PROVE  ActuatorInv'
<1> USE DEF ActuatorInv, TypeOK, EpisodeAccounting, BegunOnly, None, Episodes
<1>1. active' = [t \in Types |-> IF t \in S THEN 0 ELSE active[t]]
  BY DEF Clear, ActiveAfter
<1>2. reverted' = [e \in Episodes |-> IF e \in ActiveIn(S) THEN reverted[e] + 1 ELSE reverted[e]]
  BY DEF Clear, RevertedAfter
<1>3. timers' = timers \ {<<t, active[t]>> : t \in S}
      /\ handlers' = handlers \ {<<t, active[t]>> : t \in S}
  BY DEF Clear, TimersAfter, HandlersAfter
<1>4. \A e \in Episodes : e \in ActiveIn(S) <=> \E t \in S : active[t] = e
  BY DEF ActiveIn
<1>5. TypeOK'
  <2>1. active' \in [Types -> 0..MaxEpisodes]
    BY <1>1, ActuatorAssumption
  <2>2. reverted' \in [Episodes -> Nat]
    BY <1>2
  <2>3. timers' \in SUBSET (Types \X Episodes) /\ handlers' \in SUBSET (Types \X Episodes)
    BY <1>3
  <2> QED
    BY <2>1, <2>2, <2>3
<1>6. EpisodeAccounting'
  <2> SUFFICES ASSUME NEW e \in Episodes
               PROVE  /\ dismissed'[e] <= reverted'[e]
                      /\ reverted'[e] <= IF kind[e] = NoType THEN 0 ELSE 1
                      /\ \A t \in Types : active'[t] = e <=> kind[e] = t /\ reverted'[e] = 0
    BY DEF EpisodeAccounting
  <2>1. CASE e \in ActiveIn(S)
    <3>1. PICK t \in S : active[t] = e
      BY <2>1, <1>4
    <3>2. kind[e] = t /\ reverted[e] = 0 /\ reverted'[e] = 1 /\ dismissed[e] = 0
      BY <3>1, <2>1, <1>2
    <3>3. kind[e] # NoType
      BY <3>1, <3>2, ActuatorAssumption
    <3> QED
      BY <3>1, <3>2, <3>3, <1>1
  <2>2. CASE e \notin ActiveIn(S)
    <3>1. reverted'[e] = reverted[e] /\ dismissed'[e] = dismissed[e]
      BY <2>2, <1>2
    <3>2. \A t \in Types : active'[t] = e <=> active[t] = e
      BY <2>2, <1>1, <1>4
    <3> QED
      BY <3>1, <3>2
  <2> QED
    BY <2>1, <2>2
<1>7. TimersOfLiveEpisodes'
  BY <1>1, <1>3 DEF TimersOfLiveEpisodes
<1>8. HandlersOfLiveEpisodes'
  BY <1>1, <1>3 DEF HandlersOfLiveEpisodes, Dismissible
<1> QED
  BY <1>5, <1>6, <1>7, <1>8

(* apply() preserves the invariant.                                         *)
LEMMA ApplyKeepsInv ==
  ASSUME ActuatorInv, NEW type \in Types, NEW found \in BOOLEAN, Apply(type, found)
  PROVE  ActuatorInv'
<1> USE DEF ActuatorInv, TypeOK, EpisodeAccounting, BegunOnly, None, Episodes
<1> DEFINE new == begun + 1
<1>1. new \in Episodes /\ begun' = new /\ kind[new] = NoType /\ reverted[new] = 0
      /\ dismissed[new] = 0 /\ dismissed' = dismissed
  BY ActuatorAssumption DEF Apply
<1>2. \A t \in Types : active[t] # new
  BY <1>1, ActuatorAssumption
<1>3. active' = [t \in Types |-> IF t # type THEN active[t] ELSE IF found THEN new ELSE 0]
  BY DEF Apply, ActiveAfter
<1>4. kind' = IF found THEN [kind EXCEPT ![new] = type] ELSE kind
  BY DEF Apply
<1>5. reverted' = [e \in Episodes |-> IF e = active[type] THEN reverted[e] + 1 ELSE reverted[e]]
  BY DEF Apply, RevertedAfter, ActiveIn
<1>6. timers' = (timers \ {<<type, active[type]>>})
                  \cup (IF found /\ HasTtl THEN {<<type, new>>} ELSE {})
  BY DEF Apply, TimersAfter
<1>7. handlers' = (handlers \ {<<type, active[type]>>})
                  \cup (IF found /\ type \in Dismissible THEN {<<type, new>>} ELSE {})
  BY DEF Apply, HandlersAfter
<1>8. TypeOK'
  <2>1. begun' \in 0..MaxEpisodes /\ active' \in [Types -> 0..MaxEpisodes]
    BY <1>1, <1>3, ActuatorAssumption
  <2>2. kind' \in [Episodes -> Types \cup {NoType}]
    BY <1>4
  <2>3. reverted' \in [Episodes -> Nat] /\ dismissed' \in [Episodes -> Nat]
    BY <1>1, <1>5
  <2>4. timers' \in SUBSET (Types \X Episodes) /\ handlers' \in SUBSET (Types \X Episodes)
    BY <1>1, <1>6, <1>7
  <2> QED
    BY <2>1, <2>2, <2>3, <2>4
<1>9. EpisodeAccounting'
  <2> SUFFICES ASSUME NEW e \in Episodes
               PROVE  /\ dismissed[e] <= reverted'[e]
                      /\ reverted'[e] <= IF kind'[e] = NoType THEN 0 ELSE 1
                      /\ \A t \in Types : active'[t] = e <=> kind'[e] = t /\ reverted'[e] = 0
    BY <1>1 DEF EpisodeAccounting
  <2>1. CASE e = new
    <3>1. reverted'[e] = 0
      BY <2>1, <1>1, <1>2, <1>5
    <3>2. kind'[e] = IF found THEN type ELSE NoType
      BY <2>1, <1>1, <1>4
    <3> QED
      BY <2>1, <3>1, <3>2, <1>1, <1>2, <1>3, ActuatorAssumption
  <2>2. CASE e # new /\ e = active[type]
    <3>1. kind[e] = type /\ reverted[e] = 0 /\ reverted'[e] = 1 /\ kind'[e] = type
      BY <2>2, <1>4, <1>5
    <3> QED
      BY <2>2, <3>1, <1>3, ActuatorAssumption
  <2>3. CASE e # new /\ e # active[type]
    <3>1. reverted'[e] = reverted[e] /\ kind'[e] = kind[e]
      BY <2>3, <1>4, <1>5
    <3>2. \A t \in Types : active'[t] = e <=> active[t] = e
      BY <2>3, <1>3
    <3> QED
      BY <3>1, <3>2
  <2> QED
    BY <2>1, <2>2, <2>3
<1>10. BegunOnly'
  BY <1>1, <1>4
<1>11. TimersOfLiveEpisodes'
  BY <1>1, <1>2, <1>3, <1>6 DEF TimersOfLiveEpisodes
<1>12. HandlersOfLiveEpisodes'
  BY <1>1, <1>2, <1>3, <1>7 DEF HandlersOfLiveEpisodes, Dismissible
<1> QED
  BY <1>8, <1>9, <1>10, <1>11, <1>12

(* Every step preserves the invariant.                                      *)
LEMMA NextActuatorInv == ActuatorInv /\ [Next]_actuatorVars => ActuatorInv'
<1> SUFFICES ASSUME ActuatorInv, [Next]_actuatorVars PROVE ActuatorInv'
  OBVIOUS
<1>1. ASSUME NEW type \in Types, NEW found \in BOOLEAN, Apply(type, found)
      PROVE  ActuatorInv'
  BY <1>1, ApplyKeepsInv
<1>2. ASSUME NEW type \in Types, NEW episode \in Episodes, Expire(type, episode)
      PROVE  ActuatorInv'
  <2>1. episode = active[type] /\ episode # None
    BY <1>2 DEF Expire, ActuatorInv, TimersOfLiveEpisodes
  <2>2. Clear({type}) /\ UNCHANGED <<begun, kind, dismissed>>
    BY <1>2, <2>1 DEF Expire, Clear, TimersAfter
  <2> QED
    BY <2>2, ClearKeepsInv DEF ActuatorInv, TypeOK
<1>3. ASSUME NEW fired \in SUBSET handlers, Dismiss(fired)
      PROVE  ActuatorInv'
  <2> DEFINE S == {h[1] : h \in fired}
  <2>1. \A h \in fired : h[1] \in Types /\ h[2] = active[h[1]] /\ h[2] # None
    BY DEF ActuatorInv, HandlersOfLiveEpisodes, Dismissible
  <2>2. S \in SUBSET Types /\ Clear(S) /\ UNCHANGED <<begun, kind>>
    BY <1>3, <2>1 DEF Dismiss
  <2>3. dismissed' \in [Episodes -> Nat]
        /\ \A e \in Episodes :
             \/ dismissed'[e] = dismissed[e]
             \/ dismissed'[e] = dismissed[e] + 1 /\ e \in ActiveIn(S)
    BY <1>3, <2>1 DEF Dismiss, ActiveIn, ActuatorInv, TypeOK
  <2> QED
    BY <2>2, <2>3, ClearKeepsInv
<1>4. CASE Reset
  BY <1>4, ClearKeepsInv DEF Reset, ActuatorInv, TypeOK
<1>5. CASE UNCHANGED actuatorVars
  BY <1>5 DEF actuatorVars, ActuatorInv, TypeOK, EpisodeAccounting, BegunOnly,
              TimersOfLiveEpisodes, HandlersOfLiveEpisodes
<1>6. PressEscape => ActuatorInv'
  BY <1>3 DEF PressEscape
<1>7. ClickDismiss => ActuatorInv'
  BY <1>3 DEF ClickDismiss
<1> QED
  BY <1>1, <1>2, <1>4, <1>5, <1>6, <1>7 DEF Next

(* The inductive invariant holds of every behaviour.                        *)
THEOREM ActuatorInvariant == Spec => []ActuatorInv
  BY InitActuatorInv, NextActuatorInv, PTL DEF Spec

(* The variables are always of their types.                                 *)
THEOREM ActuatorTypeOK == Spec => []TypeOK
<1>1. ActuatorInv => TypeOK
  BY DEF ActuatorInv
<1> QED
  BY <1>1, ActuatorInvariant, PTL

(* Applied adaptations and terminal events correspond one to one.           *)
THEOREM EpisodeAccountingHolds == Spec => []EpisodeAccounting
<1>1. ActuatorInv => EpisodeAccounting
  BY DEF ActuatorInv
<1> QED
  BY <1>1, ActuatorInvariant, PTL

(* No TTL timer outlives its adaptation, and with a TTL none lacks one.     *)
THEOREM TimersEndWithTheirEpisode == Spec => []TimersOfLiveEpisodes
<1>1. ActuatorInv => TimersOfLiveEpisodes
  BY DEF ActuatorInv
<1> QED
  BY <1>1, ActuatorInvariant, PTL

(* No dismissal handler outlives its adaptation.                            *)
THEOREM HandlersEndWithTheirEpisode == Spec => []HandlersOfLiveEpisodes
<1>1. ActuatorInv => HandlersOfLiveEpisodes
  BY DEF ActuatorInv
<1> QED
  BY <1>1, ActuatorInvariant, PTL

(* What one step may do to one episode: nothing, begin it, or end it.       *)
EpisodeStep(e) ==
  \/ UNCHANGED <<kind[e], reverted[e], dismissed[e]>> /\ (e > begun <=> e > begun')
  \/ e > begun /\ e <= begun' /\ UNCHANGED <<reverted[e], dismissed[e]>>
  \/ /\ e <= begun /\ e <= begun' /\ kind'[e] = kind[e]
     /\ kind[e] # NoType /\ reverted[e] = 0 /\ reverted'[e] = 1

(* Clearing a set of types ends the episodes it finds live and no other.    *)
LEMMA ClearEpisodeStep ==
  ASSUME ActuatorInv, NEW S \in SUBSET Types, Clear(S), UNCHANGED <<begun, kind>>,
         \A e \in Episodes : e \notin ActiveIn(S) => dismissed'[e] = dismissed[e]
  PROVE  \A e \in Episodes : EpisodeStep(e)
<1> SUFFICES ASSUME NEW e \in Episodes PROVE EpisodeStep(e)
  OBVIOUS
<1> USE DEF ActuatorInv, TypeOK, EpisodeAccounting, BegunOnly, None, Episodes
<1>1. reverted'[e] = IF e \in ActiveIn(S) THEN reverted[e] + 1 ELSE reverted[e]
  BY DEF Clear, RevertedAfter
<1>2. CASE e \in ActiveIn(S)
  <2>1. PICK t \in S : active[t] = e
    BY <1>2 DEF ActiveIn
  <2>2. kind[e] = t /\ reverted[e] = 0 /\ kind[e] # NoType
    BY <2>1, ActuatorAssumption
  <2>3. e <= begun
    BY <2>2
  <2> QED
    BY <1>1, <1>2, <2>2, <2>3 DEF EpisodeStep
<1>3. CASE e \notin ActiveIn(S)
  BY <1>1, <1>3 DEF EpisodeStep
<1> QED
  BY <1>2, <1>3

(* Every step of the actuator changes each episode in one of those ways.    *)
LEMMA NextEpisodeStep ==
  ASSUME ActuatorInv, [Next]_actuatorVars
  PROVE  \A e \in Episodes : EpisodeStep(e)
<1>1. ASSUME NEW type \in Types, NEW found \in BOOLEAN, Apply(type, found)
      PROVE  \A e \in Episodes : EpisodeStep(e)
  <2> SUFFICES ASSUME NEW e \in Episodes PROVE EpisodeStep(e)
    OBVIOUS
  <2> USE DEF ActuatorInv, TypeOK, EpisodeAccounting, BegunOnly, None, Episodes
  <2>1. begun' = begun + 1 /\ dismissed' = dismissed
    BY <1>1 DEF Apply
  <2>2. e # begun + 1 => kind'[e] = kind[e]
    BY <1>1 DEF Apply
  <2>3. reverted'[e] = IF e = active[type] THEN reverted[e] + 1 ELSE reverted[e]
    BY <1>1 DEF Apply, RevertedAfter, ActiveIn
  <2>4. CASE e = active[type]
    <3>1. kind[e] = type /\ reverted[e] = 0 /\ kind[e] # NoType
      BY <2>4, ActuatorAssumption
    <3>2. e <= begun
      BY <3>1
    <3> QED
      BY <2>1, <2>2, <2>3, <2>4, <3>1, <3>2 DEF EpisodeStep
  <2>5. CASE e # active[type]
    BY <2>1, <2>2, <2>3, <2>5 DEF EpisodeStep
  <2> QED
    BY <2>4, <2>5
<1>2. ASSUME NEW type \in Types, NEW episode \in Episodes, Expire(type, episode)
      PROVE  \A e \in Episodes : EpisodeStep(e)
  <2>1. episode = active[type] /\ episode # None
    BY <1>2 DEF Expire, ActuatorInv, TimersOfLiveEpisodes
  <2>2. Clear({type}) /\ UNCHANGED <<begun, kind, dismissed>>
    BY <1>2, <2>1 DEF Expire, Clear, TimersAfter
  <2> QED
    BY <2>2, ClearEpisodeStep
<1>3. ASSUME NEW fired \in SUBSET handlers, Dismiss(fired)
      PROVE  \A e \in Episodes : EpisodeStep(e)
  <2> DEFINE S == {h[1] : h \in fired}
  <2>1. \A h \in fired : h[1] \in Types /\ h[2] = active[h[1]] /\ h[2] # None
    BY DEF ActuatorInv, HandlersOfLiveEpisodes, Dismissible
  <2>2. S \in SUBSET Types /\ Clear(S) /\ UNCHANGED <<begun, kind>>
    BY <1>3, <2>1 DEF Dismiss
  <2>3. \A e \in Episodes : e \notin ActiveIn(S) => dismissed'[e] = dismissed[e]
    BY <1>3, <2>1 DEF Dismiss, ActiveIn
  <2> QED
    BY <2>2, <2>3, ClearEpisodeStep
<1>4. Reset => \A e \in Episodes : EpisodeStep(e)
  BY ClearEpisodeStep DEF Reset
<1>5. UNCHANGED actuatorVars => \A e \in Episodes : EpisodeStep(e)
  BY DEF actuatorVars, EpisodeStep
<1>6. PressEscape => \A e \in Episodes : EpisodeStep(e)
  BY <1>3 DEF PressEscape
<1>7. ClickDismiss => \A e \in Episodes : EpisodeStep(e)
  BY <1>3 DEF ClickDismiss
<1> QED
  BY <1>1, <1>2, <1>4, <1>5, <1>6, <1>7 DEF Next

(* A step of the actuator is a step of the lifecycle under the refinement   *)
(* mapping.                                                                 *)
LEMMA StepRefines ==
  ActuatorInv /\ ActuatorInv' /\ [Next]_actuatorVars => Lifecycle!Next
<1> SUFFICES ASSUME ActuatorInv, ActuatorInv', [Next]_actuatorVars PROVE Lifecycle!Next
  OBVIOUS
<1> USE DEF ActuatorInv, TypeOK, EpisodeAccounting, BegunOnly, Episodes, StatusOf
<1> DEFINE S == [e \in Episodes |-> StatusOf(e)]
           T == [e \in Episodes |-> StatusOf(e)']
<1>1. \A e \in Episodes : EpisodeStep(e)
  BY NextEpisodeStep
<1>2. T \in [Episodes -> Lifecycle!Statuses] /\ kind' \in [Episodes -> Types \cup {NoType}]
  BY DEF Lifecycle!Statuses
<1>3. ASSUME NEW e \in Episodes
      PROVE  /\ T[e] # S[e] => <<S[e], T[e]>> \in Lifecycle!Moves
             /\ kind'[e] # kind[e] => S[e] = "unused" /\ T[e] = "live"
             /\ T[e] = "live" => kind'[e] \in Types
  <2>1. EpisodeStep(e)
    BY <1>1
  <2>2. /\ e \in Nat /\ begun \in Nat /\ begun' \in Nat
        /\ reverted[e] \in Nat /\ dismissed[e] \in Nat /\ dismissed[e] <= reverted[e]
        /\ reverted[e] <= IF kind[e] = NoType THEN 0 ELSE 1
        /\ kind'[e] \in Types \cup {NoType}
        /\ e > begun => kind[e] = NoType
    BY ActuatorAssumption
  <2>6. /\ S[e] = StatusOf(e) /\ T[e] = StatusOf(e)'
    OBVIOUS
  <2> HIDE DEF ActuatorInv, TypeOK, EpisodeAccounting, BegunOnly, Episodes, S, T
  <2>3. CASE UNCHANGED <<kind[e], reverted[e], dismissed[e]>> /\ (e > begun <=> e > begun')
    BY <2>2, <2>6, <2>3
  <2>4. CASE e > begun /\ e <= begun' /\ UNCHANGED <<reverted[e], dismissed[e]>>
    <3>1. S[e] = "unused" /\ reverted'[e] = 0
      BY <2>2, <2>6, <2>4
    <3>2. T[e] = IF kind'[e] = NoType THEN "failed" ELSE "live"
      BY <2>2, <2>6, <2>4, <3>1
    <3>3. <<S[e], T[e]>> \in Lifecycle!Moves
      BY <3>1, <3>2 DEF Lifecycle!Moves
    <3> QED
      BY <2>2, <2>4, <3>1, <3>2, <3>3
  <2>5. CASE /\ e <= begun /\ e <= begun' /\ kind'[e] = kind[e]
             /\ kind[e] # NoType /\ reverted[e] = 0 /\ reverted'[e] = 1
    <3>1. S[e] = "live" /\ T[e] \in {"reverted", "dismissed"}
      BY <2>2, <2>6, <2>5
    <3> QED
      BY <2>5, <3>1 DEF Lifecycle!Moves
  <2> QED
    BY <2>1, <2>3, <2>4, <2>5 DEF EpisodeStep
<1>4. Lifecycle!Exclusive(T, kind')
  <2> SUFFICES ASSUME NEW e \in Episodes, NEW f \in Episodes,
                      T[e] = "live", T[f] = "live", kind'[e] = kind'[f]
               PROVE  e = f
    BY DEF Lifecycle!Exclusive, Lifecycle!Episodes
  <2>1. kind'[e] \in Types /\ reverted'[e] = 0 /\ reverted'[f] = 0
    OBVIOUS
  <2>2. active'[kind'[e]] = e /\ active'[kind'[e]] = f
    BY <2>1
  <2> QED
    BY <2>2
<1> QED
  BY <1>2, <1>3, <1>4 DEF Lifecycle!Next, Lifecycle!Episodes

(* The actuator implements the episode lifecycle: whatever the order of     *)
(* applications, expiries, dismissals and resets, each episode is begun     *)
(* once, ends at most once, and no type has two live episodes.              *)
THEOREM ActuatorImplementsLifecycle == Spec => ImplementsLifecycle
<1>1. Init => Lifecycle!Init
  BY ActuatorAssumption DEF Init, Lifecycle!Init, Lifecycle!Episodes, Episodes, StatusOf
<1>2. ActuatorInv /\ ActuatorInv' /\ [Next]_actuatorVars
        => [Lifecycle!Next]_<<[e \in Episodes |-> StatusOf(e)], kind>>
  BY StepRefines
<1> QED
  BY <1>1, <1>2, ActuatorInvariant, PTL DEF Spec, ImplementsLifecycle, Lifecycle!Spec
(***************************************************************************)
(* Induction over the natural numbers, and functions defined by recursion  *)
(* on them: what the proofs about the recursive functions of the models    *)
(* around the actuator rest on. The library's theorems for both take an    *)
(* operator as a parameter; here the property is a set and the step of the *)
(* recursion a function.                                                   *)
(***************************************************************************)
(* A set of natural numbers that is not empty has a least element.          *)
LEMMA LeastNatural ==
  ASSUME NEW T \in SUBSET Nat, T # {}
  PROVE  \E n \in T : \A m \in T : ~(m < n)
<1> DEFINE Less == {ss \in Nat \X Nat : ss[1] < ss[2]}
<1>1. IsWellFoundedOn(Less, Nat)
  BY NatLessThanWellFounded DEF OpToRel
<1>2. \A m, k \in Nat : m < k => <<m, k>> \in Less
  OBVIOUS
<1> HIDE DEF Less
<1>3. PICK n \in T : \A m \in T : ~(<<m, n>> \in Less)
  BY <1>1, WFMin
<1>4. \A m \in T : ~(m < n)
  BY <1>2, <1>3
<1> QED
  BY <1>4

(* A set with 0 and the successor of each of its members has them all.      *)
LEMMA Induction ==
  ASSUME NEW S \in SUBSET Nat, 0 \in S, \A n \in Nat : n \in S => n + 1 \in S
  PROVE  S = Nat
<1> SUFFICES ASSUME Nat \ S # {} PROVE FALSE
  OBVIOUS
<1>1. PICK n \in Nat \ S : \A m \in Nat \ S : ~(m < n)
  BY LeastNatural
<1>2. n # 0 /\ n - 1 \in Nat /\ n - 1 < n /\ (n - 1) + 1 = n
  BY <1>1
<1>3. n - 1 \in S
  BY <1>1, <1>2
<1> QED
  BY <1>1, <1>2, <1>3

(* A function that starts at zero and whose value at k is step of its value *)
(* at k - 1.                                                                *)
Unfolds(f, n, D, zero, step) ==
  /\ f \in [0..n -> D] /\ f[0] = zero
  /\ \A k \in 1..n : f[k] = step[<<f[k - 1], k>>]

(* Every function step on a set defines such a function by recursion.       *)
LEMMA RecursionExists ==
  ASSUME NEW n \in Nat, NEW D, NEW zero \in D, NEW step \in [D \X (1..n) -> D]
  PROVE  \E f : Unfolds(f, n, D, zero, step)
<1> DEFINE T == {m \in Nat : m <= n => \E f : Unfolds(f, m, D, zero, step)}
<1>1. 0 \in T
  <2>1. Unfolds([k \in 0..0 |-> zero], 0, D, zero, step)
    BY DEF Unfolds
  <2> QED
    BY <2>1
<1>2. ASSUME NEW m \in Nat, m \in T PROVE m + 1 \in T
  <2> SUFFICES ASSUME m + 1 <= n PROVE \E f : Unfolds(f, m + 1, D, zero, step)
    OBVIOUS
  <2>1. PICK f : Unfolds(f, m, D, zero, step)
    BY <1>2
  <2> DEFINE last == step[<<f[m], m + 1>>]
             g == [k \in 0..(m + 1) |-> IF k = m + 1 THEN last ELSE f[k]]
  <2>2. f[m] \in D /\ last \in D
    <3>1. f[m] \in D /\ <<f[m], m + 1>> \in D \X (1..n)
      BY <2>1 DEF Unfolds
    <3> QED
      BY <3>1
  <2>k. last = step[<<f[m], m + 1>>]
    OBVIOUS
  <2> HIDE DEF last
  <2>3. g \in [0..(m + 1) -> D] /\ g[0] = zero
    BY <2>1, <2>2 DEF Unfolds
  <2>4. ASSUME NEW k \in 1..(m + 1) PROVE g[k] = step[<<g[k - 1], k>>]
    <3>1. k - 1 \in 0..m /\ g[k - 1] = f[k - 1]
      OBVIOUS
    <3>2. CASE k = m + 1
      BY <3>1, <3>2, <2>k
    <3>3. CASE k # m + 1
      <4>1. k \in 1..m /\ g[k] = f[k]
        BY <3>3
      <4> QED
        BY <4>1, <3>1, <2>1 DEF Unfolds
    <3> QED
      BY <3>2, <3>3
  <2> QED
    BY <2>3, <2>4 DEF Unfolds
<1>3. T = Nat
  <2> HIDE DEF T
  <2>1. T \in SUBSET Nat
    BY DEF T
  <2> QED
    BY <1>1, <1>2, <2>1, Induction
<1> QED
  BY <1>3
=============================================================================
