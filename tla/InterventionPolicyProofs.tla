------------------------ MODULE InterventionPolicyProofs ------------------------
(***************************************************************************)
(* Safety of the policy gates for every set of types, tasks and targets    *)
(* and every value of the cooldowns and of the persistence requirement.    *)
(***************************************************************************)
EXTENDS InterventionPolicy, FiniteSetTheorems, TLAPS

(* The initial state satisfies the inductive invariant.                     *)
LEMMA InitPolicyInv == Init => PolicyInv
  BY PolicyAssumption
  DEF Init, PolicyInv, TypeOK, CooldownCovers, CooldownSpacing, DismissalCovers,
      DismissalHonoured, StreakOfLastTask, NoCandidate, NeverDismissed, NoInstants

(* What accept() has after gate 1 still satisfies the invariant's parts     *)
(* that speak of the gates, whether or not the task switched.               *)
LEMMA SeenState ==
  ASSUME PolicyInv, NEW ctx \in Contexts
  PROVE  /\ CooldownSeen(ctx) \in Nat
         /\ DismissedSeen(ctx) \in [Types -> Nat]
         /\ CandidateSeen(ctx) \in
              [type: Types \cup {NoType}, target: Targets \cup {NoTarget}, count: Nat]
  BY PolicyAssumption
  DEF PolicyInv, TypeOK, CooldownSeen, DismissedSeen, CandidateSeen, NoCandidate, NeverDismissed

(* accept() preserves the invariant.                                        *)
LEMMA AcceptPolicyInv ==
  ASSUME PolicyInv, NEW cmd \in Commands, NEW ctx \in Contexts, Accept(cmd, ctx)
  PROVE  PolicyInv'
<1> DEFINE category == Category(cmd, ctx)
           accepts == IF TaskSwitched(ctx) THEN NoInstants ELSE acceptedAt
<1>types. /\ cmd.type \in Types \cup {"no_op"} /\ cmd.target \in Targets \cup {NoTarget}
          /\ ctx.taskId \in Tasks \cup {NoTask}
  BY DEF Commands, Contexts
<1>inv. /\ TypeOK /\ CooldownCovers /\ CooldownSpacing
        /\ DismissalCovers /\ DismissalHonoured /\ StreakOfLastTask
  BY DEF PolicyInv
<1>seen. /\ CooldownSeen(ctx) \in Nat
         /\ DismissedSeen(ctx) \in [Types -> Nat]
         /\ CandidateSeen(ctx) \in
              [type: Types \cup {NoType}, target: Targets \cup {NoTarget}, count: Nat]
  BY SeenState
<1>count. CountAfter(cmd, ctx) \in Nat
  BY <1>seen DEF CountAfter
<1>accepts. accepts \in [Types -> SUBSET Nat]
  BY <1>inv DEF TypeOK, NoInstants
<1>recommended. Counts(category) => cmd.type \in Types
  BY <1>types DEF Counts, Category
<1>open. category = "none" =>
           CooldownSeen(ctx) <= now /\ DismissedSeen(ctx)[cmd.type] <= now
  BY <1>seen, <1>recommended, <1>inv DEF Category, TypeOK, Counts
<1>acceptedAt. acceptedAt' = IF category = "none"
                               THEN [accepts EXCEPT ![cmd.type] = @ \cup {now}] ELSE accepts
  BY DEF Accept, AcceptHistory
<1>dismissedAt. dismissedAt' = IF TaskSwitched(ctx) THEN NoInstants ELSE dismissedAt
  BY DEF Accept, AcceptHistory
<1>cooldown. cooldownUntil' = IF category = "none" THEN now + CooldownMs ELSE CooldownSeen(ctx)
  BY DEF Accept
<1>dismissed. dismissedUntil' = DismissedSeen(ctx)
  BY DEF Accept
<1>now. now' = now /\ now \in Nat
  BY <1>inv DEF Accept, TypeOK
<1>type. TypeOK'
  <2>1. candidate' \in [type: Types \cup {NoType}, target: Targets \cup {NoTarget}, count: Nat]
    BY <1>types, <1>seen, <1>count, <1>recommended DEF Accept, NoCandidate
  <2>2. cooldownUntil' \in Nat
    BY <1>cooldown, <1>seen, <1>now, PolicyAssumption
  <2>3. acceptedAt' \in [Types -> SUBSET Nat]
    BY <1>acceptedAt, <1>accepts, <1>now
  <2>4. dismissedAt' \in [Types -> SUBSET Nat]
    BY <1>dismissedAt, <1>inv DEF NoInstants, TypeOK
  <2>5. endorsedIn' \in SUBSET (Tasks \cup {NoTask})
    BY <1>types, <1>inv DEF TypeOK, Accept, AcceptHistory
  <2>6. lastTaskId' \in Tasks \cup {NoTask} /\ dismissedUntil' \in [Types -> Nat]
    BY <1>types, <1>seen, <1>dismissed DEF Accept
  <2> QED
    BY <1>now, <2>1, <2>2, <2>3, <2>4, <2>5, <2>6 DEF TypeOK
<1>older. \A t \in Types : \A a \in accepts[t] :
            a \in Nat /\ a <= now /\ CooldownSeen(ctx) >= a + CooldownMs
  BY <1>inv, PolicyAssumption DEF TypeOK, CooldownCovers, CooldownSeen, NoInstants
<1>grown. \A t \in Types : \A a \in acceptedAt'[t] :
            a \in accepts[t] \/ (category = "none" /\ a = now /\ t = cmd.type)
  BY <1>acceptedAt, <1>accepts
<1>covers. CooldownCovers'
  BY <1>older, <1>grown, <1>cooldown, <1>now, <1>open, <1>seen, PolicyAssumption
  DEF CooldownCovers
<1>spacing. CooldownSpacing'
  <2> SUFFICES ASSUME NEW t \in Types, NEW u \in Types,
                      NEW a \in acceptedAt'[t], NEW b \in acceptedAt'[u], a < b
               PROVE  b - a >= CooldownMs
    BY DEF CooldownSpacing
  <2>1. CASE b \in accepts[u]
    <3>1. a \in accepts[t]
      BY <2>1, <1>grown, <1>older, <1>now
    <3> QED
      BY <2>1, <3>1, <1>inv DEF CooldownSpacing, NoInstants
  <2>2. CASE category = "none" /\ b = now
    <3>1. a \in accepts[t]
      BY <2>2, <1>grown, <1>now
    <3> QED
      BY <2>2, <3>1, <1>older, <1>open, <1>seen, <1>now, PolicyAssumption
  <2> QED
    BY <2>1, <2>2, <1>grown
<1>dcovers. DismissalCovers'
  BY <1>dismissedAt, <1>dismissed, <1>now, <1>inv DEF DismissalCovers, DismissedSeen, NoInstants
<1>honoured. DismissalHonoured'
  <2> SUFFICES ASSUME NEW t \in Types, NEW d \in dismissedAt'[t],
                      NEW a \in acceptedAt'[t], a > d
               PROVE  a - d >= DismissalCooldownMs
    BY DEF DismissalHonoured
  <2>1. ~TaskSwitched(ctx) /\ d \in dismissedAt[t] /\ accepts = acceptedAt
    BY <1>dismissedAt DEF NoInstants
  <2>2. CASE a \in accepts[t]
    BY <2>1, <2>2, <1>inv DEF DismissalHonoured
  <2>3. CASE category = "none" /\ a = now /\ t = cmd.type
    <3>1. dismissedUntil[t] <= now
      BY <2>1, <2>3, <1>open DEF DismissedSeen
    <3>2. d \in Nat /\ dismissedUntil[t] \in Nat /\ dismissedUntil[t] >= d + DismissalCooldownMs
      BY <2>1, <1>inv DEF DismissalCovers, TypeOK
    <3> QED
      BY <2>3, <3>1, <3>2, <1>now, PolicyAssumption
  <2> QED
    BY <2>2, <2>3, <1>grown
<1>streak. StreakOfLastTask'
  <2>1. lastTaskId' = ctx.taskId
    BY DEF Accept
  <2>2. endorsedIn \subseteq {NoTask, ctx.taskId} \/ TaskSwitched(ctx)
    BY <1>inv DEF StreakOfLastTask, TaskSwitched
  <2>3. TaskSwitched(ctx) /\ Counts(category) => ~SameCandidate(cmd, ctx)
    BY <1>recommended, PolicyAssumption DEF SameCandidate, CandidateSeen, NoCandidate
  <2> QED
    BY <2>1, <2>2, <2>3 DEF StreakOfLastTask, Accept, AcceptHistory
<1> QED
  BY <1>type, <1>covers, <1>spacing, <1>dcovers, <1>honoured, <1>streak DEF PolicyInv

(* Every step preserves the invariant.                                      *)
LEMMA NextPolicyInv == PolicyInv /\ [Next]_vars => PolicyInv'
<1> SUFFICES ASSUME PolicyInv, [Next]_vars PROVE PolicyInv'
  OBVIOUS
<1> USE DEF PolicyInv, TypeOK, CooldownCovers, CooldownSpacing, DismissalCovers,
            DismissalHonoured, StreakOfLastTask
<1>1. CASE Evaluate
  <2>1. PICK cmd \in Commands, ctx \in Contexts : Accept(cmd, ctx)
    BY <1>1, PolicyAssumption DEF Evaluate
  <2> QED
    BY <2>1, AcceptPolicyInv
<1>2. CASE Reset
  BY <1>2, PolicyAssumption DEF Reset, NoCandidate, NeverDismissed, NoInstants
<1>3. CASE NotifyUserAction
  BY <1>3, PolicyAssumption DEF NotifyUserAction, NoCandidate
<1>4. ASSUME NEW type \in Types, NotifyDismissal(type)
      PROVE  PolicyInv'
  <2>1. TypeOK'
    BY <1>4, PolicyAssumption DEF NotifyDismissal, NoCandidate
  <2>2. (CooldownCovers /\ CooldownSpacing /\ StreakOfLastTask)'
    BY <1>4 DEF NotifyDismissal
  <2>3. \A t \in Types : \A d \in dismissedAt'[t] :
          d \in dismissedAt[t] \/ (t = type /\ d = now)
    BY <1>4 DEF NotifyDismissal
  <2>4. DismissalCovers'
    BY <1>4, <2>3, PolicyAssumption DEF NotifyDismissal
  <2>5. DismissalHonoured'
    BY <1>4, <2>3 DEF NotifyDismissal
  <2> QED
    BY <2>1, <2>2, <2>4, <2>5
<1>5. CASE Tick
  BY <1>5, PolicyAssumption DEF Tick, policyVars, historyVars
<1>6. CASE UNCHANGED vars
  BY <1>6 DEF vars, policyVars, historyVars
<1> QED
  BY <1>1, <1>2, <1>3, <1>4, <1>5, <1>6 DEF Next

(* The policy's state is always well typed and its gates dominate what the  *)
(* histories remember.                                                      *)
THEOREM PolicyInvariant == Spec => []PolicyInv
  BY InitPolicyInv, NextPolicyInv, PTL DEF Spec

(* The variables are always of their types.                                 *)
THEOREM PolicyTypeOK == Spec => []TypeOK
<1>1. PolicyInv => TypeOK
  BY DEF PolicyInv
<1> QED
  BY <1>1, PolicyInvariant, PTL

(* The refractory period of accept() holds for every cooldown.              *)
THEOREM CooldownSpacingHolds == Spec => []CooldownSpacing
<1>1. PolicyInv => CooldownSpacing
  BY DEF PolicyInv
<1> QED
  BY <1>1, PolicyInvariant, PTL

(* A dismissed type stays suppressed for every dismissal cooldown.          *)
THEOREM DismissalHonouredHolds == Spec => []DismissalHonoured
<1>1. PolicyInv => DismissalHonoured
  BY DEF PolicyInv
<1> QED
  BY <1>1, PolicyInvariant, PTL

(* No persistence streak was counted under two tasks.                       *)
THEOREM StreakWithinOneTaskHolds == Spec => []StreakWithinOneTask
<1>1. PolicyInv => StreakWithinOneTask
  <2> SUFFICES ASSUME PolicyInv PROVE Cardinality(endorsedIn \ {NoTask}) <= 1
    BY DEF StreakWithinOneTask
  <2>1. endorsedIn \ {NoTask} = {} \/ endorsedIn \ {NoTask} = {lastTaskId}
    BY DEF PolicyInv, StreakOfLastTask
  <2>2. Cardinality({}) = 0 /\ Cardinality({lastTaskId}) = 1
    BY FS_EmptySet, FS_Singleton
  <2>3. CASE endorsedIn \ {NoTask} = {}
    BY <2>2, <2>3
  <2>4. CASE endorsedIn \ {NoTask} = {lastTaskId}
    BY <2>2, <2>4
  <2> QED
    BY <2>1, <2>3, <2>4
<1> QED
  BY <1>1, PolicyInvariant, PTL
=============================================================================
