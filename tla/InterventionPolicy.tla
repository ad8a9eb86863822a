-------------------------- MODULE InterventionPolicy --------------------------
(***************************************************************************)
(* The policy layer between the gates and the actuator                     *)
(* (src/src/intervention/policy.ts, class InterventionPolicy).             *)
(*                                                                         *)
(* A recommendation passes the gates of accept() in a fixed order: task    *)
(* change, no_op, cooldown, dismissal, confidence, context, persistence.   *)
(* The confidence of a command is abstracted to whether it clears the      *)
(* threshold (an undefined confidence does); a wall-clock instant is a     *)
(* natural number and Tick lets it pass.                                   *)
(***************************************************************************)
EXTENDS Naturals, FiniteSets

CONSTANTS
  Types,                       \* intervention types the gates recommend (no_op apart)
  Targets, NoTarget,           \* targetComponentId, NoTarget when undefined
  Tasks, NoTask,               \* context.taskId, NoTask when undefined
  NoType,                      \* candidateType = null
  RequiredConsecutiveWindows,  \* config.requiredConsecutiveWindows
  CooldownMs,                  \* config.cooldownMs
  DismissalCooldownMs,         \* config.dismissalCooldownMs
  EnforceContextEligibility,   \* config.enforceContextEligibility
  CommandInputs, ContextInputs, \* the commands and contexts accept() is called with
  MaxTime,                     \* bound: the last instant explored
  MaxStreak                    \* bound: the largest candidateCount explored

Commands == [type: Types \cup {"no_op"}, target: Targets \cup {NoTarget},
             confident: BOOLEAN]
Contexts == [taskId: Tasks \cup {NoTask}, primaryActionAvailable: BOOLEAN,
             expandable: BOOLEAN, helpAvailable: BOOLEAN]

ASSUME PolicyAssumption ==
  /\ RequiredConsecutiveWindows \in Nat \ {0}
  /\ CooldownMs \in Nat /\ DismissalCooldownMs \in Nat
  /\ EnforceContextEligibility \in BOOLEAN
  /\ CommandInputs \subseteq Commands /\ ContextInputs \subseteq Contexts
  /\ NoType \notin Types /\ "no_op" \notin Types
  /\ MaxTime \in Nat /\ MaxStreak \in Nat

VARIABLES
  now,             \* Date.now()
  candidate,       \* candidateType, candidateTarget and candidateCount
  lastTaskId,
  cooldownUntil,   \* cooldownUntilMs, 0 when no cooldown was ever entered
  dismissedUntil,  \* dismissedUntilMs, 0 for a type the map does not hold
  \* History variables: no action reads them.
  acceptedAt,      \* per type, instants of the acceptances since the last reset
  dismissedAt,     \* per type, instants of the dismissals since the last reset
  endorsedIn       \* task ids under which the current streak was counted

policyVars == <<candidate, lastTaskId, cooldownUntil, dismissedUntil>>
historyVars == <<acceptedAt, dismissedAt, endorsedIn>>
vars == <<now, policyVars, historyVars>>

NoCandidate == [type |-> NoType, target |-> NoTarget, count |-> 0]
NeverDismissed == [t \in Types |-> 0]
NoInstants == [t \in Types |-> {}]

TypeOK ==
  /\ now \in Nat
  /\ candidate \in [type: Types \cup {NoType}, target: Targets \cup {NoTarget}, count: Nat]
  /\ lastTaskId \in Tasks \cup {NoTask}
  /\ cooldownUntil \in Nat
  /\ dismissedUntil \in [Types -> Nat]
  /\ acceptedAt \in [Types -> SUBSET Nat]
  /\ dismissedAt \in [Types -> SUBSET Nat]
  /\ endorsedIn \in SUBSET (Tasks \cup {NoTask})

Init ==
  /\ now = 0
  /\ candidate = NoCandidate
  /\ lastTaskId = NoTask
  /\ cooldownUntil = 0
  /\ dismissedUntil = NeverDismissed
  /\ acceptedAt = NoInstants
  /\ dismissedAt = NoInstants
  /\ endorsedIn = {}

-----------------------------------------------------------------------------
(* checkContextEligibility                                                  *)
Eligible(cmd, ctx) ==
  \/ cmd.type = "highlight_primary_action" /\ ctx.primaryActionAvailable
  \/ cmd.type = "simplify_options" /\ ctx.expandable
  \/ cmd.type = "expand_tooltip" /\ (ctx.helpAvailable \/ cmd.target # NoTarget)
  \/ cmd.type = "offer_assistance"

(* Gate 1: a context of another task than the last one resets everything.   *)
(* The code compares only when lastTaskId is defined.                       *)
NeverSwitched(ctx) == FALSE   \* a mutant of TaskSwitched: gate 1 dropped
TaskSwitched(ctx) == lastTaskId # NoTask /\ ctx.taskId # lastTaskId

CandidateSeen(ctx) == IF TaskSwitched(ctx) THEN NoCandidate ELSE candidate
CooldownSeen(ctx) == IF TaskSwitched(ctx) THEN 0 ELSE cooldownUntil
DismissedSeen(ctx) == IF TaskSwitched(ctx) THEN NeverDismissed ELSE dismissedUntil

(* Gate 7: the streak the recommendation would reach.                       *)
SameCandidate(cmd, ctx) ==
  CandidateSeen(ctx).type = cmd.type /\ CandidateSeen(ctx).target = cmd.target
CountAfter(cmd, ctx) ==
  IF SameCandidate(cmd, ctx) THEN CandidateSeen(ctx).count + 1 ELSE 1

(* rejectionCategory of the decision; "none" is an acceptance and "no_op"   *)
(* the accepted no_op, which the code also categorises as 'none'.           *)
Category(cmd, ctx) ==
  IF cmd.type = "no_op" THEN "no_op"
  ELSE IF CooldownSeen(ctx) > now THEN "cooldown"
  ELSE IF DismissedSeen(ctx)[cmd.type] > now THEN "dismissed"
  ELSE IF ~cmd.confident THEN "below_threshold"
  ELSE IF EnforceContextEligibility /\ ~Eligible(cmd, ctx) THEN "ineligible_context"
  ELSE IF CountAfter(cmd, ctx) < RequiredConsecutiveWindows THEN "pending_persistence"
  ELSE "none"

Breaks(category) == category \in {"no_op", "below_threshold", "ineligible_context"}
Counts(category) == category \in {"pending_persistence", "none"}
-----------------------------------------------------------------------------
AcceptHistory(cmd, ctx) ==
  LET category == Category(cmd, ctx)
      accepts == IF TaskSwitched(ctx) THEN NoInstants ELSE acceptedAt
      streak == IF SameCandidate(cmd, ctx) THEN endorsedIn ELSE {}
  IN  /\ acceptedAt' = IF category = "none"
                       THEN [accepts EXCEPT ![cmd.type] = @ \cup {now}] ELSE accepts
      /\ dismissedAt' = IF TaskSwitched(ctx) THEN NoInstants ELSE dismissedAt
      /\ endorsedIn' = IF Counts(category) THEN streak \cup {ctx.taskId}
                       ELSE IF Breaks(category) \/ TaskSwitched(ctx) THEN {}
                       ELSE endorsedIn

(* accept(command, context)                                                 *)
Accept(cmd, ctx) ==
  LET category == Category(cmd, ctx) IN
  /\ lastTaskId' = ctx.taskId
  /\ candidate' =
       IF Breaks(category) THEN NoCandidate
       ELSE IF Counts(category)
         THEN [type |-> cmd.type, target |-> cmd.target, count |-> CountAfter(cmd, ctx)]
       ELSE CandidateSeen(ctx)
  /\ cooldownUntil' = IF category = "none" THEN now + CooldownMs ELSE CooldownSeen(ctx)
  /\ dismissedUntil' = DismissedSeen(ctx)
  /\ AcceptHistory(cmd, ctx)
  /\ UNCHANGED now

(* reset()                                                                  *)
Reset ==
  /\ candidate' = NoCandidate
  /\ lastTaskId' = NoTask
  /\ cooldownUntil' = 0
  /\ dismissedUntil' = NeverDismissed
  /\ acceptedAt' = NoInstants
  /\ dismissedAt' = NoInstants
  /\ endorsedIn' = {}
  /\ UNCHANGED now

(* A mutant of NotifyUserAction: the streak is decremented, not cleared.    *)
UserActionDecrements ==
  /\ candidate' = [candidate EXCEPT !.count = @ - 1]
  /\ endorsedIn' = {}
  /\ UNCHANGED <<now, lastTaskId, cooldownUntil, dismissedUntil, acceptedAt, dismissedAt>>

(* notifyUserAction(action)                                                 *)
NotifyUserAction ==
  /\ candidate' = NoCandidate
  /\ endorsedIn' = {}
  /\ UNCHANGED <<now, lastTaskId, cooldownUntil, dismissedUntil, acceptedAt, dismissedAt>>

(* Mutants of NotifyDismissal: one ends the cooldown too, one drops the     *)
(* suppression of the types dismissed before.                               *)
DismissEndsCooldown(type) ==
  /\ candidate' = NoCandidate
  /\ cooldownUntil' = 0
  /\ dismissedUntil' = [dismissedUntil EXCEPT ![type] = now + DismissalCooldownMs]
  /\ dismissedAt' = [dismissedAt EXCEPT ![type] = @ \cup {now}]
  /\ endorsedIn' = {}
  /\ UNCHANGED <<now, lastTaskId, acceptedAt>>

DismissForgetsOthers(type) ==
  /\ candidate' = NoCandidate
  /\ dismissedUntil' = [NeverDismissed EXCEPT ![type] = now + DismissalCooldownMs]
  /\ dismissedAt' = [dismissedAt EXCEPT ![type] = @ \cup {now}]
  /\ endorsedIn' = {}
  /\ UNCHANGED <<now, lastTaskId, cooldownUntil, acceptedAt>>

(* notifyDismissal(type)                                                    *)
NotifyDismissal(type) ==
  /\ candidate' = NoCandidate
  /\ dismissedUntil' = [dismissedUntil EXCEPT ![type] = now + DismissalCooldownMs]
  /\ dismissedAt' = [dismissedAt EXCEPT ![type] = @ \cup {now}]
  /\ endorsedIn' = {}
  /\ UNCHANGED <<now, lastTaskId, cooldownUntil, acceptedAt>>

Tick ==
  /\ now < MaxTime
  /\ now' = now + 1
  /\ UNCHANGED <<policyVars, historyVars>>

Evaluate ==
  /\ candidate.count < MaxStreak
  /\ \E cmd \in CommandInputs, ctx \in ContextInputs : Accept(cmd, ctx)

Next ==
  \/ Evaluate
  \/ Reset
  \/ NotifyUserAction
  \/ \E type \in Types : NotifyDismissal(type)
  \/ Tick

Spec == Init /\ [][Next]_vars
-----------------------------------------------------------------------------
(* No acceptance, of any type, falls within CooldownMs of an earlier one    *)
(* that no reset has forgotten: dismissals, refusals and user actions in    *)
(* between never shorten the refractory period accept() enters.             *)
CooldownSpacing ==
  \A t, u \in Types : \A a \in acceptedAt[t], b \in acceptedAt[u] :
    a < b => b - a >= CooldownMs

(* Once dismissed, a type is not accepted for DismissalCooldownMs, whatever *)
(* else is recommended, accepted or dismissed meanwhile, unless a reset     *)
(* intervenes (notifyDismissal, gate 4 of accept()).                        *)
DismissalHonoured ==
  \A t \in Types : \A d \in dismissedAt[t], a \in acceptedAt[t] :
    a > d => a - d >= DismissalCooldownMs

(* A persistence streak never mixes recommendations made under two          *)
(* different tasks (gate 1 of accept()); only NoTask, an undefined task id, *)
(* can precede a task within one streak.                                    *)
StreakWithinOneTask ==
  Cardinality(endorsedIn \ {NoTask}) <= 1

(* The strengthening the proofs use: the gate variables dominate every      *)
(* instant the histories remember, and a streak only knows the last task.   *)
CooldownCovers ==
  \A t \in Types : \A a \in acceptedAt[t] : a <= now /\ cooldownUntil >= a + CooldownMs
DismissalCovers ==
  \A t \in Types : \A d \in dismissedAt[t] :
    d <= now /\ dismissedUntil[t] >= d + DismissalCooldownMs
StreakOfLastTask == endorsedIn \subseteq {NoTask, lastTaskId}

PolicyInv ==
  /\ TypeOK
  /\ CooldownCovers /\ CooldownSpacing
  /\ DismissalCovers /\ DismissalHonoured
  /\ StreakOfLastTask
=============================================================================
