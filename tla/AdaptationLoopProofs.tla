------------------------- MODULE AdaptationLoopProofs -------------------------
(***************************************************************************)
(* The composed loop, for every plan of trials and every number of         *)
(* condition switches, types and episodes: what the policy and the         *)
(* actuator guarantee by themselves carries over to it, and what only      *)
(* their composition guarantees is proved here.                            *)
(***************************************************************************)
EXTENDS AdaptationLoop, FiniteSetTheorems, SequenceTheorems, TLAPS

ActuatorTheory == INSTANCE UIActuatorProofs
PolicyTheory == INSTANCE InterventionPolicyProofs WITH
  Tasks <- TaskIds, EnforceContextEligibility <- TRUE,
  CommandInputs <- {}, ContextInputs <- {}

(* The actuator's constants are as its own module assumes.                  *)
LEMMA ActuatorAssumed ==
  ActuatorTheory!ActuatorAssumption
  BY LoopAssumption, ComponentsAssumption DEF ActuatorTheory!ActuatorAssumption

(* A task as the task manager holds it.                                     *)
TaskRecords == [id: TaskIds \cup {NoTask}, status: Statuses, step: Nat]

(* An evaluation in flight belongs to the running runtime and its           *)
(* condition, and one asked for under another task than the current one     *)
(* finds no streak to continue.                                             *)
FlightOfRunning == flight # NoFlight => running /\ flight.condition = condition
StaleFlightFindsNoStreak ==
  flight # NoFlight /\ flight.context.taskId # task.id => candidate.count = 0
RuntimeInv ==
  /\ condition \in Conditions /\ running \in BOOLEAN /\ booting \in BOOLEAN
  /\ ~(running /\ booting)
  /\ flight = NoFlight \/ flight \in [context: Policy!Contexts, condition: Conditions]
  /\ starting \in TaskIds \cup {NoTask}
  /\ FlightOfRunning

(* Closings are of tasks started: one start has at most one ending.         *)
EndingsToCome(s) == IF InProgress(s) THEN 1 ELSE 0
StartsToCome == IF starting # NoTask THEN 1 ELSE 0
TaskInv ==
  /\ task \in TaskRecords /\ TaskOK(task)
  /\ closings \in Nat /\ starts \in 0..Len(Plan)
  /\ closings + EndingsToCome(task) + StartsToCome <= starts

(* What a live simplification closed is on the page the user is on.         *)
SurfaceInv ==
  /\ page \in Pages
  /\ open \subseteq Sections /\ (page # "Analytics" => open = {})
  /\ folded \subseteq Sections
  /\ folded # {} => /\ page = "Analytics" /\ "simplify_options" \in Types
                    /\ active["simplify_options"] # Actuator!None

TraceInv ==
  /\ recorded \in SUBSET (Events \X Actuator!Episodes)
  /\ BaselineNeverAdapts /\ NoLostEnding

LoopInv ==
  /\ Actuator!ActuatorInv /\ Policy!PolicyInv
  /\ RuntimeInv /\ StaleFlightFindsNoStreak
  /\ TaskInv /\ SurfaceInv /\ TraceInv

(***************************************************************************)
(* What gestures are, and what they do to a task.                           *)
(***************************************************************************)
(* The clicks of a cleanup are a sequence of finitely many.                 *)
LEMMA ClicksAreSequences ==
  \A S, R : /\ Len(SectionClicks(S)) \in Nat
            /\ Len(SectionClicks(S) \o SectionClicks(R)) \in Nat
            /\ Len(<<ControlClick>> \o SectionClicks(S)) \in Nat
<1> SUFFICES ASSUME NEW S, NEW R
             PROVE  /\ Len(SectionClicks(S)) \in Nat
                    /\ Len(SectionClicks(S) \o SectionClicks(R)) \in Nat
                    /\ Len(<<ControlClick>> \o SectionClicks(S)) \in Nat
  OBVIOUS
<1> DEFINE Interactions == {Click(<<"filter", SectionOrder[k]>>) : k \in 1..4} \cup {ControlClick}
<1>1. \A k \in 1..4 : Click(<<"filter", SectionOrder[k]>>) \in Interactions
  OBVIOUS
<1>c. ControlClick \in Interactions
  OBVIOUS
<1> HIDE DEF Interactions
<1>2. \A k \in 1..4 : \A Q : SectionClick(k, Q) \in Seq(Interactions)
  BY <1>1 DEF SectionClick
<1>3. \A Q : SectionClicks(Q) \in Seq(Interactions)
  <2> SUFFICES ASSUME NEW Q PROVE SectionClicks(Q) \in Seq(Interactions)
    OBVIOUS
  <2>1. SectionClick(1, Q) \in Seq(Interactions) /\ SectionClick(2, Q) \in Seq(Interactions)
        /\ SectionClick(3, Q) \in Seq(Interactions) /\ SectionClick(4, Q) \in Seq(Interactions)
    BY <1>2
  <2> QED
    BY <2>1 DEF SectionClicks
<1>4. <<ControlClick>> \in Seq(Interactions)
  BY <1>c
<1>5. SectionClicks(S) \in Seq(Interactions) /\ SectionClicks(R) \in Seq(Interactions)
  BY <1>3
<1>6. /\ SectionClicks(S) \o SectionClicks(R) \in Seq(Interactions)
      /\ <<ControlClick>> \o SectionClicks(S) \in Seq(Interactions)
  BY <1>4, <1>5
<1> QED
  BY <1>5, <1>6

(* So is every gesture of the user.                                         *)
LEMMA GesturesAreSequences ==
  ASSUME NEW onPage, NEW expanded, NEW gesture \in Gestures(onPage, expanded)
  PROVE  Len(gesture) \in Nat
<1>1. \/ \E i : gesture = <<i>>
      \/ gesture = <<ApplyClick, Submit>>
  BY DEF Gestures, ApplyGesture
<1> QED
  BY <1>1

(* Every task has a step, and no task is undefined.                         *)
LEMMA StepsOfTasks ==
  \A id \in TaskIds : Len(ExpectedSteps[id]) \in Nat \ {0} /\ id # NoTask
<1>1. Len(ExpectedSteps["T1"]) = 4 /\ Len(ExpectedSteps["T2"]) = 2
      /\ Len(ExpectedSteps["T3"]) = 4
  BY DEF ExpectedSteps
<1>2. ASSUME NEW id \in TaskIds
      PROVE  Len(ExpectedSteps[id]) \in Nat \ {0} /\ id # NoTask
  <2>1. id = "T1" \/ id = "T2" \/ id = "T3"
    BY DEF TaskIds
  <2>2. Len(ExpectedSteps[id]) = 4 \/ Len(ExpectedSteps[id]) = 2
    BY <1>1, <2>1
  <2>3. id # NoTask
    BY NoTaskAssumption
  <2> QED
    BY <2>2, <2>3
<1> QED
  BY <1>2

(* A task started or reset is one the task manager may hold.                *)
LEMMA FreshTasks ==
  /\ Idle \in TaskRecords /\ TaskOK(Idle)
  /\ \A id \in TaskIds : Started(id) \in TaskRecords /\ TaskOK(Started(id))
<1>1. Idle \in TaskRecords /\ TaskOK(Idle)
  BY DEF Idle, TaskRecords, TaskOK, Statuses
<1>2. ASSUME NEW id \in TaskIds
      PROVE  Started(id) \in TaskRecords /\ TaskOK(Started(id))
  BY StepsOfTasks DEF Started, TaskRecords, TaskOK, Statuses
<1> QED
  BY <1>1, <1>2

(* What an interaction makes of a task is a task of the same id; one in     *)
(* progress goes on or is completed.                                        *)
Follows(s, next) ==
  /\ next \in TaskRecords /\ TaskOK(next) /\ next.id = s.id
  /\ next.status \in {"In Progress", "Completed"}

(* The successor of a number below the last one is not past it.             *)
LEMMA NextOf ==
  \A m, n : n \in Nat /\ m \in 0..n /\ m # n => m + 1 \in 0..n /\ m + 1 \in Nat
  OBVIOUS

(* recordInteraction takes a task in progress one step on at most.          *)
LEMMA RecordedFollows ==
  ASSUME NEW s \in TaskRecords, TaskOK(s), s.status \in {"In Progress", "Completed"}, NEW i
  PROVE  Follows(s, Recorded(s, i))
<1>1. CASE ~Matches(s, i)
  BY <1>1 DEF Recorded, Follows
<1>2. CASE Matches(s, i)
  <2>1. s.status = "In Progress" /\ s.id \in TaskIds /\ s.step \in 0..Len(ExpectedSteps[s.id])
    BY <1>2 DEF Matches, InProgress, TaskOK
  <2>2. Len(ExpectedSteps[s.id]) \in Nat /\ s.id # NoTask
    BY <2>1, StepsOfTasks
  <2>3. s.step # Len(ExpectedSteps[s.id])
    BY <2>1, <2>2 DEF TaskOK
  <2>4. Recorded(s, i) = CompleteStep(s)
    BY <1>2 DEF Recorded
  <2>6. s.step + 1 \in 0..Len(ExpectedSteps[s.id]) /\ s.step + 1 \in Nat
    BY <2>1, <2>2, <2>3, NextOf
  <2> DEFINE status == IF s.step + 1 = Len(ExpectedSteps[s.id]) THEN "Completed" ELSE s.status
  <2>c. CompleteStep(s) = [s EXCEPT !.step = s.step + 1, !.status = status]
    BY DEF CompleteStep
  <2>k. status \in {"Completed", "In Progress"}
        /\ (status = "Completed" <=> s.step + 1 = Len(ExpectedSteps[s.id]))
    BY <2>1
  <2> HIDE DEF status
  <2>5. /\ CompleteStep(s).id = s.id
        /\ CompleteStep(s).step = s.step + 1
        /\ CompleteStep(s).status = status
        /\ CompleteStep(s) \in TaskRecords
    BY <2>6, <2>c, <2>k DEF TaskRecords, Statuses
  <2>7. TaskOK(CompleteStep(s))
    BY <2>1, <2>2, <2>5, <2>6, <2>k DEF TaskOK, Statuses
  <2> QED
    BY <2>4, <2>5, <2>7, <2>k DEF Follows
<1> QED
  BY <1>1, <1>2

(* So does a whole gesture, by induction on its interactions.               *)
LEMMA GestureFollows ==
  ASSUME NEW s \in TaskRecords, TaskOK(s), NEW gesture, Len(gesture) \in Nat
  PROVE  /\ ~InProgress(s) => RecordedAll(s, gesture) = s
         /\ InProgress(s) => Follows(s, RecordedAll(s, gesture))
<1>1. ~InProgress(s) => RecordedAll(s, gesture) = s
  BY DEF RecordedAll
<1>2. ASSUME InProgress(s) PROVE Follows(s, RecordedAll(s, gesture))
  <2> DEFINE after == TaskAlong(s, gesture)
             N == {n \in Nat : n <= Len(gesture) => Follows(s, after[n])}
  <2> DEFINE Is(h) == h = [k \in 0..Len(gesture) |->
                             IF k = 0 THEN s ELSE Recorded(h[k - 1], gesture[k])]
  <2>e. \E h : Is(h)
    <3> DEFINE D == {next \in TaskRecords : Follows(s, next)}
               step == [d \in D \X (1..Len(gesture)) |-> Recorded(d[1], gesture[d[2]])]
    <3>1. s \in D
      BY <1>2 DEF Follows, InProgress
    <3>2. ASSUME NEW d \in D \X (1..Len(gesture)) PROVE Recorded(d[1], gesture[d[2]]) \in D
      <4>1. d[1] \in TaskRecords /\ Follows(s, d[1])
        OBVIOUS
      <4>2. Follows(d[1], Recorded(d[1], gesture[d[2]]))
        BY <4>1, RecordedFollows DEF Follows
      <4> QED
        BY <4>1, <4>2 DEF Follows
    <3>3. step \in [D \X (1..Len(gesture)) -> D]
      BY <3>2
    <3>4. \A v \in D, k \in 1..Len(gesture) : step[<<v, k>>] = Recorded(v, gesture[k])
      OBVIOUS
    <3> HIDE DEF D, step
    <3>5. PICK f : ActuatorTheory!Unfolds(f, Len(gesture), D, s, step)
      BY <3>1, <3>3, ActuatorAssumed, ActuatorTheory!RecursionExists
    <3>6. f \in [0..Len(gesture) -> D] /\ f[0] = s
      BY <3>5 DEF ActuatorTheory!Unfolds
    <3>7. ASSUME NEW k \in 0..Len(gesture), k # 0 PROVE f[k] = Recorded(f[k - 1], gesture[k])
      <4>1. k \in 1..Len(gesture) /\ k - 1 \in 0..Len(gesture)
        BY <3>7
      <4> QED
        BY <4>1, <3>4, <3>5, <3>6 DEF ActuatorTheory!Unfolds
    <3>8. Is(f)
      BY <3>6, <3>7
    <3> QED
      BY <3>8
  <2>c. after = CHOOSE h : Is(h)
    BY DEF TaskAlong
  <2>1. after = [k \in 0..Len(gesture) |->
                   IF k = 0 THEN s ELSE Recorded(after[k - 1], gesture[k])]
    <3>1. Is(after)
      <4> HIDE DEF Is, after
      <4> QED
        BY <2>e, <2>c
    <3> QED
      BY <3>1
  <2> HIDE DEF Is
  <2> HIDE DEF after
  <2>2. 0 \in N
    <3>1. after[0] = s
      BY <2>1
    <3>2. Follows(s, s)
      BY <1>2 DEF Follows, InProgress
    <3> QED
      BY <3>1, <3>2
  <2>3. ASSUME NEW n \in Nat, n \in N PROVE n + 1 \in N
    <3> SUFFICES ASSUME n + 1 <= Len(gesture) PROVE Follows(s, after[n + 1])
      OBVIOUS
    <3>1. n \in 0..Len(gesture) /\ n + 1 \in 0..Len(gesture) /\ n + 1 # 0 /\ (n + 1) - 1 = n
      OBVIOUS
    <3>2. Follows(s, after[n])
      BY <2>3, <3>1
    <3>3. after[n + 1] = Recorded(after[n], gesture[n + 1])
      BY <2>1, <3>1
    <3>4. Follows(after[n], Recorded(after[n], gesture[n + 1]))
      BY <3>2, RecordedFollows DEF Follows
    <3> QED
      BY <3>2, <3>3, <3>4 DEF Follows
  <2> HIDE DEF N
  <2>4. N \in SUBSET Nat
    BY DEF N
  <2>5. N = Nat
    BY <2>2, <2>3, <2>4, ActuatorAssumed, ActuatorTheory!Induction
  <2>6. Follows(s, after[Len(gesture)])
    BY <2>5 DEF N
  <2> QED
    BY <1>2, <2>6 DEF RecordedAll, after
<1> QED
  BY <1>1, <1>2

(***************************************************************************)
(* What the two components guarantee, carried over to the loop.             *)
(***************************************************************************)
(* The actuator keeps its invariant whatever the loop asks of it.           *)
LEMMA ActuatorStep ==
  ASSUME Actuator!ActuatorInv, Actuator!Next \/ UNCHANGED actuator
  PROVE  Actuator!ActuatorInv'
<1> USE DEF
  Actuator!ActuatorInv, ActuatorTheory!ActuatorInv, Actuator!TypeOK, ActuatorTheory!TypeOK,
  Actuator!Episodes, ActuatorTheory!Episodes,
  Actuator!EpisodeAccounting, ActuatorTheory!EpisodeAccounting,
  Actuator!BegunOnly, ActuatorTheory!BegunOnly,
  Actuator!TimersOfLiveEpisodes, ActuatorTheory!TimersOfLiveEpisodes,
  Actuator!HandlersOfLiveEpisodes, ActuatorTheory!HandlersOfLiveEpisodes,
  Actuator!None, ActuatorTheory!None, Actuator!Dismissible, ActuatorTheory!Dismissible
<1>1. Actuator!ActuatorInv => ActuatorTheory!ActuatorInv
  OBVIOUS
<1>2. Actuator!ActuatorInv' <=> ActuatorTheory!ActuatorInv'
  OBVIOUS
<1>3. Actuator!Next => ActuatorTheory!Next
  BY DEF
    Actuator!Next, ActuatorTheory!Next, Actuator!Apply, ActuatorTheory!Apply,
    Actuator!Expire, ActuatorTheory!Expire, Actuator!PressEscape, ActuatorTheory!PressEscape,
    Actuator!ClickDismiss, ActuatorTheory!ClickDismiss, Actuator!Reset, ActuatorTheory!Reset,
    Actuator!Dismiss, ActuatorTheory!Dismiss, Actuator!Clear, ActuatorTheory!Clear,
    Actuator!ActiveAfter, ActuatorTheory!ActiveAfter,
    Actuator!TimersAfter, ActuatorTheory!TimersAfter,
    Actuator!HandlersAfter, ActuatorTheory!HandlersAfter,
    Actuator!RevertedAfter, ActuatorTheory!RevertedAfter,
    Actuator!ActiveIn, ActuatorTheory!ActiveIn, Actuator!WithButton, ActuatorTheory!WithButton
<1>4. UNCHANGED actuator => UNCHANGED ActuatorTheory!actuatorVars
  BY DEF actuator, ActuatorTheory!actuatorVars
<1>5. ActuatorTheory!ActuatorAssumption
  BY ActuatorAssumed
<1> HIDE DEF ActuatorTheory!ActuatorInv, Actuator!ActuatorInv
<1>6. ActuatorTheory!ActuatorInv /\ [ActuatorTheory!Next]_ActuatorTheory!actuatorVars
        => ActuatorTheory!ActuatorInv'
  BY <1>5, ActuatorTheory!NextActuatorInv
<1> QED
  BY <1>1, <1>2, <1>3, <1>4, <1>6

(* It starts with it.                                                       *)
LEMMA ActuatorStart == Actuator!Init => Actuator!ActuatorInv
<1>1. ActuatorTheory!ActuatorAssumption
  BY ActuatorAssumed
<1>2. Actuator!Init => ActuatorTheory!Init
  BY DEF Actuator!Init, ActuatorTheory!Init, Actuator!Episodes, ActuatorTheory!Episodes,
         Actuator!None, ActuatorTheory!None
<1>3. ActuatorTheory!Init => ActuatorTheory!ActuatorInv
  BY <1>1, ActuatorTheory!InitActuatorInv
<1>4. ActuatorTheory!ActuatorInv => Actuator!ActuatorInv
  BY DEF
  Actuator!ActuatorInv, ActuatorTheory!ActuatorInv, Actuator!TypeOK, ActuatorTheory!TypeOK,
  Actuator!Episodes, ActuatorTheory!Episodes,
  Actuator!EpisodeAccounting, ActuatorTheory!EpisodeAccounting,
  Actuator!BegunOnly, ActuatorTheory!BegunOnly,
  Actuator!TimersOfLiveEpisodes, ActuatorTheory!TimersOfLiveEpisodes,
  Actuator!HandlersOfLiveEpisodes, ActuatorTheory!HandlersOfLiveEpisodes,
  Actuator!None, ActuatorTheory!None, Actuator!Dismissible, ActuatorTheory!Dismissible
<1> QED
  BY <1>2, <1>3, <1>4

(* The constants are what the policy assumes.                               *)
LEMMA PolicyConstants == PolicyTheory!PolicyAssumption
  BY ComponentsAssumption DEF PolicyTheory!PolicyAssumption

(* The policy's invariant, as the loop and as its theory name it.           *)
LEMMA PolicyInvOfTheory ==
  /\ Policy!PolicyInv <=> PolicyTheory!PolicyInv
  /\ Policy!PolicyInv' <=> PolicyTheory!PolicyInv'
  BY DEF
    Policy!PolicyInv, PolicyTheory!PolicyInv, Policy!TypeOK, PolicyTheory!TypeOK,
    Policy!CooldownCovers, PolicyTheory!CooldownCovers,
    Policy!CooldownSpacing, PolicyTheory!CooldownSpacing,
    Policy!DismissalCovers, PolicyTheory!DismissalCovers,
    Policy!DismissalHonoured, PolicyTheory!DismissalHonoured,
    Policy!StreakOfLastTask, PolicyTheory!StreakOfLastTask

(* The policy starts with its invariant.                                    *)
LEMMA PolicyStart == Policy!Init => Policy!PolicyInv
<1>1. Policy!Init => PolicyTheory!Init
  BY DEF Policy!Init, PolicyTheory!Init, Policy!NoCandidate, PolicyTheory!NoCandidate,
         Policy!NeverDismissed, PolicyTheory!NeverDismissed,
         Policy!NoInstants, PolicyTheory!NoInstants
<1>2. PolicyTheory!Init => PolicyTheory!PolicyInv
  BY PolicyConstants, PolicyTheory!InitPolicyInv
<1> QED
  BY <1>1, <1>2, PolicyInvOfTheory

(* A reset, the passing of time and what leaves it alone keep it.           *)
LEMMA PolicyStep ==
  ASSUME Policy!PolicyInv, Policy!Reset \/ Policy!Tick \/ PolicyKept
  PROVE  Policy!PolicyInv'
<1>1. Policy!Reset => PolicyTheory!Reset
  BY DEF Policy!Reset, PolicyTheory!Reset, Policy!NoCandidate, PolicyTheory!NoCandidate,
         Policy!NeverDismissed, PolicyTheory!NeverDismissed,
         Policy!NoInstants, PolicyTheory!NoInstants
<1>2. Policy!Tick => PolicyTheory!Tick
  BY DEF Policy!Tick, PolicyTheory!Tick, Policy!policyVars, PolicyTheory!policyVars,
         Policy!historyVars, PolicyTheory!historyVars
<1>3. PolicyKept => UNCHANGED PolicyTheory!vars
  BY DEF PolicyKept, policy, PolicyTheory!vars, PolicyTheory!policyVars, PolicyTheory!historyVars
<1>4. [PolicyTheory!Next]_PolicyTheory!vars
  BY <1>1, <1>2, <1>3 DEF PolicyTheory!Next
<1>5. PolicyTheory!PolicyInv
  BY PolicyInvOfTheory
<1>6. PolicyTheory!PolicyInv'
  BY <1>4, <1>5, PolicyConstants, PolicyTheory!NextPolicyInv
<1> QED
  BY <1>6, PolicyInvOfTheory

(* So does accept(), of a command and a context like the loop's.            *)
LEMMA PolicyAccepts ==
  ASSUME Policy!PolicyInv, NEW cmd \in Policy!Commands, NEW ctx \in Policy!Contexts,
         Policy!Accept(cmd, ctx)
  PROVE  Policy!PolicyInv'
<1>1. cmd \in PolicyTheory!Commands /\ ctx \in PolicyTheory!Contexts
  BY DEF Policy!Commands, PolicyTheory!Commands, Policy!Contexts, PolicyTheory!Contexts
<1>2. PolicyTheory!Accept(cmd, ctx)
  BY DEF
    Policy!Accept, PolicyTheory!Accept, Policy!AcceptHistory, PolicyTheory!AcceptHistory,
    Policy!Category, PolicyTheory!Category, Policy!Breaks, PolicyTheory!Breaks,
    Policy!Counts, PolicyTheory!Counts, Policy!CountAfter, PolicyTheory!CountAfter,
    Policy!SameCandidate, PolicyTheory!SameCandidate,
    Policy!CandidateSeen, PolicyTheory!CandidateSeen,
    Policy!CooldownSeen, PolicyTheory!CooldownSeen,
    Policy!DismissedSeen, PolicyTheory!DismissedSeen,
    Policy!TaskSwitched, PolicyTheory!TaskSwitched, Policy!Eligible, PolicyTheory!Eligible,
    Policy!NoCandidate, PolicyTheory!NoCandidate,
    Policy!NeverDismissed, PolicyTheory!NeverDismissed,
    Policy!NoInstants, PolicyTheory!NoInstants
<1>3. PolicyTheory!PolicyInv
  BY PolicyInvOfTheory
<1>4. PolicyTheory!PolicyInv'
  BY <1>1, <1>2, <1>3, PolicyConstants, PolicyTheory!AcceptPolicyInv
<1> QED
  BY <1>4, PolicyInvOfTheory

(* Several dismissals at one instant keep the policy's invariant.           *)
LEMMA PolicyHearsDismissals ==
  ASSUME Policy!PolicyInv, NEW S \in SUBSET Types, DismissalNoted(S)
  PROVE  Policy!PolicyInv' /\ candidate'.count = 0
<1>types. /\ now \in Nat /\ DismissalCooldownMs \in Nat
          /\ dismissedUntil \in [Types -> Nat] /\ dismissedAt \in [Types -> SUBSET Nat]
  BY ComponentsAssumption DEF Policy!PolicyInv, Policy!TypeOK
<1>new. /\ candidate' = Policy!NoCandidate /\ endorsedIn' = {}
        /\ dismissedUntil' = [t \in Types |->
             IF t \in S THEN now + DismissalCooldownMs ELSE dismissedUntil[t]]
        /\ dismissedAt' = [t \in Types |->
             IF t \in S THEN dismissedAt[t] \cup {now} ELSE dismissedAt[t]]
        /\ UNCHANGED <<now, lastTaskId, cooldownUntil, acceptedAt>>
  BY DEF DismissalNoted
<1>grown. \A t \in Types : \A d \in dismissedAt'[t] :
            d \in dismissedAt[t] \/ (t \in S /\ d = now)
  BY <1>new
<1>1. Policy!TypeOK'
  <2>1. dismissedUntil' \in [Types -> Nat] /\ dismissedAt' \in [Types -> SUBSET Nat]
    BY <1>new, <1>types
  <2> QED
    BY <1>new, <2>1 DEF Policy!PolicyInv, Policy!TypeOK, Policy!NoCandidate
<1>2. Policy!CooldownCovers' /\ Policy!CooldownSpacing' /\ Policy!StreakOfLastTask'
  BY <1>new DEF Policy!PolicyInv, Policy!CooldownCovers, Policy!CooldownSpacing,
                Policy!StreakOfLastTask
<1>3. Policy!DismissalCovers'
  BY <1>new, <1>types, <1>grown DEF Policy!PolicyInv, Policy!DismissalCovers
<1>4. Policy!DismissalHonoured'
  <2> SUFFICES ASSUME NEW t \in Types, NEW d \in dismissedAt'[t], NEW a \in acceptedAt[t], a > d
               PROVE  a - d >= DismissalCooldownMs
    BY <1>new DEF Policy!DismissalHonoured
  <2>1. a <= now /\ a \in Nat
    BY DEF Policy!PolicyInv, Policy!CooldownCovers, Policy!TypeOK
  <2>2. d \in dismissedAt[t]
    BY <2>1, <1>grown, <1>types
  <2> QED
    BY <2>2 DEF Policy!PolicyInv, Policy!DismissalHonoured
<1> QED
  BY <1>1, <1>2, <1>3, <1>4, <1>new DEF Policy!PolicyInv, Policy!NoCandidate

(* A reset forgets the streak.                                              *)
LEMMA ResetForgetsTheStreak == Policy!Reset => candidate'.count = 0 /\ now' = now
  BY DEF Policy!Reset, Policy!NoCandidate

(***************************************************************************)
(* What the steps of the loop have in common.                               *)
(***************************************************************************)
(* What the observer sees keeps the task, its id and the count of endings.  *)
LEMMA ObservedTask ==
  ASSUME TaskInv, NEW gesture, Len(gesture) \in Nat, Observe(gesture)
  PROVE  /\ task' \in TaskRecords /\ TaskOK(task') /\ task'.id = task.id
         /\ closings' \in Nat
         /\ closings' + EndingsToCome(task') <= closings + EndingsToCome(task)
<1>inv. task \in TaskRecords /\ TaskOK(task) /\ closings \in Nat
  BY DEF TaskInv
<1>new. /\ task' = TaskSeeing(gesture)
        /\ closings' = IF ~Terminal(task) /\ Terminal(task') THEN closings + 1 ELSE closings
  BY DEF Observe, Closed
<1>one. \A s : EndingsToCome(s) \in Nat
  BY DEF EndingsToCome
<1>1. CASE task' = task
  <2>1. closings' = closings /\ EndingsToCome(task') = EndingsToCome(task)
    BY <1>1, <1>new
  <2> QED
    BY <1>1, <2>1, <1>inv, <1>one
<1>2. CASE task' # task
  <2>1. task' = RecordedAll(task, gesture)
    BY <1>2, <1>new DEF TaskSeeing
  <2>2. InProgress(task) /\ Follows(task, task')
    BY <2>1, <1>2, <1>inv, GestureFollows
  <2>3. Terminal(task') => ~InProgress(task')
    BY DEF Terminal, InProgress
  <2>4. EndingsToCome(task) = 1
    BY <2>2 DEF EndingsToCome
  <2>5. \/ closings' = closings /\ EndingsToCome(task') = 1
        \/ closings' = closings + 1 /\ EndingsToCome(task') = 0
    <3>1. ~Terminal(task)
      BY <2>2 DEF Terminal, InProgress
    <3>2. Terminal(task') \/ InProgress(task')
      BY <2>2 DEF Follows, Terminal, InProgress
    <3>3. Terminal(task') => EndingsToCome(task') = 0
      BY <2>3 DEF EndingsToCome
    <3>4. ~Terminal(task') => EndingsToCome(task') = 1
      BY <3>2 DEF EndingsToCome
    <3>5. CASE Terminal(task')
      BY <3>1, <3>3, <3>5, <1>new
    <3>6. CASE ~Terminal(task')
      BY <3>1, <3>4, <3>6, <1>new
    <3> QED
      BY <3>5, <3>6
  <2>6. closings' + EndingsToCome(task') <= closings + 1 /\ closings' \in Nat
    BY <2>5, <1>inv
  <2> QED
    BY <2>2, <2>4, <2>6 DEF Follows
<1> QED
  BY <1>1, <1>2

(* So an observed step that starts nothing keeps the tasks' invariant.      *)
LEMMA ObservingKeepsTaskInv ==
  ASSUME TaskInv, NEW gesture, Len(gesture) \in Nat, Observe(gesture),
         starts' = starts, starting' = starting
  PROVE  TaskInv' /\ task'.id = task.id
<1>1. /\ task' \in TaskRecords /\ TaskOK(task') /\ task'.id = task.id
      /\ closings' \in Nat
      /\ closings' + EndingsToCome(task') <= closings + EndingsToCome(task)
  BY ObservedTask
<1>2. /\ closings \in Nat /\ starts \in 0..Len(Plan) /\ Len(Plan) \in Nat
      /\ closings + EndingsToCome(task) + StartsToCome <= starts
  BY LoopAssumption DEF TaskInv
<1>3. /\ EndingsToCome(task') \in Nat /\ EndingsToCome(task) \in Nat
      /\ StartsToCome \in Nat /\ StartsToCome' = StartsToCome /\ EndingsToCome(task)' = EndingsToCome(task')
  BY DEF EndingsToCome, StartsToCome
<1>4. closings' + EndingsToCome(task') + StartsToCome <= starts
  BY <1>1, <1>2, <1>3
<1> QED
  BY <1>1, <1>2, <1>3, <1>4 DEF TaskInv

(* The clicks of a cleanup and the gestures of a user are finite.           *)
LEMMA CleanupsAreSequences ==
  \A S, R : /\ Len(CleanupClicks(S)) \in Nat
            /\ Len(CleanupClicks(S) \o SectionClicks(R)) \in Nat
            /\ Len(<<ControlClick>> \o CleanupClicks(S)) \in Nat
  BY ClicksAreSequences DEF CleanupClicks

(* Clearing the adaptations of some types records the end of each of them,  *)
(* so the trace has no ending missing; what else a step records is no       *)
(* application.                                                             *)
LEMMA ClearingKeepsTrace ==
  ASSUME TraceInv, Actuator!ActuatorInv, NEW S \in SUBSET Types, active' = Actuator!ActiveAfter(S),
         NEW D \in SUBSET (Events \X Actuator!Episodes), \A e : <<"applied", e>> \notin D,
         recorded' = recorded \cup Ended(S) \cup D, condition' = condition
  PROVE  TraceInv'
<1>inv. /\ recorded \in SUBSET (Events \X Actuator!Episodes)
        /\ BaselineNeverAdapts /\ NoLostEnding
        /\ active \in [Types -> 0..MaxEpisodes] /\ MaxEpisodes \in Nat
  BY LoopAssumption DEF TraceInv, Actuator!ActuatorInv, Actuator!TypeOK
<1>live. \A e \in Actuator!Episodes : (\E t \in S : active[t] = e) => <<"reverted", e>> \in Ended(S)
  BY DEF Ended, LiveIn, Actuator!ActiveIn, Actuator!None, Actuator!Episodes
<1>ended. Ended(S) \in SUBSET (Events \X Actuator!Episodes) /\ \A e : <<"applied", e>> \notin Ended(S)
  <2>1. LiveIn(S) \subseteq Actuator!Episodes
    BY <1>inv DEF LiveIn, Actuator!ActiveIn, Actuator!None, Actuator!Episodes
  <2> QED
    BY <2>1 DEF Ended, Events
<1>active. active' = [t \in Types |-> IF t \in S THEN Actuator!None ELSE active[t]]
  BY DEF Actuator!ActiveAfter
<1>1. recorded' \in SUBSET (Events \X Actuator!Episodes)
  BY <1>inv, <1>ended
<1>2. BaselineNeverAdapts'
  BY <1>inv, <1>ended, <1>active DEF BaselineNeverAdapts
<1>3. NoLostEnding'
  <2> SUFFICES ASSUME NEW e \in Actuator!Episodes, <<"applied", e>> \in recorded',
                      \A t \in Types : active'[t] # e
               PROVE  <<"reverted", e>> \in recorded'
    BY DEF NoLostEnding, Actuator!Episodes
  <2>1. <<"applied", e>> \in recorded
    BY <1>ended
  <2>2. CASE \E t \in S : active[t] = e
    BY <2>2, <1>live
  <2>3. CASE ~\E t \in S : active[t] = e
    <3>1. \A t \in Types : active[t] # e
      BY <2>3, <1>active
    <3> QED
      BY <2>1, <3>1, <1>inv DEF NoLostEnding
  <2> QED
    BY <2>2, <2>3
<1> QED
  BY <1>1, <1>2, <1>3 DEF TraceInv, Actuator!Episodes

(* In particular a step that records no more than those endings.            *)
LEMMA EndingKeepsTrace ==
  ASSUME TraceInv, Actuator!ActuatorInv, NEW S \in SUBSET Types, active' = Actuator!ActiveAfter(S),
         recorded' = recorded \cup Ended(S), condition' = condition
  PROVE  TraceInv'
<1> DEFINE D == {}
<1>1. D \in SUBSET (Events \X Actuator!Episodes) /\ \A e : <<"applied", e>> \notin D
  OBVIOUS
<1>2. recorded' = recorded \cup Ended(S) \cup D
  OBVIOUS
<1> HIDE DEF D
<1> QED
  BY <1>1, <1>2, ClearingKeepsTrace

(* Undoing a simplification on the page forgets what it had closed.         *)
LEMMA RestoringKeepsSurface ==
  ASSUME SurfaceInv, NEW S \in SUBSET Types, active' = Actuator!ActiveAfter(S), Restore(S)
  PROVE  SurfaceInv'
<1>1. Reopened(S) \subseteq folded
  BY DEF Reopened
<1>2. /\ open' = open \cup Reopened(S) /\ page' = page
      /\ folded' = IF "simplify_options" \in S THEN {} ELSE folded
  BY DEF Restore
<1>3. "simplify_options" \in Types /\ "simplify_options" \notin S
        => active'["simplify_options"] = active["simplify_options"]
  BY DEF Actuator!ActiveAfter
<1> QED
  BY <1>1, <1>2, <1>3 DEF SurfaceInv, Actuator!None

(* A step that leaves a part of the state alone keeps what holds of it.     *)
LEMMA LeftAlone ==
  /\ RuntimeInv /\ UNCHANGED runtime => RuntimeInv'
  /\ TaskInv /\ UNCHANGED <<task, closings, starts, starting>> => TaskInv'
  /\ SurfaceInv /\ UNCHANGED surface /\ active' = active => SurfaceInv'
  /\ TraceInv /\ UNCHANGED <<recorded, condition, active>> => TraceInv'
<1>1. RuntimeInv /\ UNCHANGED runtime => RuntimeInv'
  BY DEF RuntimeInv, FlightOfRunning, runtime, Policy!Contexts, Conditions
<1>2. TaskInv /\ UNCHANGED <<task, closings, starts, starting>> => TaskInv'
  BY DEF TaskInv, EndingsToCome, StartsToCome, TaskOK, TaskRecords
<1>3. SurfaceInv /\ UNCHANGED surface /\ active' = active => SurfaceInv'
  BY DEF SurfaceInv, surface, Actuator!None
<1>4. TraceInv /\ UNCHANGED <<recorded, condition, active>> => TraceInv'
  BY DEF TraceInv, BaselineNeverAdapts, NoLostEnding, Actuator!None, Actuator!Episodes
<1> QED
  BY <1>1, <1>2, <1>3, <1>4

(* An evaluation that ends leaves the runtime as it was.                    *)
LEMMA FlightEnds ==
  ASSUME RuntimeInv, flight' = NoFlight, UNCHANGED <<condition, running, booting, starting>>
  PROVE  RuntimeInv' /\ StaleFlightFindsNoStreak'
  BY DEF RuntimeInv, FlightOfRunning, StaleFlightFindsNoStreak

(* A step under observation leaves the streak to the same task or ends it.  *)
LEMMA StreakObserved ==
  ASSUME StaleFlightFindsNoStreak, flight' = flight, task'.id = task.id,
         Policy!Reset \/ candidate' = candidate \/ candidate'.count = 0
  PROVE  StaleFlightFindsNoStreak'
  BY ResetForgetsTheStreak DEF StaleFlightFindsNoStreak

(* evaluateAndAct keeps the invariant: the context it reads is of now.      *)
LEMMA EvaluateKeepsInv ==
  ASSUME LoopInv, NEW expandable \in BOOLEAN, Evaluate(expandable)
  PROVE  LoopInv'
<1>inv. /\ Actuator!ActuatorInv /\ Policy!PolicyInv
        /\ RuntimeInv /\ TaskInv /\ SurfaceInv /\ TraceInv
  BY DEF LoopInv
<1>same. UNCHANGED <<now, policy, actuator, condition, running, booting, starting, recorded,
                     closings, task, surface, starts, switches>>
  BY DEF Evaluate
<1> DEFINE context == ActiveUIContext(page, task.id, expandable)
<1>1. flight' = [context |-> context, condition |-> condition] /\ running
  BY DEF Evaluate
<1>2. context \in Policy!Contexts /\ context.taskId = task.id
  BY <1>inv DEF ActiveUIContext, Policy!Contexts, TaskInv, TaskRecords
<1> HIDE DEF context
<1>3. flight' \in [context: Policy!Contexts, condition: Conditions]
  BY <1>1, <1>2, <1>inv DEF RuntimeInv
<1>4. RuntimeInv'
  BY <1>1, <1>3, <1>inv, <1>same
  DEF RuntimeInv, FlightOfRunning, Policy!Contexts, Conditions
<1>5. StaleFlightFindsNoStreak'
  BY <1>1, <1>2, <1>same DEF StaleFlightFindsNoStreak
<1>6. Actuator!ActuatorInv' /\ Policy!PolicyInv'
  BY <1>inv, <1>same, ActuatorStep, PolicyStep DEF PolicyKept
<1>7. TaskInv' /\ SurfaceInv' /\ TraceInv'
  BY <1>inv, <1>same, LeftAlone DEF actuator
<1> QED
  BY <1>4, <1>5, <1>6, <1>7 DEF LoopInv

(* A recommendation and the context of a flight are what the policy takes.  *)
LEMMA WhatThePolicyJudges ==
  ASSUME RuntimeInv, flight # NoFlight, NEW type \in Types
  PROVE  Recommendation(type) \in Policy!Commands /\ flight.context \in Policy!Contexts
  BY DEF RuntimeInv, Recommendation, Policy!Commands

(* An answer that adapts nothing keeps the invariant.                       *)
LEMMA AnswerNothingKeepsInv ==
  ASSUME LoopInv, AnswerNothing
  PROVE  LoopInv'
<1>inv. /\ Actuator!ActuatorInv /\ Policy!PolicyInv
        /\ RuntimeInv /\ TaskInv /\ SurfaceInv /\ TraceInv
  BY DEF LoopInv
<1>same. flight' = NoFlight
         /\ UNCHANGED <<now, policy, actuator, condition, running, booting, starting, recorded,
                        closings, task, surface, starts, switches>>
  BY DEF AnswerNothing
<1>1. RuntimeInv' /\ StaleFlightFindsNoStreak'
  BY <1>inv, <1>same, FlightEnds
<1>2. Actuator!ActuatorInv' /\ Policy!PolicyInv'
  BY <1>inv, <1>same, ActuatorStep, PolicyStep DEF PolicyKept
<1>3. TaskInv' /\ SurfaceInv' /\ TraceInv'
  BY <1>inv, <1>same, LeftAlone DEF actuator
<1> QED
  BY <1>1, <1>2, <1>3 DEF LoopInv

(* So does one the policy refuses, or accepts under baseline.               *)
LEMMA AnswerUnappliedKeepsInv ==
  ASSUME LoopInv, NEW type \in Types, AnswerUnapplied(type)
  PROVE  LoopInv'
<1>inv. /\ Actuator!ActuatorInv /\ Policy!PolicyInv
        /\ RuntimeInv /\ TaskInv /\ SurfaceInv /\ TraceInv
  BY DEF LoopInv
<1>same. flight # NoFlight /\ flight' = NoFlight
         /\ UNCHANGED <<actuator, condition, running, booting, starting, recorded,
                        closings, task, surface, starts, switches>>
  BY DEF AnswerUnapplied
<1>1. RuntimeInv' /\ StaleFlightFindsNoStreak'
  BY <1>inv, <1>same, FlightEnds
<1>2. Actuator!ActuatorInv'
  BY <1>inv, <1>same, ActuatorStep
<1>3. Policy!PolicyInv'
  BY <1>inv, <1>same, PolicyAccepts, WhatThePolicyJudges DEF AnswerUnapplied
<1>4. TaskInv' /\ SurfaceInv' /\ TraceInv'
  BY <1>inv, <1>same, LeftAlone DEF actuator
<1> QED
  BY <1>1, <1>2, <1>3, <1>4 DEF LoopInv

(* An answer that is applied replaces what its type had on the page.        *)
LEMMA AnswerAppliedKeepsInv ==
  ASSUME LoopInv, NEW type \in Types, NEW focused, AnswerApplied(type, focused)
  PROVE  LoopInv'
<1> DEFINE clicks == CleanupClicks({type}) \o SectionClicks(Closable(type, focused))
           new == begun + 1
<1>inv. /\ Actuator!ActuatorInv /\ Policy!PolicyInv
        /\ RuntimeInv /\ TaskInv /\ SurfaceInv /\ TraceInv
  BY DEF LoopInv
<1>types. /\ active \in [Types -> 0..MaxEpisodes] /\ begun \in Nat /\ MaxEpisodes \in Nat
          /\ recorded \in SUBSET (Events \X Actuator!Episodes)
  BY <1>inv, LoopAssumption DEF Actuator!ActuatorInv, Actuator!TypeOK, TraceInv
<1>same. /\ flight # NoFlight /\ flight.condition = "adaptive" /\ flight' = NoFlight
         /\ UNCHANGED <<condition, running, booting, starting, page, starts, switches>>
  BY DEF AnswerApplied
<1>found. Found(type) \in BOOLEAN
  BY DEF Found
<1>apply. Actuator!Apply(type, Found(type))
  BY DEF AnswerApplied
<1>new. /\ new \in Actuator!Episodes
        /\ active' = IF Found(type) THEN [active EXCEPT ![type] = new]
                     ELSE Actuator!ActiveAfter({type})
  BY <1>apply, <1>types DEF Actuator!Apply, Actuator!Episodes
<1>traced. recorded' = recorded \cup Ended({type})
                         \cup (IF Found(type) THEN {<<"applied", new>>} ELSE {})
  BY DEF AnswerApplied
<1>clicks. Len(clicks) \in Nat /\ Observe(clicks)
  BY CleanupsAreSequences DEF AnswerApplied
<1>1. RuntimeInv' /\ StaleFlightFindsNoStreak'
  BY <1>inv, <1>same, FlightEnds
<1>2. Actuator!ActuatorInv'
  BY <1>inv, <1>apply, <1>found, ActuatorStep DEF Actuator!Next
<1>3. Policy!PolicyInv'
  <2>1. Policy!Reset \/ Policy!Accept(Recommendation(type), flight.context)
    BY DEF AnswerApplied
  <2> QED
    BY <2>1, <1>inv, <1>same, PolicyStep, PolicyAccepts, WhatThePolicyJudges
<1>4. TaskInv'
  BY <1>inv, <1>same, <1>clicks, ObservingKeepsTaskInv
<1>5. SurfaceInv'
  <2> DEFINE closed == Closable(type, focused)
  <2>1. /\ open' = (open \ closed) \cup Reopened({type}) /\ page' = page
        /\ folded' = IF type = "simplify_options" THEN closed ELSE folded
    BY <1>same DEF AnswerApplied
  <2>2. Reopened({type}) \subseteq folded
    BY DEF Reopened
  <2>3. closed \subseteq open /\ (closed # {} => type = "simplify_options" /\ page = "Analytics")
    BY DEF Closable
  <2> HIDE DEF closed
  <2>4. type = "simplify_options" /\ page = "Analytics" => active'["simplify_options"] = new
    BY <1>new, <1>types DEF Found
  <2>5. type # "simplify_options" /\ "simplify_options" \in Types
          => active'["simplify_options"] = active["simplify_options"]
    BY <1>new, <1>types DEF Actuator!ActiveAfter
  <2>6. new # Actuator!None
    BY <1>types DEF Actuator!None
  <2>7. open' \subseteq Sections /\ folded' \subseteq Sections /\ page' \in Pages
        /\ (page' # "Analytics" => open' = {})
    BY <1>inv, <2>1, <2>2, <2>3 DEF SurfaceInv
  <2>8. ASSUME folded' # {}
        PROVE  /\ page' = "Analytics" /\ "simplify_options" \in Types
               /\ active'["simplify_options"] # Actuator!None
    BY <1>inv, <2>1, <2>3, <2>4, <2>5, <2>6, <2>8 DEF SurfaceInv
  <2> QED
    BY <2>7, <2>8 DEF SurfaceInv, Actuator!None
<1>6. TraceInv'
  <2>1. LiveIn({type}) = {active[type]} \ {Actuator!None}
    BY DEF LiveIn, Actuator!ActiveIn
  <2>2. Ended({type}) \in SUBSET (Events \X Actuator!Episodes)
    BY <2>1, <1>types DEF Ended, Events, Actuator!Episodes, Actuator!None
  <2>3. recorded' \in SUBSET (Events \X Actuator!Episodes)
    BY <2>2, <1>types, <1>traced, <1>new DEF Events
  <2>4. condition' = "adaptive"
    BY <1>inv, <1>same DEF RuntimeInv, FlightOfRunning
  <2>5. NoLostEnding'
    <3> SUFFICES ASSUME NEW e \in Actuator!Episodes, <<"applied", e>> \in recorded',
                        \A t \in Types : active'[t] # e
                 PROVE  <<"reverted", e>> \in recorded'
      BY DEF NoLostEnding, Actuator!Episodes
    <3>1. Found(type) => active'[type] = new
      BY <1>new, <1>types
    <3>2. <<"applied", e>> \in recorded
      BY <3>1, <1>traced DEF Ended
    <3>3. CASE active[type] = e
      <4>1. <<"reverted", e>> \in Ended({type})
        BY <2>1, <3>3 DEF Ended, Actuator!Episodes, Actuator!None
      <4> QED
        BY <4>1, <1>traced
    <3>4. CASE active[type] # e
      <4>1. \A t \in Types : t # type => active'[t] = active[t]
        BY <1>new, <1>types DEF Actuator!ActiveAfter
      <4>2. \A t \in Types : active[t] # e
        BY <4>1, <3>4
      <4> QED
        BY <4>2, <3>2, <1>inv, <1>traced DEF TraceInv, NoLostEnding
    <3> QED
      BY <3>3, <3>4
  <2> QED
    BY <2>3, <2>4, <2>5 DEF TraceInv, BaselineNeverAdapts, Actuator!Episodes
<1> QED
  BY <1>1, <1>2, <1>3, <1>4, <1>5, <1>6 DEF LoopInv

(* A TTL timer that fires ends an adaptation under observation.             *)
LEMMA ExpireKeepsInv ==
  ASSUME LoopInv, NEW type \in Types, NEW episode \in Actuator!Episodes, Expire(type, episode)
  PROVE  LoopInv'
<1> DEFINE clicks == CleanupClicks({type})
<1>inv. /\ Actuator!ActuatorInv /\ Policy!PolicyInv /\ StaleFlightFindsNoStreak
        /\ RuntimeInv /\ TaskInv /\ SurfaceInv /\ TraceInv
  BY DEF LoopInv
<1>same. UNCHANGED <<condition, running, booting, flight, starting, starts, switches>>
         /\ UNCHANGED runtime
  BY DEF Expire, runtime
<1>expire. Actuator!Expire(type, episode) /\ active' = Actuator!ActiveAfter({type})
  BY DEF Expire, Actuator!Expire
<1>clicks. Len(clicks) \in Nat /\ Observe(clicks)
  BY CleanupsAreSequences DEF Expire
<1>policy. Policy!Reset \/ PolicyKept
  BY DEF Expire, PolicyAfter
<1>1. Actuator!ActuatorInv'
  BY <1>inv, <1>expire, ActuatorStep DEF Actuator!Next
<1>2. Policy!PolicyInv'
  BY <1>inv, <1>policy, PolicyStep
<1>3. TaskInv' /\ task'.id = task.id
  BY <1>inv, <1>same, <1>clicks, ObservingKeepsTaskInv
<1>4. RuntimeInv' /\ StaleFlightFindsNoStreak'
  BY <1>inv, <1>same, <1>policy, <1>3, LeftAlone, StreakObserved DEF PolicyKept, policy
<1>5. SurfaceInv'
  BY <1>inv, <1>expire, RestoringKeepsSurface DEF Expire
<1>6. TraceInv'
  BY <1>inv, <1>same, <1>expire, EndingKeepsTrace DEF Expire
<1> QED
  BY <1>1, <1>2, <1>3, <1>4, <1>5, <1>6 DEF LoopInv

(* A dismissal ends the adaptations whose handlers ran and is recorded; a   *)
(* simplification has no handler, so the page's sections stay as they are.  *)
LEMMA DismissKeepsInv ==
  ASSUME LoopInv, NEW fired \in SUBSET handlers, Dismiss(fired),
         Actuator!PressEscape \/ Actuator!ClickDismiss
  PROVE  LoopInv'
<1> DEFINE S == {h[1] : h \in fired}
           D == {<<"dismissed", h[2]>> : h \in fired}
<1>inv. /\ Actuator!ActuatorInv /\ Policy!PolicyInv /\ StaleFlightFindsNoStreak
        /\ RuntimeInv /\ TaskInv /\ SurfaceInv /\ TraceInv
  BY DEF LoopInv
<1>same. UNCHANGED <<condition, running, booting, flight, starting, closings, task, page, open,
                     folded, starts, switches>>
         /\ UNCHANGED runtime
  BY DEF Dismiss, runtime, surface
<1>fired. \A h \in fired : h \in Types \X Actuator!Episodes /\ h[1] # "simplify_options"
  BY <1>inv DEF Actuator!ActuatorInv, Actuator!TypeOK, Actuator!HandlersOfLiveEpisodes,
                Actuator!Dismissible
<1>S. S \in SUBSET Types /\ "simplify_options" \notin S
      /\ D \in SUBSET (Events \X Actuator!Episodes) /\ \A e : <<"applied", e>> \notin D
  BY <1>fired DEF Events
<1>active. active' = Actuator!ActiveAfter(S)
  BY DEF Dismiss, Actuator!Dismiss, Actuator!Clear
<1>traced. recorded' = recorded \cup Ended(S) \cup D /\ DismissalNoted(S)
  BY DEF Dismiss
<1> HIDE DEF S, D
<1>1. Actuator!ActuatorInv'
  BY <1>inv, ActuatorStep DEF Actuator!Next
<1>2. Policy!PolicyInv' /\ candidate'.count = 0
  BY <1>inv, <1>S, <1>traced, PolicyHearsDismissals
<1>3. TaskInv' /\ RuntimeInv' /\ StaleFlightFindsNoStreak'
  BY <1>inv, <1>same, <1>2, LeftAlone, StreakObserved
<1>4. SurfaceInv'
  BY <1>inv, <1>same, <1>S, <1>active DEF SurfaceInv, Actuator!ActiveAfter, Actuator!None
<1>5. TraceInv'
  BY <1>inv, <1>same, <1>S, <1>active, <1>traced, ClearingKeepsTrace
<1> QED
  BY <1>1, <1>2, <1>3, <1>4, <1>5 DEF LoopInv

(* The user acts on the page.                                               *)
LEMMA InteractKeepsInv ==
  ASSUME LoopInv, NEW gesture, Interact(gesture)
  PROVE  LoopInv'
<1>inv. /\ Actuator!ActuatorInv /\ Policy!PolicyInv /\ StaleFlightFindsNoStreak
        /\ RuntimeInv /\ TaskInv /\ SurfaceInv /\ TraceInv
  BY DEF LoopInv
<1>same. UNCHANGED <<condition, running, booting, flight, starting, recorded, starts, switches,
                     active>>
         /\ UNCHANGED runtime /\ UNCHANGED actuator
  BY DEF Interact, runtime, actuator
<1>gesture. gesture \in Gestures(page, open) /\ Len(gesture) \in Nat /\ Observe(gesture)
  BY GesturesAreSequences DEF Interact
<1>policy. Policy!Reset \/ PolicyKept
  BY DEF Interact, PolicyAfter
<1>1. Actuator!ActuatorInv'
  BY <1>inv, <1>same, ActuatorStep
<1>2. Policy!PolicyInv'
  BY <1>inv, <1>policy, PolicyStep
<1>3. TaskInv' /\ task'.id = task.id
  BY <1>inv, <1>same, <1>gesture, ObservingKeepsTaskInv
<1>4. RuntimeInv' /\ StaleFlightFindsNoStreak' /\ TraceInv'
  BY <1>inv, <1>same, <1>policy, <1>3, LeftAlone, StreakObserved DEF PolicyKept, policy
<1>5. SurfaceInv'
  <2>1. page' \in Pages
    BY <1>inv DEF Interact, PageAfter, SurfaceInv
  <2>2. open' \subseteq Sections /\ (page' # "Analytics" => open' = {})
    BY <1>inv DEF Interact, OpenAfter, Toggled, SurfaceInv
  <2>3. folded' \subseteq folded /\ (page' # "Analytics" => folded' = {})
    BY DEF Interact
  <2> QED
    BY <2>1, <2>2, <2>3, <1>inv, <1>same DEF SurfaceInv, Actuator!None
<1> QED
  BY <1>1, <1>2, <1>3, <1>4, <1>5 DEF LoopInv

(* resetTrial() reverts what is on the page under observation and resets    *)
(* the policy; without a runtime it changes nothing.                        *)
LEMMA ResetTrialKeeps ==
  ASSUME Actuator!ActuatorInv, Policy!PolicyInv, SurfaceInv, TraceInv,
         ResetTrial, condition' = condition
  PROVE  /\ Actuator!ActuatorInv' /\ Policy!PolicyInv' /\ SurfaceInv' /\ TraceInv'
         /\ IF running THEN candidate'.count = 0 ELSE candidate' = candidate
<1>1. CASE running
  <2>1. /\ Actuator!Reset /\ active' = Actuator!ActiveAfter(Types)
        /\ recorded' = recorded \cup Ended(Types)
        /\ Policy!Reset /\ Restore(Types)
    BY <1>1 DEF ResetTrial, Actuator!Reset, Actuator!Clear
  <2>2. Actuator!ActuatorInv' /\ Policy!PolicyInv'
    BY <2>1, ActuatorStep, PolicyStep DEF Actuator!Next
  <2>3. SurfaceInv' /\ TraceInv'
    BY <2>1, RestoringKeepsSurface, EndingKeepsTrace
  <2> QED
    BY <1>1, <2>1, <2>2, <2>3, ResetForgetsTheStreak
<1>2. CASE ~running
  <2>1. UNCHANGED <<now, policy, actuator, recorded, surface>>
        /\ active' = active /\ candidate' = candidate
    BY <1>2 DEF ResetTrial, actuator, policy
  <2> QED
    BY <1>2, <2>1, ActuatorStep, PolicyStep, LeftAlone DEF PolicyKept
<1> QED
  BY <1>1, <1>2

(* The start of a trial, up to the await of resetTrial().                   *)
LEMMA BeginStartKeepsInv ==
  ASSUME LoopInv, NEW id \in TaskIds, BeginStart(id)
  PROVE  LoopInv'
<1> DEFINE clicks == <<ControlClick>> \o CleanupClicks(Types)
<1>inv. /\ Actuator!ActuatorInv /\ Policy!PolicyInv /\ StaleFlightFindsNoStreak
        /\ RuntimeInv /\ TaskInv /\ SurfaceInv /\ TraceInv
  BY DEF LoopInv
<1>new. /\ starting = NoTask /\ starts < Len(Plan) /\ starts' = starts + 1 /\ starting' = id
        /\ ResetTrial /\ UNCHANGED <<condition, running, booting, flight, switches>>
  BY DEF BeginStart, Idling
<1>clicks. Len(clicks) \in Nat /\ Observe(clicks)
  BY CleanupsAreSequences DEF BeginStart
<1> HIDE DEF clicks
<1>1. /\ Actuator!ActuatorInv' /\ Policy!PolicyInv' /\ SurfaceInv' /\ TraceInv'
      /\ IF running THEN candidate'.count = 0 ELSE candidate' = candidate
  BY <1>inv, <1>new, ResetTrialKeeps
<1>2. /\ task' \in TaskRecords /\ TaskOK(task') /\ task'.id = task.id
      /\ closings' \in Nat
      /\ closings' + EndingsToCome(task') <= closings + EndingsToCome(task)
  BY <1>inv, <1>clicks, ObservedTask
<1>3. TaskInv'
  <2>1. /\ closings \in Nat /\ starts \in Nat /\ Len(Plan) \in Nat
        /\ closings + EndingsToCome(task) + StartsToCome <= starts
    BY <1>inv, LoopAssumption DEF TaskInv
  <2>2. /\ EndingsToCome(task') \in Nat /\ EndingsToCome(task) \in Nat
        /\ EndingsToCome(task)' = EndingsToCome(task')
        /\ StartsToCome = 0 /\ StartsToCome' = 1
    BY <1>new, NoTaskAssumption DEF EndingsToCome, StartsToCome
  <2>3. closings' + EndingsToCome(task)' + StartsToCome' <= starts' /\ starts' \in 0..Len(Plan)
    BY <1>2, <1>new, <2>1, <2>2
  <2> QED
    BY <1>2, <2>3 DEF TaskInv
<1>4. RuntimeInv'
  BY <1>inv, <1>new DEF RuntimeInv, FlightOfRunning, Policy!Contexts, Conditions
<1>5. StaleFlightFindsNoStreak'
  BY <1>1, <1>2, <1>inv, <1>new, StreakObserved
<1> QED
  BY <1>1, <1>3, <1>4, <1>5 DEF LoopInv

(* The task of the trial starts, and the policy starts anew for it.         *)
LEMMA FinishStartKeepsInv ==
  ASSUME LoopInv, FinishStart
  PROVE  LoopInv'
<1>inv. /\ Actuator!ActuatorInv /\ Policy!PolicyInv
        /\ RuntimeInv /\ TaskInv /\ SurfaceInv /\ TraceInv
  BY DEF LoopInv
<1>new. /\ starting # NoTask /\ task' = Started(starting) /\ starting' = NoTask
        /\ IF running THEN Policy!Reset ELSE PolicyKept
        /\ UNCHANGED <<actuator, condition, running, booting, flight, recorded, closings,
                       surface, starts, switches, active>>
  BY DEF FinishStart, actuator
<1>1. Actuator!ActuatorInv' /\ Policy!PolicyInv'
  BY <1>inv, <1>new, ActuatorStep, PolicyStep
<1>2. RuntimeInv'
  BY <1>inv, <1>new DEF RuntimeInv, FlightOfRunning, Policy!Contexts, Conditions
<1>3. StaleFlightFindsNoStreak'
  BY <1>inv, <1>new, ResetForgetsTheStreak
  DEF RuntimeInv, FlightOfRunning, StaleFlightFindsNoStreak
<1>4. TaskInv'
  <2>1. starting \in TaskIds
    BY <1>inv, <1>new DEF RuntimeInv
  <2>2. task' \in TaskRecords /\ TaskOK(task')
    BY <1>new, <2>1, FreshTasks
  <2>3. /\ closings \in Nat /\ starts \in 0..Len(Plan)
        /\ closings + EndingsToCome(task) + StartsToCome <= starts
    BY <1>inv DEF TaskInv
  <2>4. /\ EndingsToCome(task) \in Nat /\ EndingsToCome(task') = 1
        /\ EndingsToCome(task)' = EndingsToCome(task')
        /\ StartsToCome = 1 /\ StartsToCome' = 0
    BY <1>new DEF EndingsToCome, StartsToCome, Started, InProgress
  <2>5. closings + EndingsToCome(task)' + StartsToCome' <= starts
    BY <2>3, <2>4
  <2> QED
    BY <1>new, <2>2, <2>3, <2>5 DEF TaskInv
<1>5. SurfaceInv' /\ TraceInv'
  BY <1>inv, <1>new, LeftAlone
<1> QED
  BY <1>1, <1>2, <1>3, <1>4, <1>5 DEF LoopInv

(* handleReset() publishes at most the ending of the task in progress.      *)
LEMMA HandleResetKeepsInv ==
  ASSUME LoopInv, HandleReset
  PROVE  LoopInv'
<1>inv. /\ Actuator!ActuatorInv /\ Policy!PolicyInv
        /\ RuntimeInv /\ TaskInv /\ SurfaceInv /\ TraceInv
  BY DEF LoopInv
<1>new. /\ closings' = closings + EndingsToCome(task) /\ task' = Idle /\ ResetTrial
        /\ UNCHANGED <<condition, running, booting, flight, starting, starts, switches>>
        /\ UNCHANGED runtime
  BY DEF HandleReset, ResetTask, EndingsToCome, runtime
<1>1. /\ Actuator!ActuatorInv' /\ Policy!PolicyInv' /\ SurfaceInv' /\ TraceInv'
      /\ IF running THEN candidate'.count = 0 ELSE candidate' = candidate
  BY <1>inv, <1>new, ResetTrialKeeps
<1>2. RuntimeInv'
  BY <1>inv, <1>new, LeftAlone
<1>3. StaleFlightFindsNoStreak'
  BY <1>inv, <1>new, <1>1 DEF RuntimeInv, FlightOfRunning, StaleFlightFindsNoStreak
<1>4. TaskInv'
  <2>1. /\ closings \in Nat /\ starts \in 0..Len(Plan) /\ Len(Plan) \in Nat
        /\ closings + EndingsToCome(task) + StartsToCome <= starts
    BY <1>inv, LoopAssumption DEF TaskInv
  <2>2. /\ EndingsToCome(task) \in Nat /\ EndingsToCome(task') = 0
        /\ EndingsToCome(task)' = EndingsToCome(task')
        /\ StartsToCome \in Nat /\ StartsToCome' = StartsToCome
    BY <1>new DEF EndingsToCome, StartsToCome, Idle, InProgress
  <2>3. closings' \in Nat /\ closings' + EndingsToCome(task)' + StartsToCome' <= starts
    BY <1>new, <2>1, <2>2
  <2> QED
    BY <1>new, <2>1, <2>3, FreshTasks DEF TaskInv
<1> QED
  BY <1>1, <1>2, <1>3, <1>4 DEF LoopInv

(* A closing rotates the session, and the trace starts empty.               *)
LEMMA RotateKeepsInv ==
  ASSUME LoopInv, Rotate
  PROVE  LoopInv'
<1>inv. /\ Actuator!ActuatorInv /\ Policy!PolicyInv /\ StaleFlightFindsNoStreak
        /\ RuntimeInv /\ TaskInv /\ SurfaceInv /\ TraceInv
  BY DEF LoopInv
<1>new. /\ closings > 0 /\ closings' = closings - 1 /\ recorded' = {}
        /\ UNCHANGED <<now, policy, actuator, runtime, task, surface, starts, switches>>
        /\ UNCHANGED <<condition, flight, starting, candidate, active>>
  BY DEF Rotate, runtime, policy, actuator
<1>1. Actuator!ActuatorInv' /\ Policy!PolicyInv'
  BY <1>inv, <1>new, ActuatorStep, PolicyStep DEF PolicyKept
<1>2. RuntimeInv' /\ StaleFlightFindsNoStreak' /\ SurfaceInv'
  BY <1>inv, <1>new, LeftAlone, StreakObserved
<1>3. TaskInv'
  <2>1. /\ closings \in Nat /\ starts \in 0..Len(Plan) /\ Len(Plan) \in Nat
        /\ closings + EndingsToCome(task) + StartsToCome <= starts
    BY <1>inv, LoopAssumption DEF TaskInv
  <2>2. /\ EndingsToCome(task) \in Nat /\ EndingsToCome(task)' = EndingsToCome(task)
        /\ StartsToCome \in Nat /\ StartsToCome' = StartsToCome
    BY <1>new DEF EndingsToCome, StartsToCome
  <2>3. closings' \in Nat /\ closings' + EndingsToCome(task)' + StartsToCome' <= starts
    BY <1>new, <2>1, <2>2
  <2> QED
    BY <1>inv, <1>new, <2>1, <2>3 DEF TaskInv, TaskOK, TaskRecords
<1>4. TraceInv'
  BY <1>inv, <1>new DEF TraceInv, BaselineNeverAdapts, NoLostEnding, Actuator!None,
                        Actuator!Episodes
<1> QED
  BY <1>1, <1>2, <1>3, <1>4 DEF LoopInv

(* A runtime that stops reverts what is on the page and its evaluation in   *)
(* flight is rejected.                                                      *)
LEMMA ShutdownKeeps ==
  ASSUME Actuator!ActuatorInv, SurfaceInv, Actuator!Reset, Restore(Types)
  PROVE  /\ Actuator!ActuatorInv' /\ SurfaceInv'
         /\ active' = Actuator!ActiveAfter(Types)
<1>1. active' = Actuator!ActiveAfter(Types)
  BY DEF Actuator!Reset, Actuator!Clear
<1> QED
  BY <1>1, ActuatorStep, RestoringKeepsSurface DEF Actuator!Next

(* stopTestbed() records the ending of each adaptation it reverts.          *)
LEMMA StopTestbedKeepsInv ==
  ASSUME LoopInv, StopTestbed
  PROVE  LoopInv'
<1>inv. /\ Actuator!ActuatorInv /\ Policy!PolicyInv
        /\ RuntimeInv /\ TaskInv /\ SurfaceInv /\ TraceInv
  BY DEF LoopInv
<1>new. /\ Actuator!Reset /\ Restore(Types) /\ PolicyKept
        /\ running' = FALSE /\ flight' = NoFlight /\ recorded' = recorded \cup Ended(Types)
        /\ UNCHANGED <<condition, booting, starting, closings, task, starts, switches>>
  BY DEF StopTestbed, Shutdown
<1>1. /\ Actuator!ActuatorInv' /\ SurfaceInv' /\ active' = Actuator!ActiveAfter(Types)
  BY <1>inv, <1>new, ShutdownKeeps
<1>2. Policy!PolicyInv'
  BY <1>inv, <1>new, PolicyStep
<1>3. TraceInv'
  BY <1>inv, <1>new, <1>1, EndingKeepsTrace
<1>4. RuntimeInv' /\ StaleFlightFindsNoStreak'
  BY <1>inv, <1>new DEF RuntimeInv, FlightOfRunning, StaleFlightFindsNoStreak
<1>5. TaskInv'
  BY <1>inv, <1>new, LeftAlone
<1> QED
  BY <1>1, <1>2, <1>3, <1>4, <1>5 DEF LoopInv

(* switchCondition() stops the old runtime and clears the recorder.         *)
LEMMA BeginSwitchKeepsInv ==
  ASSUME LoopInv, NEW next \in Conditions, BeginSwitch(next)
  PROVE  LoopInv'
<1> DEFINE click == <<ControlClick>>
<1>inv. /\ Actuator!ActuatorInv /\ Policy!PolicyInv
        /\ RuntimeInv /\ TaskInv /\ SurfaceInv /\ TraceInv
  BY DEF LoopInv
<1>new. /\ Actuator!Reset /\ Restore(Types)
        /\ running' = FALSE /\ booting' = TRUE /\ condition' = next /\ flight' = NoFlight
        /\ recorded' = {} /\ Observe(click) /\ (Policy!Reset \/ PolicyKept)
        /\ UNCHANGED <<starting, starts>>
  BY DEF BeginSwitch, PolicyAfter
<1>click. Len(click) \in Nat
  OBVIOUS
<1> HIDE DEF click
<1>1. /\ Actuator!ActuatorInv' /\ SurfaceInv' /\ active' = Actuator!ActiveAfter(Types)
  BY <1>inv, <1>new, ShutdownKeeps
<1>2. Policy!PolicyInv'
  BY <1>inv, <1>new, PolicyStep
<1>3. TraceInv'
  BY <1>1, <1>new
  DEF TraceInv, BaselineNeverAdapts, NoLostEnding, Actuator!ActiveAfter, Actuator!None,
      Actuator!Episodes
<1>4. RuntimeInv' /\ StaleFlightFindsNoStreak'
  BY <1>inv, <1>new DEF RuntimeInv, FlightOfRunning, StaleFlightFindsNoStreak
<1>5. TaskInv'
  BY <1>inv, <1>new, <1>click, ObservingKeepsTaskInv
<1> QED
  BY <1>1, <1>2, <1>3, <1>4, <1>5 DEF LoopInv

(* The new runtime starts, with a policy of its own.                        *)
LEMMA FinishSwitchKeepsInv ==
  ASSUME LoopInv, FinishSwitch
  PROVE  LoopInv'
<1>inv. /\ Actuator!ActuatorInv /\ Policy!PolicyInv /\ StaleFlightFindsNoStreak
        /\ RuntimeInv /\ TaskInv /\ SurfaceInv /\ TraceInv
  BY DEF LoopInv
<1>new. /\ booting /\ booting' = FALSE /\ running' = TRUE /\ Policy!Reset
        /\ UNCHANGED <<actuator, condition, flight, starting, recorded, closings, task, surface,
                       starts, switches, active>>
  BY DEF FinishSwitch, actuator
<1>1. Actuator!ActuatorInv' /\ Policy!PolicyInv'
  BY <1>inv, <1>new, ActuatorStep, PolicyStep
<1>2. RuntimeInv'
  BY <1>inv, <1>new DEF RuntimeInv, FlightOfRunning, Policy!Contexts, Conditions
<1>3. StaleFlightFindsNoStreak'
  BY <1>inv, <1>new, StreakObserved
<1>4. TaskInv' /\ SurfaceInv' /\ TraceInv'
  BY <1>inv, <1>new, LeftAlone
<1> QED
  BY <1>1, <1>2, <1>3, <1>4 DEF LoopInv

(* Time passes, or nothing happens.                                         *)
LEMMA TimeKeepsInv ==
  ASSUME LoopInv, Tick \/ UNCHANGED vars
  PROVE  LoopInv'
<1>inv. /\ Actuator!ActuatorInv /\ Policy!PolicyInv /\ StaleFlightFindsNoStreak
        /\ RuntimeInv /\ TaskInv /\ SurfaceInv /\ TraceInv
  BY DEF LoopInv
<1>same. /\ UNCHANGED <<actuator, runtime, recorded, closings, task, surface, starts, switches>>
         /\ UNCHANGED <<flight, candidate, starting, condition, active>>
  BY DEF Tick, Policy!Tick, Policy!policyVars, vars, policy, actuator, runtime
<1>1. Actuator!ActuatorInv'
  BY <1>inv, <1>same, ActuatorStep
<1>2. Policy!PolicyInv'
  BY <1>inv, PolicyStep DEF Tick, vars, PolicyKept
<1>3. StaleFlightFindsNoStreak'
  BY <1>inv, <1>same, StreakObserved
<1>4. RuntimeInv' /\ TaskInv' /\ SurfaceInv' /\ TraceInv'
  BY <1>inv, <1>same, LeftAlone
<1> QED
  BY <1>1, <1>2, <1>3, <1>4 DEF LoopInv

(***************************************************************************)
(* The inductive invariant and what it gives.                               *)
(***************************************************************************)
(* The adaptive runtime that boots first has nothing on the page.           *)
LEMMA InitLoopInv == Init => LoopInv
<1> SUFFICES ASSUME Init PROVE LoopInv
  OBVIOUS
<1>1. Actuator!ActuatorInv /\ Policy!PolicyInv
  BY ActuatorStart, PolicyStart DEF Init
<1>2. RuntimeInv /\ StaleFlightFindsNoStreak
  BY DEF Init, RuntimeInv, FlightOfRunning, StaleFlightFindsNoStreak, Conditions
<1>3. TaskInv
  <2>1. EndingsToCome(Idle) = 0
    BY DEF EndingsToCome, Idle, InProgress
  <2>2. StartsToCome = 0
    BY DEF Init, StartsToCome
  <2>3. Len(Plan) \in Nat
    BY LoopAssumption
  <2> QED
    BY <2>1, <2>2, <2>3, FreshTasks DEF Init, TaskInv
<1>4. SurfaceInv
  BY DEF Init, SurfaceInv, Pages
<1>5. TraceInv
  BY DEF Init, TraceInv, BaselineNeverAdapts, NoLostEnding
<1> QED
  BY <1>1, <1>2, <1>3, <1>4, <1>5 DEF LoopInv

(* Every step of the loop preserves the invariant.                          *)
LEMMA NextLoopInv == LoopInv /\ [Next]_vars => LoopInv'
<1> SUFFICES ASSUME LoopInv, [Next]_vars PROVE LoopInv'
  OBVIOUS
<1>1. ASSUME NEW expandable \in BOOLEAN, Evaluate(expandable) PROVE LoopInv'
  BY <1>1, EvaluateKeepsInv
<1>2. Answer => LoopInv'
  BY AnswerNothingKeepsInv, AnswerUnappliedKeepsInv, AnswerAppliedKeepsInv DEF Answer
<1>3. ASSUME NEW type \in Types, NEW episode \in Actuator!Episodes, Expire(type, episode)
      PROVE  LoopInv'
  BY <1>3, ExpireKeepsInv
<1>4. CASE PressEscape
  <2>1. Actuator!PressEscape
    BY <1>4 DEF PressEscape, Dismiss, Actuator!PressEscape
  <2> QED
    BY <1>4, <2>1, DismissKeepsInv DEF PressEscape
<1>5. CASE ClickDismiss
  <2>1. PICK h \in handlers : h[1] \in Actuator!WithButton /\ Dismiss({h})
    BY <1>5 DEF ClickDismiss
  <2>2. Actuator!ClickDismiss
    BY <2>1 DEF Dismiss, Actuator!ClickDismiss
  <2>3. {h} \in SUBSET handlers
    OBVIOUS
  <2> QED
    BY <2>1, <2>2, <2>3, DismissKeepsInv
<1>6. ASSUME NEW gesture \in Gestures(page, open), Interact(gesture) PROVE LoopInv'
  BY <1>6, InteractKeepsInv
<1>7. ASSUME NEW id \in TaskIds, BeginStart(id) PROVE LoopInv'
  BY <1>7, BeginStartKeepsInv
<1>8. FinishStart \/ HandleReset \/ Rotate \/ StopTestbed \/ FinishSwitch => LoopInv'
  BY FinishStartKeepsInv, HandleResetKeepsInv, RotateKeepsInv, StopTestbedKeepsInv,
     FinishSwitchKeepsInv
<1>9. ASSUME NEW next \in Conditions, BeginSwitch(next) PROVE LoopInv'
  BY <1>9, BeginSwitchKeepsInv
<1>10. Tick \/ UNCHANGED vars => LoopInv'
  BY TimeKeepsInv
<1> QED
  BY <1>1, <1>2, <1>3, <1>4, <1>5, <1>6, <1>7, <1>8, <1>9, <1>10 DEF Next

(* The inductive invariant holds of every behaviour of the loop.            *)
THEOREM LoopInvariant == Spec => []LoopInv
  BY InitLoopInv, NextLoopInv, PTL DEF Spec

(* The variables of the loop are always of their types; in particular no    *)
(* more closings are pending than tasks were started.                       *)
THEOREM LoopTypeOK == Spec => []TypeOK
<1>1. LoopInv => TypeOK
  <2> SUFFICES ASSUME LoopInv PROVE TypeOK
    OBVIOUS
  <2>1. Policy!TypeOK /\ Actuator!TypeOK
    BY DEF LoopInv, Policy!PolicyInv, Actuator!ActuatorInv
  <2>2. closings \in 0..Len(Plan)
    <3>1. /\ closings \in Nat /\ starts \in 0..Len(Plan) /\ Len(Plan) \in Nat
          /\ closings + EndingsToCome(task) + StartsToCome <= starts
      BY LoopAssumption DEF LoopInv, TaskInv
    <3>2. EndingsToCome(task) \in Nat /\ StartsToCome \in Nat
      BY DEF EndingsToCome, StartsToCome
    <3> QED
      BY <3>1, <3>2
  <2>3. TaskOK(task)
    BY DEF LoopInv, TaskInv
  <2> QED
    BY <2>1, <2>2, <2>3 DEF TypeOK, LoopInv, RuntimeInv, SurfaceInv, TraceInv
<1> QED
  BY <1>1, LoopInvariant, PTL

(* Under baseline nothing is adapted, whatever the adaptive runtime before  *)
(* it left in flight or on the page.                                        *)
THEOREM BaselineIsNeverAdapted == Spec => []BaselineNeverAdapts
<1>1. LoopInv => BaselineNeverAdapts
  BY DEF LoopInv, TraceInv
<1> QED
  BY <1>1, LoopInvariant, PTL

(* No adaptation the trace holds as applied lacks its ending there.         *)
THEOREM NoEndingIsLost == Spec => []NoLostEnding
<1>1. LoopInv => NoLostEnding
  BY DEF LoopInv, TraceInv
<1> QED
  BY <1>1, LoopInvariant, PTL

(* Where a single window is not enough for an adaptation, none is applied   *)
(* for another task than the current one: a late answer would need a streak *)
(* counted under the task it was asked for, and the reset at the change of  *)
(* task ended every streak.                                                 *)
THEOREM AdaptationsAreForTheCurrentTask ==
  ASSUME RequiredConsecutiveWindows > 1
  PROVE  Spec => AppliedForCurrentTask
<1>1. ASSUME LoopInv, NEW type \in Types, NEW focused, AnswerApplied(type, focused)
      PROVE  flight.context.taskId = task.id /\ endorsedIn \subseteq {NoTask, task.id}
  <2> DEFINE cmd == Recommendation(type)
             ctx == flight.context
  <2>1. Policy!Category(cmd, ctx) = "none" /\ flight # NoFlight
    BY <1>1 DEF AnswerApplied, Accepts
  <2>2. cmd.type # "no_op"
    BY ComponentsAssumption DEF Recommendation
  <2>3. Policy!CountAfter(cmd, ctx) >= RequiredConsecutiveWindows
        /\ Policy!CountAfter(cmd, ctx) \in Nat
    <3>1. candidate.count \in Nat
      BY <1>1 DEF LoopInv, Policy!PolicyInv, Policy!TypeOK
    <3>2. Policy!CountAfter(cmd, ctx) \in Nat
      BY <3>1 DEF Policy!CountAfter, Policy!CandidateSeen, Policy!NoCandidate
    <3>3. ~(Policy!CountAfter(cmd, ctx) < RequiredConsecutiveWindows)
      BY <2>1 DEF Policy!Category
    <3> QED
      BY <3>2, <3>3, ComponentsAssumption
  <2>4. Policy!CountAfter(cmd, ctx) # 1
    BY <2>3, ComponentsAssumption
  <2>5. ~Policy!TaskSwitched(ctx) /\ candidate.count # 0
    <3>1. Policy!CandidateSeen(ctx).count # 0
      BY <2>4 DEF Policy!CountAfter
    <3> QED
      BY <3>1 DEF Policy!CandidateSeen, Policy!NoCandidate
  <2>6. ctx.taskId = task.id
    BY <1>1, <2>1, <2>5 DEF LoopInv, StaleFlightFindsNoStreak
  <2>7. endorsedIn \subseteq {NoTask, lastTaskId}
    BY <1>1 DEF LoopInv, Policy!PolicyInv, Policy!StreakOfLastTask
  <2>8. lastTaskId = NoTask \/ lastTaskId = ctx.taskId
    BY <2>5 DEF Policy!TaskSwitched
  <2> QED
    BY <2>6, <2>7, <2>8
<1>2. LoopInv /\ [Next]_vars =>
        [begun' # begun =>
           flight.context.taskId = task.id /\ endorsedIn \subseteq {NoTask, task.id}]_vars
  <2> SUFFICES ASSUME LoopInv, Next, begun' # begun
               PROVE  flight.context.taskId = task.id /\ endorsedIn \subseteq {NoTask, task.id}
    OBVIOUS
  <2>1. \E type \in Types, focused \in {{}} \cup {{s} : s \in open} : AnswerApplied(type, focused)
    BY DEF
      Next, Evaluate, Answer, AnswerNothing, AnswerUnapplied, Expire, Actuator!Expire,
      PressEscape, ClickDismiss, Dismiss, Actuator!Dismiss, Interact, BeginStart, ResetTrial,
      Actuator!Reset, FinishStart, HandleReset, Rotate, StopTestbed, Shutdown, BeginSwitch,
      FinishSwitch, Tick, actuator
  <2> QED
    BY <2>1, <1>1
<1> QED
  BY <1>2, LoopInvariant, PTL DEF Spec, AppliedForCurrentTask

(* The loop drives the actuator as the actuator's own specification says,   *)
(* so that what is proved of it, its refinement of the episodes' lifecycle  *)
(* included, holds of the adaptations of the composed system.               *)
THEOREM LoopImplementsActuator == Spec => Actuator!Spec
<1>1. Init => Actuator!Init
  BY DEF Init
<1>2. [Next]_vars => [Actuator!Next]_Actuator!actuatorVars
  <2> SUFFICES ASSUME [Next]_vars PROVE Actuator!Next \/ UNCHANGED actuator
    BY DEF actuator, Actuator!actuatorVars
  <2>1. Answer => Actuator!Next \/ UNCHANGED actuator
    <3>1. AnswerNothing \/ (\E type \in Types : AnswerUnapplied(type)) => UNCHANGED actuator
      BY DEF AnswerNothing, AnswerUnapplied
    <3>2. ASSUME NEW type \in Types, NEW focused, AnswerApplied(type, focused)
          PROVE  Actuator!Next
      <4>1. Actuator!Apply(type, Found(type)) /\ Found(type) \in BOOLEAN
        BY <3>2 DEF AnswerApplied, Found
      <4> QED
        BY <4>1 DEF Actuator!Next
    <3> QED
      BY <3>1, <3>2 DEF Answer
  <2>2. (\E type \in Types, episode \in Actuator!Episodes : Expire(type, episode)) => Actuator!Next
    BY DEF Expire, Actuator!Next
  <2>3. PressEscape \/ ClickDismiss => Actuator!Next
    BY DEF PressEscape, ClickDismiss, Dismiss, Actuator!PressEscape, Actuator!ClickDismiss,
           Actuator!Next
  <2>4. ResetTrial => Actuator!Next \/ UNCHANGED actuator
    BY DEF ResetTrial, Actuator!Next
  <2>5. (\E id \in TaskIds : BeginStart(id)) \/ HandleReset => ResetTrial
    BY DEF BeginStart, HandleReset
  <2>6. StopTestbed \/ (\E next \in Conditions : BeginSwitch(next)) => Actuator!Next
    BY DEF StopTestbed, Shutdown, BeginSwitch, Actuator!Next
  <2>7. (\E expandable \in BOOLEAN : Evaluate(expandable))
          \/ (\E gesture \in Gestures(page, open) : Interact(gesture))
          \/ FinishStart \/ Rotate \/ FinishSwitch \/ Tick \/ UNCHANGED vars
        => UNCHANGED actuator
    BY DEF Evaluate, Interact, FinishStart, Rotate, FinishSwitch, Tick, vars
  <2> QED
    BY <2>1, <2>2, <2>3, <2>4, <2>5, <2>6, <2>7 DEF Next
<1> QED
  BY <1>1, <1>2, PTL DEF Spec, Actuator!Spec

(* What the policy promises of cooldowns and dismissals holds in the loop,  *)
(* where one key press dismisses several types at an instant.               *)
THEOREM PolicyPromisesInTheLoop ==
  Spec => []Policy!CooldownSpacing /\ []Policy!DismissalHonoured
<1>1. LoopInv => Policy!CooldownSpacing /\ Policy!DismissalHonoured
  BY DEF LoopInv, Policy!PolicyInv
<1> QED
  BY <1>1, LoopInvariant, PTL
=============================================================================
