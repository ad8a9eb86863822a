---------------------------- MODULE AdaptationLoop ----------------------------
(***************************************************************************)
(* One trial after another through the adaptation loop: the runtime        *)
(* (src/src/runtime/adaptiveRuntime.ts) evaluates in the worker, passes    *)
(* the answer through the policy and applies it; the adaptations, the user *)
(* and the trial controls change the page and the task, and every change   *)
(* the task manager publishes comes back as a policy reset.                *)
(*                                                                         *)
(* The policy and the actuator are the modules of their own. When windows  *)
(* are available for an evaluation is left to EvaluationPipeline: here one *)
(* may begin whenever none is in flight.                                   *)
(***************************************************************************)
EXTENDS TestbedTasks, FiniteSets

CONSTANTS
  Types, NoType, Targets, NoTarget,
  RequiredConsecutiveWindows, CooldownMs, DismissalCooldownMs, HasTtl,
  NoFlight,
  Plan,         \* bound: the tasks that each start, in turn, may choose from
  MaxSwitches,  \* bound: how many times the condition is switched
  MaxEpisodes,  \* bound: how many adaptations are accepted
  MaxTime, MaxStreak

ASSUME LoopAssumption ==
  /\ Plan \in Seq(SUBSET TaskIds)
  /\ MaxSwitches \in Nat /\ MaxEpisodes \in Nat

(* What the policy and the actuator assume of the constants they share.     *)
ASSUME ComponentsAssumption ==
  /\ NoType \notin Types /\ "no_op" \notin Types
  /\ RequiredConsecutiveWindows \in Nat \ {0}
  /\ CooldownMs \in Nat /\ DismissalCooldownMs \in Nat
  /\ MaxTime \in Nat /\ MaxStreak \in Nat /\ HasTtl \in BOOLEAN

VARIABLES
  (* InterventionPolicy *)
  now, candidate, lastTaskId, cooldownUntil, dismissedUntil,
  acceptedAt, dismissedAt, endorsedIn,
  (* UIActuator *)
  begun, active, timers, handlers, kind, reverted, dismissed,
  (* the runtime and its composition root *)
  condition,   \* currentCondition
  running,     \* a started runtime exists, so the observer is attached
  booting,     \* bootTestbed() awaits the new runtime's start()
  flight,      \* the evaluation in flight: its context and the condition of its
               \* runtime, or NoFlight
  starting,    \* the task handleStart() starts once resetTrial() returns
  recorded,    \* intervention events in the recorder: <<event type, episode>>
  closings,    \* closeTrial() calls whose rotation is still to come
  (* the testbed *)
  task, page, open,
  folded,      \* the sections the live simplification closed
  starts, switches

policy == <<candidate, lastTaskId, cooldownUntil, dismissedUntil,
            acceptedAt, dismissedAt, endorsedIn>>
actuator == <<begun, active, timers, handlers, kind, reverted, dismissed>>
runtime == <<condition, running, booting, flight, starting>>
surface == <<page, open, folded>>
vars == <<now, policy, actuator, runtime, recorded, closings, task, surface, starts, switches>>

Policy == INSTANCE InterventionPolicy WITH
  Tasks <- TaskIds, EnforceContextEligibility <- TRUE,
  CommandInputs <- {}, ContextInputs <- {}
Actuator == INSTANCE UIActuator

Conditions == {"baseline", "adaptive"}
Events == {"applied", "reverted", "dismissed"}

TypeOK ==
  /\ Policy!TypeOK /\ Actuator!TypeOK
  /\ condition \in Conditions /\ running \in BOOLEAN /\ booting \in BOOLEAN
  /\ ~(running /\ booting)
  /\ flight = NoFlight \/ flight \in [context: Policy!Contexts, condition: Conditions]
  /\ starting \in TaskIds \cup {NoTask}
  /\ recorded \in SUBSET (Events \X Actuator!Episodes)
  /\ closings \in 0..Len(Plan)
  /\ TaskOK(task) /\ page \in Pages
  /\ open \subseteq Sections /\ (page # "Analytics" => open = {})
  /\ folded \subseteq Sections
  /\ (folded # {} => active["simplify_options"] # Actuator!None)

Init ==
  /\ Policy!Init /\ Actuator!Init
  /\ condition = "adaptive" /\ running = TRUE /\ booting = FALSE
  /\ flight = NoFlight /\ starting = NoTask
  /\ recorded = {} /\ closings = 0
  /\ task = Idle /\ page = "Overview" /\ open = {} /\ folded = {}
  /\ starts = 0 /\ switches = 0
-----------------------------------------------------------------------------
(* What follows from a gesture the observer sees: the interactions reach    *)
(* the task manager, whose every publication resets the policy, and a task  *)
(* that becomes terminal is closed. Without a running runtime nobody sees.  *)
TaskSeeing(gesture) == IF running THEN RecordedAll(task, gesture) ELSE task
PolicyReset(gesture) == running /\ PublishesAny(task, gesture)
Closed(next) == closings' = IF ~Terminal(task) /\ Terminal(next) THEN closings + 1 ELSE closings
Observe(gesture) == task' = TaskSeeing(gesture) /\ Closed(TaskSeeing(gesture))

(* clear() of a simplification clicks what it closed and nobody reopened.   *)
Reopened(S) == IF "simplify_options" \in S THEN folded \ open ELSE {}
CleanupClicks(S) == SectionClicks(Reopened(S))
Restore(S) ==
  /\ open' = open \cup Reopened(S)
  /\ folded' = IF "simplify_options" \in S THEN {} ELSE folded
  /\ UNCHANGED page

(* emitEvent reaches the recorder while the runtime is subscribed.          *)
LiveIn(S) == Actuator!ActiveIn(S)
Ended(S) == {<<"reverted", e>> : e \in LiveIn(S)}

PolicyKept == UNCHANGED <<now, policy>>
PolicyAfter(gesture) == IF PolicyReset(gesture) THEN Policy!Reset ELSE PolicyKept
-----------------------------------------------------------------------------
(* getActiveUIContext(): the page has a primary action and help when it     *)
(* shows the results table, and the element last pointed at or focused, if  *)
(* it is still there, may be a section of the drawer. The rest of the       *)
(* context (geometry, actions, ids) decides nothing in the policy.          *)
Pointed(onPage) == IF onPage = "Analytics" THEN BOOLEAN ELSE {FALSE}
ActiveUIContext(onPage, taskId, expandable) ==
  [taskId |-> taskId, primaryActionAvailable |-> onPage = "Analytics",
   helpAvailable |-> onPage = "Analytics", expandable |-> expandable]

(* evaluateAndAct up to its await: the context is read now.                 *)
Evaluate(expandable) ==
  /\ running /\ flight = NoFlight
  /\ expandable \in Pointed(page)
  /\ flight' = [context |-> ActiveUIContext(page, task.id, expandable), condition |-> condition]
  /\ UNCHANGED <<now, policy, actuator, condition, running, booting, starting, recorded,
                 closings, task, surface, starts, switches>>

(* The worker answers with no intervention, or the call fails.              *)
AnswerNothing ==
  /\ flight # NoFlight
  /\ flight' = NoFlight
  /\ UNCHANGED <<now, policy, actuator, condition, running, booting, starting, recorded,
                 closings, task, surface, starts, switches>>

Recommendation(type) == [type |-> type, target |-> NoTarget, confident |-> TRUE]
Accepts(type) == Policy!Category(Recommendation(type), flight.context) = "none"

(* The answer is refused, or accepted under baseline and only recorded.     *)
AnswerUnapplied(type) ==
  /\ flight # NoFlight
  /\ candidate.count < MaxStreak
  /\ Accepts(type) => flight.condition # "adaptive"
  /\ Policy!Accept(Recommendation(type), flight.context)
  /\ flight' = NoFlight
  /\ UNCHANGED <<actuator, condition, running, booting, starting, recorded,
                 closings, task, surface, starts, switches>>

(* The answer is accepted and applied. Replacing a simplification first     *)
(* reopens what it closed; the new one closes every section that reads as   *)
(* open but the one that holds the focus, by clicking it. What was reopened *)
(* is rendered only after the step, so it still reads as closed.            *)
Found(type) == type = "simplify_options" => page = "Analytics"
Closable(type, focused) ==
  IF type = "simplify_options" /\ page = "Analytics" THEN open \ focused ELSE {}
AnswerApplied(type, focused) ==
  LET clicks == CleanupClicks({type}) \o SectionClicks(Closable(type, focused)) IN
  /\ flight # NoFlight
  /\ flight.condition = "adaptive" /\ Accepts(type)
  /\ IF PolicyReset(clicks) THEN Policy!Reset
     ELSE Policy!Accept(Recommendation(type), flight.context)
  /\ Actuator!Apply(type, Found(type))
  /\ recorded' = recorded \cup Ended({type})
                   \cup (IF Found(type) THEN {<<"applied", begun + 1>>} ELSE {})
  /\ Observe(clicks)
  /\ open' = (open \ Closable(type, focused)) \cup Reopened({type})
  /\ folded' = IF type = "simplify_options" THEN Closable(type, focused) ELSE folded
  /\ flight' = NoFlight
  /\ UNCHANGED <<condition, running, booting, starting, page, starts, switches>>
-----------------------------------------------------------------------------
(* The TTL timer of an adaptation fires.                                    *)
Expire(type, episode) ==
  /\ Actuator!Expire(type, episode)
  /\ recorded' = recorded \cup Ended({type})
  /\ Observe(CleanupClicks({type}))
  /\ PolicyAfter(CleanupClicks({type}))
  /\ Restore({type})
  /\ UNCHANGED <<runtime, starts, switches>>

(* The user dismisses the adaptations whose handlers run: Escape, or the    *)
(* button of the assistance banner. handleInterventionEvent notifies the    *)
(* policy of each 'dismissed' event.                                        *)
DismissalNoted(S) ==
  /\ candidate' = Policy!NoCandidate
  /\ dismissedUntil' = [t \in Types |->
       IF t \in S THEN now + DismissalCooldownMs ELSE dismissedUntil[t]]
  /\ dismissedAt' = [t \in Types |->
       IF t \in S THEN dismissedAt[t] \cup {now} ELSE dismissedAt[t]]
  /\ endorsedIn' = {}
  /\ UNCHANGED <<now, lastTaskId, cooldownUntil, acceptedAt>>

Dismiss(fired) ==
  LET S == {h[1] : h \in fired} IN
  /\ Actuator!Dismiss(fired)
  /\ recorded' = recorded \cup Ended(S) \cup {<<"dismissed", h[2]>> : h \in fired}
  /\ DismissalNoted(S)
  /\ UNCHANGED <<runtime, closings, task, surface, starts, switches>>
PressEscape == Dismiss(handlers)
ClickDismiss == \E h \in handlers : h[1] \in Actuator!WithButton /\ Dismiss({h})

(* The user acts on the page.                                               *)
Interact(gesture) ==
  /\ gesture \in Gestures(page, open)
  /\ Observe(gesture)
  /\ PolicyAfter(gesture)
  /\ page' = PageAfter(page, gesture)
  /\ open' = OpenAfter(page, open, gesture)
  \* Leaving Analytics detaches the buttons a simplification would click.
  /\ folded' = IF page' = "Analytics" THEN folded ELSE {}
  /\ UNCHANGED <<actuator, runtime, recorded, starts, switches>>
-----------------------------------------------------------------------------
(* resetTrial() up to its await, after the click on the control: the live   *)
(* adaptations are reverted under observation, the policy is reset. Without *)
(* a runtime there is nothing to reset.                                     *)
ResetTrial ==
  IF running
  THEN /\ Actuator!Reset
       /\ recorded' = recorded \cup Ended(Types)
       /\ Policy!Reset
       /\ Restore(Types)
  ELSE UNCHANGED <<now, policy, actuator, recorded, surface>>

(* handleStart(): `busy` disables the controls until it returns.            *)
Idling == starting = NoTask /\ ~booting
BeginStart(id) ==
  /\ Idling /\ starts < Len(Plan) /\ id \in Plan[starts + 1]
  /\ starts' = starts + 1
  /\ starting' = id
  /\ ResetTrial
  /\ Observe(<<ControlClick>> \o CleanupClicks(Types))
  /\ UNCHANGED <<condition, running, booting, flight, switches>>

(* A mutant of FinishStart: the task changes and the policy is not reset.   *)
StartQuietly ==
  /\ starting # NoTask
  /\ task' = Started(starting)
  /\ starting' = NoTask
  /\ UNCHANGED <<now, policy, actuator, condition, running, booting, flight, recorded,
                 closings, surface, starts, switches>>

(* startTask(): a task still in progress is replaced without an ending.     *)
FinishStart ==
  /\ starting # NoTask
  /\ task' = Started(starting)
  /\ starting' = NoTask
  /\ IF running THEN Policy!Reset ELSE PolicyKept
  /\ UNCHANGED <<actuator, condition, running, booting, flight, recorded, closings,
                 surface, starts, switches>>

(* handleReset(): the click, resetTask(), then resetTrial() on an idle task. *)
HandleReset ==
  /\ Idling
  /\ closings' = closings + ResetTask(task).endings
  /\ task' = ResetTask(task).task
  /\ ResetTrial
  /\ UNCHANGED <<runtime, starts, switches>>

(* closeTrial() after its upload: the session rotates, the trace is empty.  *)
Rotate ==
  /\ closings > 0
  /\ closings' = closings - 1
  /\ recorded' = {}
  /\ UNCHANGED <<now, policy, actuator, runtime, task, surface, starts, switches>>

(* AdaptiveRuntime.stop(): the observer goes first, so the reversions of    *)
(* the live adaptations are recorded and their clicks are not; terminating  *)
(* the worker rejects the evaluation in flight.                             *)
Shutdown ==
  /\ Actuator!Reset
  /\ Restore(Types)
  /\ running' = FALSE
  /\ flight' = NoFlight
  /\ PolicyKept

(* A mutant of StopTestbed: the subscriptions are torn down first.          *)
StopUnheard ==
  /\ running /\ Shutdown
  /\ UNCHANGED <<condition, booting, starting, recorded, closings, task, starts, switches>>

(* stopTestbed()                                                            *)
StopTestbed ==
  /\ running /\ Shutdown
  /\ recorded' = recorded \cup Ended(Types)
  /\ UNCHANGED <<condition, booting, starting, closings, task, starts, switches>>

(* A mutant of BeginSwitch: the evaluation in flight survives the runtime.  *)
SwitchKeepingFlight(next) ==
  /\ Idling /\ running /\ next # condition /\ switches < MaxSwitches
  /\ switches' = switches + 1
  /\ Actuator!Reset /\ Restore(Types)
  /\ running' = FALSE /\ booting' = TRUE /\ condition' = next
  /\ recorded' = {}
  /\ Observe(<<ControlClick>>) /\ PolicyAfter(<<ControlClick>>)
  /\ UNCHANGED <<flight, starting, starts>>

(* switchCondition() up to the await of start(): the old runtime stops and  *)
(* the recorder is cleared. The task in progress goes on.                   *)
BeginSwitch(next) ==
  /\ Idling /\ running /\ next # condition /\ switches < MaxSwitches
  /\ switches' = switches + 1
  /\ Actuator!Reset /\ Restore(Types)
  /\ running' = FALSE /\ booting' = TRUE /\ condition' = next
  /\ flight' = NoFlight
  /\ recorded' = {}
  /\ Observe(<<ControlClick>>) /\ PolicyAfter(<<ControlClick>>)
  /\ UNCHANGED <<starting, starts>>

(* start() of the new runtime has wired its own policy and observer.        *)
FinishSwitch ==
  /\ booting
  /\ booting' = FALSE /\ running' = TRUE
  /\ Policy!Reset
  /\ UNCHANGED <<actuator, condition, flight, starting, recorded, closings, task, surface,
                 starts, switches>>

Tick ==
  /\ Policy!Tick
  /\ UNCHANGED <<actuator, runtime, recorded, closings, task, surface, starts, switches>>
-----------------------------------------------------------------------------
Answer ==
  \/ AnswerNothing
  \/ \E type \in Types : AnswerUnapplied(type)
  \/ \E type \in Types, focused \in {{}} \cup {{s} : s \in open} : AnswerApplied(type, focused)

Next ==
  \/ \E expandable \in BOOLEAN : Evaluate(expandable)
  \/ Answer
  \/ \E type \in Types, episode \in Actuator!Episodes : Expire(type, episode)
  \/ PressEscape
  \/ ClickDismiss
  \/ \E gesture \in Gestures(page, open) : Interact(gesture)
  \/ \E id \in TaskIds : BeginStart(id)
  \/ FinishStart
  \/ HandleReset
  \/ Rotate
  \/ StopTestbed
  \/ \E next \in Conditions : BeginSwitch(next)
  \/ FinishSwitch
  \/ Tick

Spec == Init /\ [][Next]_vars
-----------------------------------------------------------------------------
(* Under the baseline condition the pipeline decides but nothing is ever    *)
(* adapted: not by an answer the worker still owed the adaptive runtime,    *)
(* and nothing adapted before stays on the page or in the trace             *)
(* (evaluateAndAct's baseline branch, stop(), terminate()).                 *)
BaselineNeverAdapts ==
  condition = "baseline" =>
    /\ \A t \in Types : active[t] = Actuator!None
    /\ \A e \in Actuator!Episodes : <<"applied", e>> \notin recorded

(* Every adaptation the trace holds as applied is still on the page or has  *)
(* its reversion in the same trace, whatever reverted it: TTL, dismissal,   *)
(* replacement, a trial boundary or the runtime's teardown (stop(), F-03).  *)
NoLostEnding ==
  \A e \in Actuator!Episodes :
    <<"applied", e>> \in recorded /\ (\A t \in Types : active[t] # e)
      => <<"reverted", e>> \in recorded

(* An adaptation is applied only for the task that is current, on a streak  *)
(* no other task contributed to, although the context an answer is judged   *)
(* by was read before the await (the policy reset on a task change).        *)
AppliedForCurrentTask ==
  [][begun' # begun =>
       flight.context.taskId = task.id /\ endorsedIn \subseteq {NoTask, task.id}]_vars
=============================================================================
