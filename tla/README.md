# A verification development for edge-aui

edge-aui is a browser testbed for adaptive user interfaces. It observes a participant, cuts the event
stream into windows, lets a worker recommend an intervention, applies it to the page, and records
everything as a research trace which it stores and uploads trial by trial. This directory holds
TLA+ models of that program, the TLC configurations that check them and the TLAPS proofs about them.

Paths below are relative to the repository root; `src/runtime/boot.ts` there is `src/src/runtime/boot.ts`
in `PROJECT.json`, where every definition is tied to the lines it models.

## 1. Inventory

| component | state it keeps | operations | modelled in |
|---|---|---|---|
| intervention policy (`intervention/policy.ts`) | candidate and streak, last task, cooldown, dismissals | accept, reset, notifyUserAction, notifyDismissal | InterventionPolicy |
| UI actuator (`intervention/actuator.ts`) | live adaptations, TTL timers, key handlers | apply, clear, reset, expiry, dismissal | UIActuator, EpisodeLifecycle |
| DOM adaptations (same file, the four `apply*`) | classes, marks, aria attributes of host elements | install, cleanup closures | DomRestoration |
| task manager and page (`testbed/`, `app/`) | current task, step, page, open sections | startTask, recordInteraction, abandonTask; the gestures | TestbedTasks |
| adaptive runtime (`runtime/adaptiveRuntime.ts`) | evaluation in flight, pending labels, subscriptions | start, stop, resetTrial, evaluateAndAct, stride loop | AdaptationLoop, EvaluationPipeline, WindowOutcomes, DecisionTrace |
| boot and controls (`runtime/boot.ts`, `TrialControls.tsx`) | current runtime, condition, trial closer | bootTestbed, switchCondition, closeTrial, stopTestbed | AdaptationLoop, TrialCollection |
| worker client and core (`runtime/workerClient.ts`, `worker/core.ts`) | pending requests and timers; sequence, gates, macro history | INIT, PUSH_WINDOW, PUSH_MACRO, EVALUATE, RESET, timeouts | EvaluationPipeline, DecisionTrace |
| gates and arbitration (`gates/`, `wasm-vectorizer/src/prefix_span.rs`) | declared patterns, loaded models | mine, rank, match; infer; arbitrate | SequenceMining, Gates |
| sequence builder (`microtensor/sequence.ts`) | last T windows | push, getTensor, clear | EvaluationPipeline |
| rolling windows (`microtensor/window.ts`) | events, slot grid, window ids | push, tick, clear | WindowOutcomes |
| outcome derivation (`outcome/derive.ts`) | event buffer | push, deriveForWindow, clear; the label of a horizon | WindowOutcomes |
| collection (`telemetry/collection.ts`, `localStore.ts`, `collectionClient.ts`) | session status, stored traces; rows on the server | beginSession, completeSession, upload, flush, recovery | TrialCollection |
| session and recorder (`telemetry/session.ts`, `recorder.ts`, `normalizer.ts`) | active session, clock anchor, trace | startSession, record*, export, clear, bindSession | TrialCollection, WindowOutcomes, DecisionTrace |
| trace schema and verifier (`telemetry/traceSchema.ts`, `traceAttributionVerifier.ts`) | none | findOrphanedWindows, verifyTraceCompleteness | TraceVerifier |
| context provider (`telemetry/contextProvider.ts`) | last pointer and focus targets | getActiveUIContext | AdaptationLoop |
| observer and macro symbols (`telemetry/observer.ts`, `macro/`) | interaction history | observe, derive, record, getRecent, clear | MacroObservation, DecisionTrace |

How they interact:

- The observer calls the runtime's behaviour listener synchronously for every DOM event. The listener
  feeds the windows, the deriver, the macro stream, and `adapter.recordInteraction`, which is how a
  click advances the task.
- The task manager publishes state changes and lifecycle events to its listeners in the order they
  subscribed: the runtime (policy reset; task record) and `boot.ts` (trial closer).
- A stride timer emits windows. Each is posted to the worker; when the sequence is long enough and
  no evaluation runs, the runtime asks for one, awaits it, and passes the answer to the policy and
  then to the actuator, whose events come back as records and as dismissals.
- In the worker an evaluation asks the fast gate (mined patterns, or a fixed list) and, unless that one answers
  with a command, the slow gate (two model heads); the answer is recorded as a prediction, what the policy and the
  actuator make of it as decisions and interventions, and an offline verifier joins them again by their ids.
- Recorder and session manager are singletons shared by everything that records or closes.

What is hard here is that one thread runs many `async` functions: every `await` (the worker's
answer, IndexedDB, fetch, the start of a runtime) is a place where the task, condition, session
or trace may be replaced; timers of ended episodes, late answers and acknowledgements keep coming;
adaptations click and rewrite the page that the observer watches. `PROJECT.json` lists the hazards,
each at its line with the properties that would catch it, or with the reason none does yet.

What makes each component correct, in short: the policy never shortens a cooldown nor forgets a
dismissal, and counts a streak within one task; each episode the actuator applies ends exactly once
and leaves nothing behind; a cleanup gives the page back; the loop never acts on an answer whose
task or condition is gone; a prediction names its windows and is what the interactions in view call for; windows partition the events and each
gets one label, which its whole horizon calls for; the trace attributes each episode to the prediction it was begun for; a stored row is one trial, and nothing reported stored is lost.

## 2. Modules

| module | models | run |
|---|---|---|
| `InterventionPolicy` | the policy's gates over an explicit clock | policy |
| `InterventionPolicyProofs` | its theorems | (tlapm) |
| `EpisodeLifecycle` | the abstract life of an episode: unused, live, reverted, dismissed | refined by UIActuator |
| `UIActuator` | live adaptations, timers, handlers, recorded endings | dom |
| `UIActuatorProofs` | its theorems, the refinement included | (tlapm) |
| `DomRestoration` | EXTENDS UIActuator: the same actions with what they do to the page | dom |
| `UserSections` | EXTENDS DomRestoration: beside the page, what the user last chose for each section | dom |
| `DomRestorationProofs` | theorems of the two | (tlapm) |
| `TestbedTasks` | operators: tasks, steps, gestures and their interactions | (used by loop) |
| `AdaptationLoop` | INSTANCEs policy and actuator, EXTENDS TestbedTasks: the whole loop | loop, task_steps, refractory |
| `AdaptationLoopProofs` | its theorems, on those of policy and actuator | (tlapm) |
| `EvaluationPipeline` | runtime, worker client and worker with two FIFO channels | pipeline |
| `EvaluationPipelineProofs` | its theorems | (tlapm) |
| `Enumeration` | operators: the members of a set of numbers in order, the elements of a sequence that are in a set | (used by windows, decisions) |
| `WindowOutcomes` | window buffer, deriver, pending labels, trace, clock anchors | windows, window_ids |
| `WindowOutcomesProofs` | its theorems | (tlapm) |
| `TrialCollection` | closings as processes, local store, server | collection, trial_reported |
| `TrialCollectionProofs` | its theorems | (tlapm) |
| `MacroObservation` | capture-phase observer and macro symbols | disclosure |
| `SequenceMining` | operators: PrefixSpan, with the definition of support it is checked against | (used by decisions) |
| `Gates` | EXTENDS SequenceMining: fast gates, slow gates, arbitration | (used by decisions) |
| `TraceVerifier` | operators over a trace: the verifier's checks, attribution, orphans, export warnings | (used by decisions, windows) |
| `DecisionTrace` | EXTENDS Gates and TraceVerifier: from the macro symbols to the records of a trial | decisions |
| `DecisionTraceProofs` | its theorems | (tlapm) |

The `MC*` modules only instantiate constants for TLC, except two: `MCRefractory` adds the instant of the
last acceptance and whether the task changed since, and `MCAdaptationLoop` one property about who takes a step.

### How state and actions correspond to the code

**InterventionPolicy.** `candidate`, `lastTaskId`, `cooldownUntil`, `dismissedUntil` are the fields of the
class. `Accept(cmd, ctx)` is the whole of `accept()`: `Category` names the gate that answers, and whether the
streak breaks or counts follows from it. `acceptedAt`, `dismissedAt` and `endorsedIn` are histories that a
`reset()` forgets, so that a property says what holds between two resets. `Tick` is `Date.now()`.
In the loop that clock may stand still for any number of steps, as two calls within one millisecond do.

**UIActuator.** It is checked as part of the page it acts on: `DomRestoration`'s actions are its actions with their effect
on the DOM, so the dom run checks the properties and the refinement of both. An episode is a number; `kind` says of which type, `active` which one is live per type,
`timers` and `handlers` which TTL timers and Escape handlers exist. `Apply` replaces the live adaptation of
its type first, as the code does, and may find no element (the episode then fails). `Dismiss(fired)` runs
every handler an Escape reaches, or the one of a clicked button; `Reset` ends all.

**DomRestoration.** An element has what the host renders, adaptation tokens, a mark, and the
record of what an adaptation captured when it was installed. `Cleanup` is the closures. The host rewrites
attributes on `Toggle`; `disturbed` remembers elements that two live adaptations shared or the host rewrote
under one, `described` those a tooltip was put on: its cleanup removes `aria-expanded`, whatever the host had there. `Cleaned(S)` is the page after the cleanups of the types in S, run in the order of their episodes; it
is a recursive function over the episodes, so that theorems can be proved about it by induction. Sections, a drawer and a navigation button stand for the page. The banner of `OfferAssistance` is a node of its own.

**TestbedTasks and AdaptationLoop.** A gesture is the set of interactions one user act emits, in order (a click on
"Apply" emits a click, then a submit). `Observe` passes them to the task; every publication resets the policy.
`Evaluate` ends at the await with the context's task and the condition in `flight`; `Answer*` is what
follows it. `BeginStart`/`FinishStart` and `BeginSwitch`/`FinishSwitch` are the two halves of the
asynchronous button handlers, and while one waits the controls are disabled, as in the component. (The boot at page load
disables nothing; a switch made during it, two boots at once, is left out.) `ActiveUIContext` is what
`getActiveUIContext()` reads from the page of that moment, and `HandleReset` a press of the reset button. `closings` are
`closeTrial()` calls whose rotation is to come: rotation empties the recorder at an arbitrary later time.

**EvaluationPipeline.** The worker handles messages in order (`WorkerHandles`), but an EVALUATE only starts to
compute; `WorkerAnswers` posts its answer at some later time, successfully or not. `TimeOut` may precede the
answer, whose late arrival `MainReceives` then drops. `prediction` pairs the windows the runtime named
with the rows of the tensor, `NoWindow` being a row of zeros.

**WindowOutcomes.** An event is its timestamp, its number of arrival and its kind. `OutcomeClass` is
`deriveOutcomeForWindow()`: `InTime` is the sorted horizon, an event's place in it the count (`Seen`) that makes a scroll or a hover
a candidate (`CandidatesOf`), and the hierarchy decides among the candidates tied with the first. Sorting and filtering are
`Enumeration`'s: an element is found by its standing and not by recursion, so that the provers can reason about them. `Hear` is `handleBehaviourEvent`, `Tick` a
turn of the stride loop (emit due slots, then flush labels), `Flush` the settling of labels, each derived from what the labels
before it left in the deriver's buffer (`LeftBy`). `RotateSession`
re-anchors the clock, which may step either way. `Dropped` is the limit `maxBufferedEvents` of the deriver: a push over it
drops the event pushed first, whatever horizon it is in. `heard`, `shifted` and `dropped` are histories.

**TrialCollection.** Each closing trial is a process whose steps are the code between two awaits; process `Boot`
registers the session at page load. A POST may reach the server or not and its answer may arrive or not;
409 counts as stored; a reload ends all processes. A request on the local store may be rejected (`Rejection`). No process
catches that: `Reject` ends the closing, or the boot, that awaits the request, and `SaveRejected` a closing at its first one, so
that neither rotation nor clearing follow, or no write-ahead and no closer. Only `flushLocal()` catches it. `cutShort` and
`patient` are histories: the sessions a closing of which was ended so before it rotated, and that the
participant waited for each closing, and did not start a task over another or switch the condition.

**SequenceMining, Gates.** `MinePrefixSpan` is the recursive projection of `prefix_span.rs`, written as a recursive function.
`PrefixSpanDecision` is `evaluate()` of the mining gate: corpus, mining within its deadline, ranking, filter, cut, match.
A model head is a record of the class it ranks first and whether that reaches the threshold; confidences are
thousandths. `CreateSlowGate` keeps the fallback: when a requested model cannot be loaded a mock gate takes its place.

**DecisionTrace, TraceVerifier.** `CloseWindow` is `handleWindow()`; what the fast gate makes of the request is computed in that
step, since the worker answers in order and the macros it holds are those pushed before. The answer
is one of `AnswerUnapplied`, `AnswerAccepted` (with its target found or not) and `EvaluationFails`; the policy may refuse or accept
any command. Every action appends what the code records, in its order, to buffers of `MaxBufferSize` from which `append()` drops the
oldest (`Latest`). Ids are numbers, 0 for absent. `Verified` is `verifyTraceCompleteness()` without its checks of structure and schema
version, task lifecycle, declared clock and provenance. Windows and outcomes are not in this model (they are `WindowOutcomes`'s), so
the set of orphaned windows is a parameter of it, over which the property quantifies. `origin` (the prediction
an episode was begun for) and `carried` (what was live when a closed trial emptied the recorder) are histories.

**MacroObservation.** `Observe` runs in the capture phase, before `Click` changes the section.

## 3. Runs

All runs together fire every action and every disjunct of the next-state relations. `CHECK_DEADLOCK FALSE` is
stated everywhere because every model has bounds on the number of tasks, resets, windows or ticks
and stops when they are used up.

| run | distinct states | what holds or fails |
|---|---|---|
| policy | 62,096 | CooldownSpacing, DismissalHonoured, StreakWithinOneTask |
| dom | 244,701 | EpisodeAccounting, TimersOfLiveEpisodes, HandlersOfLiveEpisodes, RestoredWhenUndisturbed, SectionsFollowUser, EveryEpisodeEnds, ImplementsLifecycle |
| collection | 1,519,731 | StoredInOrder, UploadedMeansStored, NextTrialIsFresh, RowsAreWholeTrials, OneOpenSession, FailedUploadIsKept |
| loop | 795,351 | BaselineNeverAdapts, NoLostEnding, AppliedForCurrentTask |
| pipeline | 291,196 | PredictionNamesItsWindows, SingleFlight, FirstTrialUnpadded, EvaluationSettles |
| windows | 1,318,525 | EventsCountedOnce, OpenSlotsKeepTheirEvents, WindowsLabelledOnce, LabelsAreJustified, NoOrphanedWindows |
| decisions | 629,645 | VerdictIsJustified, VerifierPassesWholeTraces, UnterminatedAreLive, AttributedToItsOrigin, EndingsHaveTheirBeginning |
| trial_reported | violated | ReportedMeansStored |
| task_steps | violated | StepsAreTheUsers |
| refractory | violated | RefractoryPeriod |
| disclosure | violated | DisclosureObserved |
| window_ids | violated | WindowIdsPerSession |

Every property of a passing run has a mutant of the code (`PROJECT.json`, "mutants") that breaks it; the mutants'
definitions stand in the modules before the definition they replace, and their comments call them mutants.

Two properties compare the code with a definition that does not follow it. `LabelsAreJustified` (windows) says which labels a
horizon calls for, from all the events that were heard but those the deriver's limit dropped, and not from those it kept. `VerdictIsJustified` (decisions) finds the
pattern that decides from the definition of support (the number of sequences that contain the pattern, by
embeddings), with no mining, no cursor and no sorted list.

### Bounds, and why they are enough

- *policy*: a streak of 2, cooldown 2, dismissal cooldown 3 and four ticks: a dismissal can outlast the
  cooldown that preceded it, a reset can fall anywhere, and two tasks and two types can alternate within a streak.
  The theorems remove the bounds.
- *dom*: the four types, each with the dismissal means it has, and three episodes over one section, the drawer and a
  navigation button: two may overlap on one element and a third replace either, or an episode be the replacement of a
  replacement. The theorems remove the bound, and that on the sections. One section is enough for what a section's fold and unfold can do; that
  several are folded together is in `ClickAll`.
- *loop*: a start of T1 and then one of T2 (`Plan`), one switch, two episodes, one tick. An evaluation can be
  in flight across any of the boundaries. `MaxTime` is 1 because expiry is an action of its own: the clock only separates
  acceptances. `RequiredConsecutiveWindows = 2` is what `boot.ts:121` and the defaults
  set (`runtimeConfig.ts:298` would permit 1), and it matters: with 1, an answer asked for under an earlier task could be accepted after the reset of the next
  start. With 2 the second endorsement has to be asked for anew.
- *pipeline*: a sequence of 2, five windows, one reset: an evaluation can be overtaken by the window that would
  evict its oldest, and by the reset.
- *windows*: slots of 2, settlement 1, minimum 2, retention 2, capacity 2, three events (scrolls, then a click or a scroll, then
  a submit or the page's hiding), nine ticks,
  a limit of two events in the deriver, one new session with a clock step of -2, 0 or 2, one restart: sparse slots, an idle gap,
  overflow of either buffer, a
  label still pending at a rotation, two events at one instant, and a grace that expires before its horizon is covered all occur.
- *decisions*: two symbols in three macros, three declared patterns of at most two symbols (one of them for `no_op`, which never
  wins), two candidates and one sequence of history: a pattern can be mined and cut, frequent and undeclared, declared and not
  contained. Four windows and two predictions in buffers of five records: the interventions of one trial can overflow theirs. Two configurations: adaptive
  with patterns and both models, baseline without patterns and with one. The bound on predictions also ends the streams, so
  that no macros follow that nothing could evaluate. In the application `minConfidence` is never sent to the worker (`core.ts:228` then uses 0); the
  constant is 0.5 here so that the filter is exercised.
- *collection*: two trials, one reload, one switch, one rejected request of the local store: two closings overlap at every pair
  of awaits, and the reload may fall between any two. A rejected request changes nothing in the store, and one that can never be opened
  rejects every request, of which one is enough to end a closing. Left out: a transaction that aborts after its request succeeded.
  (*trial_reported* has no rejection: its counterexample needs none.)

### Fairness

Only timers are assumed fair. `UIActuator!FairSpec` has weak fairness of the expiry of an armed TTL timer
(`setTimeout` in `apply()`), from which every applied episode ends. `EvaluationPipeline!FairSpec` has weak fairness of
the timeout of a pending request (`setTimeout` in `sendRequest`), from which every evaluation
settles: neither the worker nor the network is assumed to answer. Nothing is assumed of the user.

## 4. What is proved

Every theorem is checked by `tlapm` to the last leaf, for all values of the constants that satisfy the named
assumptions of the models' modules; TLC evaluates those assumptions in the runs. Each inductive invariant was also
checked by TLC as an invariant of the run of its model (with the run's type invariant in the place of types TLC cannot
enumerate). Every invariant and action property of a passing run is a theorem, save one: `VerdictIsJustified`.

| property (run) | theorem |
|---|---|
| policy: TypeOK, CooldownSpacing, DismissalHonoured, StreakWithinOneTask | `PolicyTypeOK`, `CooldownSpacingHolds`, `DismissalHonouredHolds`, `StreakWithinOneTaskHolds` |
| dom: DomTypeOK, EpisodeAccounting, TimersOfLiveEpisodes, HandlersOfLiveEpisodes | `DomTypesHold`, `EpisodeAccountingHolds`, `TimersEndWithTheirEpisode`, `HandlersEndWithTheirEpisode` |
| dom: RestoredWhenUndisturbed, SectionsFollowUser, ImplementsLifecycle | `NodesAreRestored`, `SectionsAreTheUsers`, `ActuatorImplementsLifecycle`, `PageImplementsActuator` |
| collection: all seven | `TrialTypeOK`, `TracesAreStoredInOrder`, `UploadedTracesAreStored`, `NextTrialStartsFresh`, `WaitingStoresWholeTrials`, `WaitingKeepsOneOpenSession`, `FailedUploadsAreKept` |
| loop: TypeOK, BaselineNeverAdapts, NoLostEnding, AppliedForCurrentTask | `LoopTypeOK`, `BaselineIsNeverAdapted`, `NoEndingIsLost`, `AdaptationsAreForTheCurrentTask` |
| windows: TypeOK, EventsCountedOnce, OpenSlotsKeepTheirEvents | `TypesKept`, `NoEventCountedTwice`, `OpenSlotsLoseNothing` |
| windows: WindowsLabelledOnce, LabelsAreJustified, NoOrphanedWindows | `EachWindowLabelledOnce`, `LabelsJustified`, `NoneOrphaned` |
| decisions: TypeOK, VerifierPassesWholeTraces, UnterminatedAreLive | `TraceTyped`, `WholeTracesVerified`, `WarningsMeanWhatTheySay` |
| decisions: AttributedToItsOrigin, EndingsHaveTheirBeginning | `AttributedToItsCause`, `NoEndingFromNowhere` |
| pipeline: TypeOK, PredictionNamesItsWindows, SingleFlight, FirstTrialUnpadded | `PipelineTypeOK`, `PredictionsNameTheirWindows`, `EvaluationsNeverOverlap`, `FirstTrialNeverPadded` |

`InterventionPolicyProofs`, for any sets of types, targets, tasks, commands and contexts, any streak
length and any cooldowns (the assumptions named in `InterventionPolicy`). The two safety properties are not inductive by
themselves, because they relate past acceptances to each other and say nothing of the variables the gates
read. `PolicyInv` adds that the gates dominate the histories: `cooldownUntil` is
at least a cooldown after each remembered acceptance (`CooldownCovers`), `dismissedUntil[t]` likewise
(`DismissalCovers`), and the tasks of a streak are the last task or none (`StreakOfLastTask`).

`UIActuatorProofs`, for any set of types and any number of episodes. The conjuncts of `ActuatorInv` need each other: that a
timer belongs to a live episode is preserved by a replacement only because an episode is live of one type only
(`EpisodeAccounting`), and accounting is preserved by `Apply` only because unused episodes have no kind (`BegunOnly`).
`ActuatorImplementsLifecycle`: with `StatusOf` as the refinement mapping, each step moves episodes along the lifecycle or
stutters.

`DomRestorationProofs`, for any sections, types and number of episodes. What a cleanup puts back is what was on the node when
the adaptation came; that this is what the host rendered holds only if nobody else held the node then or rewrote it since. `DomInv`
says so: an undisturbed node has one holder at most (`OneHolder`), whose record is as rendered, and
the part of the node the holder did not record is still so (`HoldersRestore`). `AriaInv` follows `aria-expanded`
separately: it is the host's, or a live tooltip's, or gone where one was (`AriaHeld`). A record's two nodes are mounted together
(`MountedTogether`), which navigation needs: it detaches a record by one of them. `CleanedEffect` is the lemma the steps
share: what the cleanups of a set of types leave of the page, by induction over the episodes in whose order they run. For the sections, `WantedInv` adds that a section
a live simplification closed was open by the user's choice and is closed now, all others being as chosen (`FoldedAreClosed`), and
that where no tooltip interfered the attribute the code reads is the host's state (`AriaFollows`).

`EvaluationPipelineProofs`, for any sequence length and any numbers of windows, trials and resets. `PipelineInv` follows the
worker's sequence through the queue: running it forward over the messages not yet handled gives, at each EVALUATE, the windows
the runtime named when it posted it, and at the end the windows the runtime holds. `SingleFlight` needs that at most one request of
the runtime is outstanding anywhere (queue, worker, answers on their way).

`TrialCollectionProofs`, for any set of closings and any number of sessions. `TrialInv` ties the place of every
process between two awaits to what store and server hold for the session it works on, and says which sessions
can still be written by whom. With requests that may be rejected it also has to say what a closing
that stops half way leaves: the active session has a row only while a closing works on it or after a rejection (`RowWhileClosing`), and the
recorder holds more than the current trial only where a rejection kept a session from rotating or the closer from being
subscribed (`OneTrial`).

`AdaptationLoopProofs`, for any plan of tasks. The loop's module INSTANCEs the policy and the actuator; their inductive invariants are
part of `LoopInv`, and each action of the loop is shown to be steps of theirs. `BaselineNeverAdapts` needs that an evaluation in
flight belongs to the runtime that runs and was begun under its condition (`FlightOfRunning`). `TypeOK` bounds the closings still pending by the tasks started,
which needs that every ending a task can still publish is paid for by a start (`TaskInv`): what a gesture, a sequence of
interactions of any length, does to a task is proved by induction on it (`GestureFollows`).
`AdaptationsAreForTheCurrentTask` is the action property, and has a hypothesis: `RequiredConsecutiveWindows > 1`. The
application's value is 2 (`boot.ts:121`); the configuration would accept 1 (`runtimeConfig.ts:298`), and then the property is false: TLC finds an evaluation
asked for before the start of a task, answered after it, and applied. `LoopImplementsActuator` makes the actuator's theorems, its
refinement of the lifecycle included, theorems about the loop.

`WindowOutcomesProofs`, for any stride, settlement and horizon, any capacity and retention, and a clock that steps either way at
a new session. None of the properties of the windows is inductive. That no event is counted twice needs that all windows of a life
end before the grid's next slot (`GridInStep`) and that the events of an earlier life are gone from the buffers
(`PastLivesAreOver`); that each window is labelled once, that the pending ones stand in the order of their slots and
behind every label of their life (`PendingInOrder`, `LabelsAreOfEarlierWindows`), since a flush takes those due from the front and a
provisional label is not repaired; that none is an orphan, that a window without a label still waits (`NoneForgotten`) and that one
that waits is young (`WaitingAreYoung`). `LabelsJustified` says that a label derived from a buffer that evicts is the label that
everything heard calls for. It needs `EvictedAreOld`: what the deriver evicted by age lies before the horizon of every window that waits or
is still to come; what its limit dropped is kept apart, since that may lie anywhere (`DroppedBounds`). Then both labels are derived from the same horizon, and `ClassesAreRanked` and `HighestRank` show that the sorted walk
with its counters ends in the class the definition calls for. `Standings` and the lemmas after it say of `Enumeration` that it lists
each member once and in order.

`DecisionTraceProofs`, for any patterns, models, windows and predictions and any size of the buffers. The buffers drop their oldest
records, so an invariant about all that was recorded cannot be stated of them. What `TraceInv` says of the records in every trace, truncated or
not, is closed under dropping the oldest (`RecordsInOrder`): they carry numbers of episodes and predictions that were begun, an acceptance
names its episode's prediction, an applied episode that is no longer up has its ending after
the application, and an episode that ended is not up. Only while nothing was lost (`~trace.truncated`) it adds that the rest is there too (`NothingLost`): the
acceptance before each other record of its episode and for each prediction decided, the application of what is up
and of what ended. `UnterminatedAreLive` follows from the first part; the other three, which speak of whole traces, need both. That a whole trace passes exactly
when no window is orphaned holds because every other check of `Verified` is shown to pass. `OneEach` (no episode is up as two types) makes a clearing end each episode once, and
`RoomForTheFlight` (an evaluation under way has a prediction left to it) keeps the ids within their bound. Gates and arbitration enter by the type of
what they decide, since the records do not depend on which candidate wins.

Two of these modules need induction over the naturals stated for a set, and that a function defined by recursion on them exists
(`RecursionExists`). The library's theorems on both take operators as parameters, which the provers cannot instantiate; the lemmas
stand at the end of `UIActuatorProofs`. That the models' recursive functions satisfy their defining equations is proved from them
(in `GestureFollows` and `CleanedEffect`).

What stays with TLC:

- `EveryEpisodeEnds` and `EvaluationSettles`: liveness under fairness, out of the prover's reach.
- `VerdictIsJustified`: that mining by projection finds the patterns of sufficient support is induction over data, a pattern's
  length and the sequences', with operators for its hypotheses.
- The five findings are counterexamples, and concern TLC alone.

## 5. Findings

Five runs check what a comment or a document says and find a counterexample; `PROJECT.json` quotes each.

1. *trial_reported*: `closeTrial()` rotates the session after the upload. A second trial that ends meanwhile is closed
   under the same session id, meets 409, and is reported uploaded although its trace is not on the server.
2. *task_steps*: the clicks `simplify_options` makes are observed and can complete a step of the participant's task.
3. *refractory*: each task-state publication (a step, an error) clears the cooldown.
4. *disclosure*: the observer listens in the capture phase, so it reads `aria-expanded` before it changes.
5. *window_ids*: `resetTrial()` restarts the window ids within a session.

What the models also show, without a run of its own:

- A failed actuation leaves two policy decisions for one prediction (`accepted`, then `actuation_failed`), and a failed
  evaluation leaves none, where `docs/data_schemas.md:54` says that "every evaluation produces exactly one".
- The terminal event of an adaptation names the prediction that is current when it ends (`adaptiveRuntime.ts:1038`). The verifier is not
  misled: it goes by the acceptance (`AttributedToItsOrigin`).
- An adaptation that is up when its trial is closed has its ending in the next trial's trace (`carried` in `EndingsHaveTheirBeginning`).
- A reset drops the windows that wait for a label, while the recorder keeps them: orphans by the verifier's definition, and often hidden by
  later windows of the same id. `NoOrphanedWindows` holds for the runtime's current life only. The verifier and the export's own warnings fail such
  a trace (checks 4 and 8), whatever else it holds: `VerifierPassesWholeTraces` says that nothing but the windows makes it fail.
- A tooltip's cleanup removes `aria-expanded` from its element (`actuator.ts:536`), also where the host had rendered it, which stays so until the
  host next changes the attribute. `actuator.ts:12` promises "100% deterministic restoration", `:280` the "exact initial DOM
  state", `docs/architecture.md:235` that a tooltip "restores attributes". Adaptations that overlap on an element leave marks, against the same promises
  (they are undone oldest first, `actuator.ts:285`). `RestoredWhenUndisturbed` names both exceptions.
- A rejected request of IndexedDB (`localStore.ts:133`) ends the closing that awaits it, since neither `completeSession()` nor `closeTrial()` catches it
  (`collection.ts:227-228`, `:260`, `:303`): the session is not rotated and the recorder not cleared, so that the next row holds two trials, or
  the session at rest already has its row. `collection.ts:216` says "A failure never throws". `NextTrialIsFresh` and `RowsAreWholeTrials`
  except the sessions this happened to (`cutShort`), and only those.
- The deriver's limit (`derive.ts:280`, 5,000 events in the application) can drop an event of a horizon that is still open; the label misses it
  and nothing records that. `LabelsAreJustified` leaves out what was `dropped`.
- After a condition switch the trial closer precedes the new runtime's recorder in the list of listeners, so the snapshot of a trial lacks its
  terminal event, where `boot.ts:248-251` promises that it is "already inside the trace when the snapshot is taken".
- When a model cannot be fetched a mock slow gate answers for the rest of the worker's life, always HOVER_DWELL, never a command.
- The fixed-pattern gate is chosen exactly when there are no patterns (`adaptiveRuntime.ts:325-329`), so in the application it never matches.
- A miner that cannot be loaded counts as one that ran and found nothing (`core.ts:145`).

Further, in "hazards": acknowledgements from before a reset are counted for the trial after it (`adaptiveRuntime.ts:661`).

## 6. Not modelled, and why

- Feature extraction, the Rust vectorizer and the forward pass of the ONNX models: numeric code on floats. What the two heads
  answer is an input of the decisions run, any command an input of the loop.
- Of a label, its metadata (source, candidate count, the event it came from).
- Of the trace verifier, the checks of structure and schema version (the field-by-field validation), of the task lifecycle (start, steps, end),
  of the declared clock and of provenance; of the recorder, metadata and manifest.
- `retryPendingUploads` and the provenance modes: no caller outside the tests, one mode per build.
- The in-process fallback of a browser without worker threads, whose requests `terminate()` cannot reject (see "hazards").
- Diagnostics, debug panel, configuration parsing, the numeric context vector: display, or pure reading.
- `policy.updateConfig` (nothing calls it) and the `navigation` event that abandons a task (nothing in the repository
  dispatches it).
- Overlapping boots. The controls are disabled during a switch, but not during the boot of the page load (`main.tsx`), which a
  switch can overlap; the models have one boot at a time (see "hazards").
- A transaction of the local store that aborts after its request succeeded.
- Two tabs sharing one local store.

## 7. Plan

In this order, the core first; the first four blocks are in place.

1. Loop: InterventionPolicy, UIActuator with its abstract specification, DomRestoration, TestbedTasks, AdaptationLoop;
   theorems of policy and actuator.
2. Pipeline and storage: EvaluationPipeline, WindowOutcomes, TrialCollection, MacroObservation.
3. Decisions and records: SequenceMining, Gates, TraceVerifier, DecisionTrace; the labels of WindowOutcomes; the contexts of
   AdaptationLoop. None of these modules declares a RECURSIVE operator, so that theorems can be stated about them.
4. Proofs: policy, actuator, page, loop, pipeline, collection, windows and trace are in place.
5. If a run becomes free: the trial that ends after a condition switch, the in-process fallback, a second tab.
