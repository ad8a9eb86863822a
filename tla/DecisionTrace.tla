----------------------------- MODULE DecisionTrace -----------------------------
(***************************************************************************)
(* From the macro interactions to the trace of one trial: what an          *)
(* evaluation sees (src/src/runtime/adaptiveRuntime.ts and                 *)
(* src/src/runtime/worker/core.ts), what the gates conclude from it, the   *)
(* records evaluateAndAct() and the actuator's events leave, in their      *)
(* order, and the bounded buffers that keep them                           *)
(* (src/src/telemetry/recorder.ts), across resets, stops, boots and the    *)
(* rotation of a closed trial.                                             *)
(*                                                                         *)
(* The policy is left to InterventionPolicy: here it may refuse or accept  *)
(* any command. Requests are answered in the order the worker received     *)
(* them, so an evaluation sees the macro history as it was when it began.  *)
(***************************************************************************)
EXTENDS Gates, TraceVerifier, Enumeration

CONSTANTS
  Configs,        \* what a runtime may be started with: the condition, the pattern map (its
                  \* keys in order, none or those of Declared), the slow gate it asks for, its
                  \* models and whether they are mapped by the table
  HeadInputs,     \* answers of the two model heads
  HistoryCap,     \* 100: macro interactions the worker keeps
  Lookback,       \* recentSequenceLookback
  SequenceLength, \* windows the worker must hold before the first evaluation
  MaxBufferSize,  \* records a trace buffer keeps
  NoFlight,
  MaxWindows, MaxMacros, MaxPredictions   \* bounds

ASSUME TraceAssumption ==
  /\ Configs \subseteq [condition: {"baseline", "adaptive"}, patterns: {<< >>, DeclaredOrder},
                        slow: {"mock", "onnx"}, models: SUBSET Models, deterministic: BOOLEAN]
  /\ HeadInputs \subseteq Heads
  /\ HistoryCap \in Nat \ {0} /\ Lookback \in Nat \ {0}
  /\ SequenceLength \in Nat \ {0} /\ MaxBufferSize \in Nat \ {0}
  /\ {MaxWindows, MaxMacros, MaxPredictions} \subseteq Nat

VARIABLES
  config, running,
  slowGate,             \* the slow gate the worker holds
  latestWindow,         \* latestWindowId, counted from 1; 0 before the first
  macros,               \* the macro stream: <<symbol, window it was stamped with>>
  flight,               \* the evaluation in flight: what the worker's fast gate made of the
                        \* request, how its miner did, and the window it names; or NoFlight
  predictionCounter,
  currentPredictionId,  \* 0: undefined
  live,                 \* the actuator's active episode of each type, 0 for none
  trace,                \* the recorder's buffers
  origin,               \* history: the prediction each episode was begun for
  carried               \* history: episodes live when the recorder was last cleared

worker == <<latestWindow, macros, flight>>
ids == <<predictionCounter, currentPredictionId, origin>>
vars == <<config, running, slowGate, worker, ids, live, trace, carried>>

Episodes == DOMAIN origin   \* episodeCounter is its length
NoneLive == [t \in Types |-> 0]
EmptyTrace == [predictions |-> << >>, decisions |-> << >>, interventions |-> << >>,
               truncated |-> FALSE]

TypeOK ==
  /\ config \in Configs /\ running \in BOOLEAN
  /\ slowGate \in {"mock", "onnx"} /\ (slowGate = "onnx" => config.slow = "onnx")
  /\ latestWindow \in 0..MaxWindows
  /\ macros \in Seq(Symbol \X (0..MaxWindows)) /\ Len(macros) <= MaxMacros
  /\ flight = NoFlight \/
     flight \in [fast: Decisions, mined: BOOLEAN, window: 1..MaxWindows]
  /\ predictionCounter \in 0..MaxPredictions
  /\ currentPredictionId \in 0..predictionCounter
  /\ origin \in Seq(1..predictionCounter)
  /\ live \in [Types -> {0} \cup Episodes]
  /\ trace \in Trace(Types, NoType)
  /\ \A b \in {trace.predictions, trace.decisions, trace.interventions} : Len(b) <= MaxBufferSize
  /\ carried \subseteq Episodes
  /\ ~running => flight = NoFlight /\ live = NoneLive /\ macros = << >>

(* The mode of the fast gate that goes with a pattern map.                  *)
FastGateMode(patterns) == IF patterns = << >> THEN "mock" ELSE "prefixspan"

(* INIT: what the worker is told, and what it makes of it.                  *)
Initialised(with, fetchable) == CreateSlowGate(with.slow, with.models, fetchable)

Init ==
  /\ config \in Configs
  /\ slowGate \in {Initialised(config, fetchable) : fetchable \in SUBSET Models}
  /\ running = TRUE
  /\ latestWindow = 0 /\ macros = << >> /\ flight = NoFlight
  /\ predictionCounter = 0 /\ currentPredictionId = 0 /\ origin = << >>
  /\ live = NoneLive
  /\ trace = EmptyTrace /\ carried = {}
-----------------------------------------------------------------------------
(* append(): a full buffer loses its oldest record, and the loss is counted.*)
KeptWhole(buffer, items) == buffer \o items   \* a mutant: the buffer is not bounded
Kept(buffer, items) == Latest(buffer \o items, MaxBufferSize)
Evicts(buffer, items) == Len(buffer) + Len(items) > MaxBufferSize
RecordedUncounted(t, predictions, decisions, interventions) ==  \* a mutant: a silent shift()
  [predictions |-> Kept(t.predictions, predictions),
   decisions |-> Kept(t.decisions, decisions),
   interventions |-> Kept(t.interventions, interventions), truncated |-> t.truncated]

Recorded(t, predictions, decisions, interventions) ==
  [predictions |-> Kept(t.predictions, predictions),
   decisions |-> Kept(t.decisions, decisions),
   interventions |-> Kept(t.interventions, interventions),
   truncated |-> \/ t.truncated
                 \/ Evicts(t.predictions, predictions)
                 \/ Evicts(t.decisions, decisions)
                 \/ Evicts(t.interventions, interventions)]

(* An event of the actuator names no prediction and takes the current one.  *)
Event(kind, type, episode, prediction) ==
  [kind |-> kind, type |-> type, episode |-> episode, prediction |-> prediction]
LiveAmong(S) == {live[t] : t \in S} \ {0}
TypeOf(episode) == CHOOSE t \in Types : live[t] = episode
EndingsOf(S, kind, prediction) ==
  LET ending == Ordered(LiveAmong(S))
  IN  [k \in DOMAIN ending |-> Event(kind, TypeOf(ending[k]), ending[k], prediction)]
Cleared(S) == [t \in Types |-> IF t \in S THEN 0 ELSE live[t]]
-----------------------------------------------------------------------------
(* getMacroSequences(): the history by window, oldest first; what was       *)
(* stamped with no window is left out.                                      *)
History == Latest(macros, HistoryCap)
BucketOf(window) ==
  LET In(m) == m[2] = window
      bucket == SelectSeq(History, In)
  IN  [k \in DOMAIN bucket |-> bucket[k][1]]
MacroSequences ==
  LET NonEmpty(s) == s # << >>
  IN  SelectSeq([w \in 1..MaxWindows |-> BucketOf(w)], NonEmpty)
Recent ==
  [k \in DOMAIN Latest(macros, Lookback) |-> Latest(macros, Lookback)[k][1]]

(* A bound: the streams end with the last prediction.                       *)
MoreToDecide ==
  predictionCounter + (IF flight = NoFlight THEN 0 ELSE 1) < MaxPredictions

(* The observer derives a macro symbol; it is stamped with the latest       *)
(* window and pushed to the worker.                                         *)
RecordMacro(symbol) ==
  /\ running /\ Len(macros) < MaxMacros /\ MoreToDecide
  /\ macros' = Append(macros, <<symbol, latestWindow>>)
  /\ UNCHANGED <<config, running, slowGate, latestWindow, flight, ids, live, trace, carried>>

(* EVALUATE: the worker asks the fast gate about the sequence it was sent   *)
(* and the history it holds.                                                *)
FastDecision(miner) ==
  IF FastGateMode(config.patterns) = "mock" THEN MockDecision(Recent, config.patterns)
  ELSE PrefixSpanDecision(MacroSequences, Recent, miner)

(* handleWindow(): a window is emitted and, once the sequence is full and   *)
(* no evaluation is in flight, evaluated.                                   *)
CloseWindow(evaluates, miner) ==
  /\ running /\ latestWindow < MaxWindows /\ MoreToDecide
  /\ latestWindow' = latestWindow + 1
  /\ evaluates => /\ flight = NoFlight /\ latestWindow >= SequenceLength
  /\ flight' = IF evaluates
               THEN [fast |-> FastDecision(miner), mined |-> miner = "ready",
                     window |-> latestWindow + 1]
               ELSE flight
  /\ UNCHANGED <<config, running, slowGate, macros, ids, live, trace, carried>>

(* What the slow gate may answer; the sessions that RESET drops are loaded  *)
(* anew by the next inference, which then may fail.                         *)
SlowResults ==
  IF slowGate = "mock" THEN {MockResult}
  ELSE {NoResult} \cup {OnnxResult(h, config.models, config.deterministic) : h \in HeadInputs}
VerdictsOfFlight ==
  {[gate |-> v.gate, type |-> v.type, mapping |-> v.mapping] :
     v \in {Arbitrate(flight.fast, slow) : slow \in SlowResults}}

NextPrediction == predictionCounter + 1
PredictionOf(verdict) ==
  [id |-> NextPrediction, window |-> flight.window, gate |-> verdict.gate,
   type |-> verdict.type, mapping |-> verdict.mapping]
DecisionOf(type, verdict) ==
  [prediction |-> NextPrediction, candidate |-> type, verdict |-> verdict]

(* evaluateAndAct() after its await, when nothing is to be applied: there   *)
(* is no candidate, the policy refuses it, or the condition is baseline.    *)
AnswerUnapplied(verdict, outcome) ==
  /\ flight # NoFlight /\ flight' = NoFlight
  /\ outcome \in IF verdict.type = NoType THEN {"no_prediction"}
                 ELSE IF config.condition = "adaptive" THEN {"rejected"}
                 ELSE {"rejected", "decision_only"}
  /\ predictionCounter' = NextPrediction
  /\ trace' = Recorded(trace, <<PredictionOf(verdict)>>,
                       <<DecisionOf(verdict.type, outcome)>>, << >>)
  /\ UNCHANGED <<config, running, slowGate, latestWindow, macros, currentPredictionId, origin, live,
                 carried>>

(* The command is accepted and applied: the episode begins, its acceptance  *)
(* is recorded, then apply() ends the live adaptation of the type and, when *)
(* it finds a target, starts the new one.                                   *)
ReplacementUnrecorded(type, episode, found) ==   \* a mutant: apply() overwrites in silence
  <<Event("accepted", type, episode, NextPrediction)>>
    \o (IF found THEN <<Event("applied", type, episode, NextPrediction)>> ELSE << >>)
AppliedBeforeAccepted(type, episode, found) ==   \* a mutant: recorded after the application
  EndingsOf({type}, "reverted", NextPrediction)
    \o (IF found THEN <<Event("applied", type, episode, NextPrediction)>> ELSE << >>)
    \o <<Event("accepted", type, episode, NextPrediction)>>
ApplicationRecords(type, episode, found) ==
  <<Event("accepted", type, episode, NextPrediction)>>
    \o EndingsOf({type}, "reverted", NextPrediction)
    \o (IF found THEN <<Event("applied", type, episode, NextPrediction)>> ELSE << >>)
AnswerAccepted(verdict, found) ==
  /\ flight # NoFlight /\ flight' = NoFlight
  /\ verdict.type # NoType /\ config.condition = "adaptive"
  /\ verdict.type = "offer_assistance" => found
  /\ predictionCounter' = NextPrediction
  /\ currentPredictionId' = NextPrediction
  /\ origin' = Append(origin, NextPrediction)
  /\ live' = [Cleared({verdict.type}) EXCEPT
                ![verdict.type] = IF found THEN Len(origin) + 1 ELSE 0]
  /\ trace' = Recorded(trace, <<PredictionOf(verdict)>>,
                       <<DecisionOf(verdict.type, "accepted")>>
                         \o (IF found THEN << >>
                             ELSE <<DecisionOf(verdict.type, "actuation_failed")>>),
                       ApplicationRecords(verdict.type, Len(origin) + 1, found))
  /\ UNCHANGED <<config, running, slowGate, latestWindow, macros, carried>>

(* The worker fails or does not answer in time: nothing is recorded.        *)
EvaluationFails ==
  /\ flight # NoFlight /\ flight' = NoFlight
  /\ UNCHANGED <<config, running, slowGate, latestWindow, macros, ids, live, trace, carried>>
-----------------------------------------------------------------------------
(* A TTL ends an adaptation; the user ends one, with the event of its       *)
(* clearing before that of its dismissal.                                   *)
Expire(type) ==
  /\ live[type] # 0
  /\ live' = Cleared({type})
  /\ trace' = Recorded(trace, << >>, << >>, EndingsOf({type}, "reverted", currentPredictionId))
  /\ UNCHANGED <<config, running, slowGate, worker, ids, carried>>
Dismiss(type) ==
  /\ live[type] # 0
  /\ live' = Cleared({type})
  /\ trace' = Recorded(trace, << >>, << >>,
                       EndingsOf({type}, "reverted", currentPredictionId)
                         \o EndingsOf({type}, "dismissed", currentPredictionId))
  /\ UNCHANGED <<config, running, slowGate, worker, ids, carried>>

(* resetTrial(): the endings are recorded while the current prediction is   *)
(* still known; the evaluation in flight and the counters go on.            *)
ResetTrial ==
  /\ running
  /\ trace' = Recorded(trace, << >>, << >>, EndingsOf(Types, "reverted", currentPredictionId))
  /\ live' = NoneLive
  /\ latestWindow' = 0 /\ macros' = << >> /\ currentPredictionId' = 0
  /\ UNCHANGED <<config, running, slowGate, flight, predictionCounter, origin, carried>>

(* stop(): the endings are recorded before the recorder is unsubscribed,    *)
(* and terminating the worker fails the evaluation in flight.               *)
NoEndings == << >>     \* a mutant of EndingsAtStop: unsubscribed first
EndingsAtStop == EndingsOf(Types, "reverted", currentPredictionId)
Stop ==
  /\ running /\ running' = FALSE
  /\ trace' = Recorded(trace, << >>, << >>, EndingsAtStop)
  /\ live' = NoneLive
  /\ latestWindow' = 0 /\ macros' = << >> /\ flight' = NoFlight
  /\ UNCHANGED <<config, slowGate, ids, carried>>

(* bootTestbed(): the old runtime is stopped, the recorder cleared, and a   *)
(* new runtime counts its predictions and episodes from one.                *)
Boot(with, fetchable) ==
  /\ running => with.condition # config.condition
  /\ config' = with /\ running' = TRUE
  /\ slowGate' = Initialised(with, fetchable)
  /\ trace' = EmptyTrace /\ carried' = {}
  /\ latestWindow' = 0 /\ macros' = << >> /\ flight' = NoFlight
  /\ predictionCounter' = 0 /\ currentPredictionId' = 0 /\ origin' = << >>
  /\ live' = NoneLive

(* closeTrial(): the trace is handed over and the recorder cleared, without *)
(* the runtime being told.                                                  *)
Rotate ==
  /\ trace' = EmptyTrace
  /\ carried' = {live[t] : t \in Types} \ {0}
  /\ UNCHANGED <<config, running, slowGate, worker, ids, live>>

Next ==
  \/ \E symbol \in Symbol : RecordMacro(symbol)
  \/ \E evaluates \in BOOLEAN, miner \in MinerStates :
       /\ miner # "ready" => evaluates /\ FastGateMode(config.patterns) = "prefixspan"
       /\ CloseWindow(evaluates, miner)
  \/ /\ flight # NoFlight
     /\ \E verdict \in VerdictsOfFlight :
          \/ \E outcome \in Verdicts : AnswerUnapplied(verdict, outcome)
          \/ \E found \in BOOLEAN : AnswerAccepted(verdict, found)
  \/ EvaluationFails
  \/ \E type \in Types : Expire(type) \/ Dismiss(type)
  \/ ResetTrial \/ Stop
  \/ \E with \in Configs, fetchable \in SUBSET Models : Boot(with, fetchable)
  \/ Rotate

Spec == Init /\ [][Next]_vars
-----------------------------------------------------------------------------
(* The pattern that decides an evaluation that begins now, by definition    *)
(* rather than by mining: of the frequent declared patterns that the current*)
(* sequence contains the first in rank.                                     *)
Due ==
  IF config.patterns = << >> \/ Recent = << >> THEN {}
  ELSE Deciding(Append(Latest(MacroSequences, MaxCorpusSequences), Recent), Recent)

(* A recorded prediction is the one the interactions call for that were in  *)
(* view when its evaluation began: the command of the pattern that decides, *)
(* unless the miner had none to offer, and no fast-gate command without     *)
(* one, whatever the slow gate says (the fast gates, the miner, arbitration,*)
(* evaluateAndAct's snapshot).                                              *)
VerdictIsJustified ==
  [][/\ flight' \notin {flight, NoFlight} =>
          flight'.fast \in IF flight'.mined /\ Due # {} THEN {Hit(p) : p \in Due}
                          ELSE {Miss}
     /\ predictionCounter' = predictionCounter + 1 =>
          LET p == Last(trace'.predictions)
          IN  /\ p.id = predictionCounter' /\ p.window = flight.window
              /\ p.gate = "fast" <=> flight.fast.type \in Types
              /\ p.gate = "fast" => p.type = flight.fast.type]_vars

(* Of a trace from which nothing was evicted and in which no adaptation is  *)
(* still up the verifier's checks of predictions, decisions and             *)
(* interventions never fail, wherever the trial was reset, stopped or       *)
(* rotated: whether it passes depends on the windows alone, none of which   *)
(* may be orphaned. A reset does orphan those that wait for their outcome   *)
(* (verifyTraceCompleteness, collectIntegrityWarnings, resetTrial).         *)
VerifierPassesWholeTraces ==
  ~trace.truncated /\ live = NoneLive =>
    \A orphaned \in SUBSET (1..MaxWindows) :
      Verified(trace, config.condition, orphaned) <=> orphaned = {}

(* In the trace an adaptation is unterminated exactly while it is on the    *)
(* page, so the export's warning means what it says, also of a truncated    *)
(* trace (collectIntegrityWarnings, the actuator's terminal events).        *)
UnterminatedAreLive ==
  \A e \in Applied(trace) : e \in Unterminated(trace) <=> \E t \in Types : live[t] = e

(* The verifier attributes every applied episode of a whole trace to the    *)
(* prediction it was begun for, although the events of the actuator name    *)
(* whichever prediction is current when they come (episodePrediction).      *)
AttributedToItsOrigin ==
  ~trace.truncated =>
    LET attributed == EpisodePrediction(trace)
    IN  \A e \in Applied(trace) : attributed[e] = origin[e]

(* A terminal record without the application it ends occurs only in a trace *)
(* that says it was truncated, or for an adaptation that was up when the    *)
(* trial before it was closed (append, clear, closeTrial).                  *)
EndingsHaveTheirBeginning ==
  trace.truncated \/ Terminal(trace) \subseteq Applied(trace) \cup carried
=============================================================================
