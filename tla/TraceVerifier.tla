----------------------------- MODULE TraceVerifier -----------------------------
(***************************************************************************)
(* What the offline check of an exported trace                             *)
(* (src/src/telemetry/traceAttributionVerifier.ts) concludes about its     *)
(* predictions, policy decisions, interventions and windows, and the       *)
(* warnings the export itself raises (src/src/telemetry/recorder.ts). Ids  *)
(* are numbers, 0 for one that is absent. Its checks of structure and      *)
(* schema, of the declared clock and provenance, and of the task's         *)
(* lifecycle are left out.                                                 *)
(***************************************************************************)
EXTENDS Naturals, Sequences, FiniteSets, SequencesExt

Verdicts == {"no_prediction", "rejected", "decision_only", "accepted", "actuation_failed"}
EventKinds == {"accepted", "applied", "reverted", "dismissed"}

(* Ids the records of a trace carry.                                        *)
PredictionRecord(types, none) ==
  [id: Nat, window: Nat, gate: {"fast", "slow", "none"}, type: types \cup {none},
   mapping: {"fast_gate_pattern", "deterministic_mapping", "learned_head", "none"}]
DecisionRecord(types, none) ==
  [prediction: Nat, candidate: types \cup {none}, verdict: Verdicts]
InterventionRecord(types) ==
  [kind: EventKinds, type: types, episode: Nat, prediction: Nat]
Trace(types, none) ==
  [predictions: Seq(PredictionRecord(types, none)),
   decisions: Seq(DecisionRecord(types, none)),
   interventions: Seq(InterventionRecord(types)), truncated: BOOLEAN]

EpisodesOf(trace, kinds) ==
  {e.episode : e \in {r \in Range(trace.interventions) : r.kind \in kinds}}
Applied(trace) == EpisodesOf(trace, {"applied"})
Terminal(trace) == EpisodesOf(trace, {"reverted", "dismissed"})
Issued(trace) == EpisodesOf(trace, {"accepted"})

(* 4. The windows without an outcome although the newest window is older    *)
(* than they by more than their settlement allowance (findOrphanedWindows). *)
FindOrphanedWindows(windows, labelled, allowance) ==
  {w \in windows : w.id \notin labelled /\ \E v \in windows : v.start - w.start >= allowance}

(* Every window past its allowance has its outcome.                         *)
WindowOutcomeCompleteness(orphaned) == orphaned = {}

(* 5. Unterminated episodes: the verifier's check and the export's warning. *)
Unterminated(trace) == Applied(trace) \ Terminal(trace)

(* 2. Correlation identifiers: the window of every prediction and the       *)
(* episode of every intervention.                                           *)
CorrelationIdentifiers(trace) ==
  /\ \A p \in Range(trace.predictions) : p.window # 0
  /\ \A e \in Range(trace.interventions) : e.episode # 0

(* 5b. Every prediction has an id and a verdict.                            *)
Decided(trace) == {d.prediction : d \in Range(trace.decisions)}
PolicyDecisionRecording(trace) ==
  \A p \in Range(trace.predictions) : p.id # 0 /\ p.id \in Decided(trace)

(* 5c. The prediction an episode is attributed to: that of its first record *)
(* that names one, unless a policy decision's first record (of its candidate*)
(* and its prediction) is of the episode: then that of the last such one.   *)
Named(trace) == {k \in DOMAIN trace.interventions : trace.interventions[k].prediction # 0}
NamedOf(trace, episode) == {k \in Named(trace) : trace.interventions[k].episode = episode}
MatchingDecision(trace, d) ==
  {k \in DOMAIN trace.interventions :
     /\ trace.interventions[k].type = d.candidate
     /\ trace.interventions[k].prediction = d.prediction}
Reattributing(trace, episode) ==
  {k \in DOMAIN trace.decisions :
     LET d == trace.decisions[k]
         matching == MatchingDecision(trace, d)
     IN  d.prediction # 0 /\ matching # {} /\ trace.interventions[Min(matching)].episode = episode}
EpisodePrediction(trace) ==
  [e \in {trace.interventions[k].episode : k \in Named(trace)} |->
     IF Reattributing(trace, e) = {} THEN trace.interventions[Min(NamedOf(trace, e))].prediction
     ELSE trace.decisions[Max(Reattributing(trace, e))].prediction]
EpisodePredictionAttribution(trace) ==
  Applied(trace) \subseteq DOMAIN EpisodePrediction(trace) \cup Issued(trace)

(* 6. A baseline trial mutates nothing.                                     *)
BaselineZeroMutations(trace, condition) ==
  condition = "baseline" => Applied(trace) = {}

(* 8. No warning was raised at export: nothing evicted, no adaptation open, *)
(* no window orphaned.                                                      *)
ExportIntegrityWarnings(trace, orphaned) ==
  ~trace.truncated /\ Unterminated(trace) = {} /\ orphaned = {}

Verified(trace, condition, orphaned) ==
  /\ CorrelationIdentifiers(trace)
  /\ PolicyDecisionRecording(trace)
  /\ EpisodePredictionAttribution(trace)
  /\ BaselineZeroMutations(trace, condition)
  /\ Unterminated(trace) = {}
  /\ WindowOutcomeCompleteness(orphaned)
  /\ ExportIntegrityWarnings(trace, orphaned)
=============================================================================
