-------------------------- MODULE EvaluationPipeline --------------------------
(***************************************************************************)
(* From a closed window to a recorded prediction, across two threads: the  *)
(* runtime (src/src/runtime/adaptiveRuntime.ts: handleWindow,              *)
(* dispatchWindow, maybeEvaluate, evaluateAndAct, resetTrial, stop), the   *)
(* worker client with its timeouts (src/src/runtime/workerClient.ts) and   *)
(* the worker that builds the sequence and evaluates it                    *)
(* (src/src/runtime/worker/core.ts, src/src/microtensor/sequence.ts).      *)
(*                                                                         *)
(* postMessage is a FIFO channel each way. The worker handles messages in  *)
(* order but awaits the gates inside EVALUATE, so its answer may follow    *)
(* those of later messages. A window is named by its trial and its id: the *)
(* ids restart with every trial.                                           *)
(***************************************************************************)
EXTENDS Naturals, Sequences, FiniteSets

CONSTANTS
  SequenceLength,  \* config.slowGate.sequenceLength, the T of the tensor
  NoFlight,
  MaxWindows,      \* bound: the number of windows emitted
  MaxResets        \* bound: the number of trial resets

ASSUME PipelineAssumption ==
  /\ SequenceLength \in Nat \ {0} /\ MaxWindows \in Nat /\ MaxResets \in Nat
  /\ NoFlight \notin [n: Nat, named: Seq([trial: Nat, id: Nat])]  \* no evaluation

VARIABLES
  (* AdaptiveRuntime *)
  running, trial, nextWindowId,
  evaluatedWindowIds,    \* the windows of the sequence the worker is building
  processedWindowCount,
  flight,                \* evaluating: the request and its snapshot, or NoFlight
  prediction,            \* the last prediction recorded: the windows it names
                         \* and those of the tensor it was computed from
  (* RuntimeWorkerClient *)
  requests,              \* requests ever sent
  pending,               \* pendingRequests: [n, kind]
  (* the channels and the worker *)
  toWorker, toMain,
  windows,               \* SequenceBuilder.windows
  computing,             \* EVALUATE handlers awaiting the gates: [n, tensor]
  emitted                \* windows ever emitted

runtime == <<running, trial, nextWindowId, evaluatedWindowIds, processedWindowCount,
             flight, prediction, emitted>>
client == <<requests, pending>>
worker == <<toWorker, toMain, windows, computing>>
vars == <<runtime, client, worker>>

Windows == [trial: 0..MaxResets, id: 0..MaxWindows]
Kinds == {"PUSH_WINDOW", "EVALUATE", "RESET"}
MaxRequests == 2 * MaxWindows + MaxResets
IsTensor(s) == Len(s) <= SequenceLength /\ \A k \in DOMAIN s : s[k] \in Windows

TypeOK ==
  /\ running \in BOOLEAN /\ trial \in 0..MaxResets /\ nextWindowId \in 0..MaxWindows
  /\ IsTensor(evaluatedWindowIds) /\ IsTensor(windows)
  /\ processedWindowCount \in 0..MaxWindows
  /\ requests \in 0..MaxRequests
  /\ flight = NoFlight \/ (flight.n \in 1..requests /\ IsTensor(flight.named))
  /\ pending \in SUBSET [n: 1..requests, kind: Kinds]
  /\ \A c \in computing :
       c.n \in 1..requests /\ IsTensor(c.tensor) /\ Len(c.tensor) = SequenceLength
  /\ \A k \in DOMAIN toWorker : toWorker[k].n \in 1..requests /\ toWorker[k].kind \in Kinds
  /\ \A k \in DOMAIN toMain : toMain[k].n \in 1..requests /\ toMain[k].kind \in Kinds
-----------------------------------------------------------------------------
Message(n, kind, window) == [n |-> n, kind |-> kind, window |-> window]
Request(n, kind) == [n |-> n, kind |-> kind]
NoWindow == [trial |-> 0, id |-> MaxWindows]   \* no window's id: the payload of a message
                                              \* without a window, a row of zeros

(* getTensor(): the windows in order, ending at the last row; the rows      *)
(* before them are zeros when the buffer holds fewer than SequenceLength.   *)
Padding(s) == [k \in 1..(SequenceLength - Len(s)) |-> NoWindow]
Tensor(s) == Padding(s) \o s

(* A FIFO bounded to the sequence length, on both threads; a mutant never   *)
(* drops the oldest window.                                                 *)
PushedUnbounded(s, w) == Append(s, w)
Pushed(s, w) ==
  LET longer == Append(s, w)
  IN  IF Len(longer) > SequenceLength THEN Tail(longer) ELSE longer

Init ==
  /\ running = TRUE /\ trial = 0 /\ nextWindowId = 0
  /\ evaluatedWindowIds = << >> /\ processedWindowCount = 0
  /\ flight = NoFlight /\ prediction = [named |-> << >>, tensor |-> Tensor(<< >>)]
  /\ requests = 0 /\ pending = {}
  /\ toWorker = << >> /\ toMain = << >> /\ windows = << >> /\ computing = {}
  /\ emitted = 0

(* maybeEvaluate(): nothing is in flight, the sequence was acknowledged and *)
(* the window was active or long enough has passed.                         *)
NeverWaits == TRUE   \* a mutant of SequenceReady: evaluate from the first window on
SequenceReady == processedWindowCount >= SequenceLength
AlwaysFree == TRUE   \* a mutant of NotEvaluating: no backpressure
NotEvaluating == flight = NoFlight
MayEvaluate(due) == NotEvaluating /\ SequenceReady /\ due

(* handleWindow(): the window is queued for the worker first, then an       *)
(* evaluation may start, its windows snapshotted before the await.          *)
EmitWindow(due) ==
  LET w == [trial |-> trial, id |-> nextWindowId]
      push == requests + 1
      evaluate == requests + 2
      named == Pushed(evaluatedWindowIds, w)
  IN
  /\ running /\ emitted < MaxWindows
  /\ emitted' = emitted + 1
  /\ nextWindowId' = nextWindowId + 1
  /\ evaluatedWindowIds' = named
  /\ IF MayEvaluate(due)
     THEN /\ flight' = [n |-> evaluate, named |-> named]
          /\ requests' = evaluate
          /\ pending' = pending \cup {Request(push, "PUSH_WINDOW"), Request(evaluate, "EVALUATE")}
          /\ toWorker' = toWorker \o <<Message(push, "PUSH_WINDOW", w),
                                       Message(evaluate, "EVALUATE", NoWindow)>>
     ELSE /\ requests' = push
          /\ pending' = pending \cup {Request(push, "PUSH_WINDOW")}
          /\ toWorker' = Append(toWorker, Message(push, "PUSH_WINDOW", w))
          /\ UNCHANGED flight
  /\ UNCHANGED <<running, trial, processedWindowCount, prediction, toMain, windows, computing>>

(* resetTrial() up to its await. Neither the evaluation in flight nor the   *)
(* acknowledgements still to come are forgotten.                            *)
ResetTrial ==
  /\ running /\ trial < MaxResets
  /\ trial' = trial + 1
  /\ nextWindowId' = 0
  /\ evaluatedWindowIds' = << >> /\ processedWindowCount' = 0
  /\ requests' = requests + 1
  /\ pending' = pending \cup {Request(requests + 1, "RESET")}
  /\ toWorker' = Append(toWorker, Message(requests + 1, "RESET", NoWindow))
  /\ UNCHANGED <<running, flight, prediction, emitted, toMain, windows, computing>>
-----------------------------------------------------------------------------
(* handleRequest() in the worker. RESET_OK and WINDOW_PROCESSED are posted  *)
(* at once; the tensor of an EVALUATE is taken before its await.            *)
WorkerHandles ==
  LET message == Head(toWorker)
      acknowledged == Append(toMain, [n |-> message.n, kind |-> message.kind, ok |-> TRUE,
                                      tensor |-> << >>])
  IN
  /\ toWorker # << >>
  /\ toWorker' = Tail(toWorker)
  /\ \/ /\ message.kind = "PUSH_WINDOW"
        /\ windows' = Pushed(windows, message.window)
        /\ toMain' = acknowledged
        /\ UNCHANGED computing
     \/ /\ message.kind = "RESET"
        /\ windows' = << >>
        /\ toMain' = acknowledged
        /\ UNCHANGED computing
     \/ /\ message.kind = "EVALUATE"
        /\ computing' = computing \cup {[n |-> message.n, tensor |-> Tensor(windows)]}
        /\ UNCHANGED <<windows, toMain>>
  /\ UNCHANGED <<runtime, client>>

(* The gates settle, with a result or an error.                             *)
WorkerAnswers(c, ok) ==
  /\ c \in computing
  /\ computing' = computing \ {c}
  /\ toMain' = Append(toMain, [n |-> c.n, kind |-> "EVALUATE", ok |-> ok, tensor |-> c.tensor])
  /\ UNCHANGED <<runtime, client, toWorker, windows>>
-----------------------------------------------------------------------------
IsPending(n) == \E r \in pending : r.n = n
Settled(n) == {r \in pending : r.n # n}

(* The windows a prediction is recorded with; a mutant reads them after the *)
(* await.                                                                   *)
NamedAfterAwait(f) == evaluatedWindowIds
Named(f) == f.named

(* handleWorkerResponse(): an answer nobody waits for is dropped; otherwise *)
(* the awaiting code goes on. A failed evaluation is only logged.           *)
MainReceives ==
  LET answer == Head(toMain) IN
  /\ toMain # << >>
  /\ toMain' = Tail(toMain)
  /\ pending' = Settled(answer.n)
  /\ processedWindowCount' =
       IF IsPending(answer.n) /\ answer.kind = "PUSH_WINDOW"
       THEN processedWindowCount + 1 ELSE processedWindowCount
  /\ IF IsPending(answer.n) /\ answer.kind = "EVALUATE"
     THEN /\ flight' = NoFlight
          /\ prediction' = IF answer.ok THEN [named |-> Named(flight), tensor |-> answer.tensor]
                           ELSE prediction
     ELSE UNCHANGED <<flight, prediction>>
  /\ UNCHANGED <<running, trial, nextWindowId, evaluatedWindowIds, emitted, requests,
                 toWorker, windows, computing>>

(* A mutant of TimeOut: the evaluation is rejected, `evaluating` stays set. *)
TimeOutStuck(r) ==
  /\ r \in pending
  /\ pending' = pending \ {r}
  /\ UNCHANGED <<runtime, requests, worker>>

(* The timer of a request fires: its promise rejects; the worker may still  *)
(* handle the message and answer.                                           *)
TimeOut(r) ==
  /\ r \in pending
  /\ pending' = pending \ {r}
  /\ flight' = IF r.kind = "EVALUATE" THEN NoFlight ELSE flight
  /\ UNCHANGED <<running, trial, nextWindowId, evaluatedWindowIds, processedWindowCount,
                 prediction, emitted, requests, worker>>

(* stop(): terminate() rejects every pending request and ends the worker.   *)
Stop ==
  /\ running
  /\ running' = FALSE
  /\ pending' = {} /\ flight' = NoFlight
  /\ toWorker' = << >> /\ toMain' = << >> /\ windows' = << >> /\ computing' = {}
  /\ processedWindowCount' = 0 /\ nextWindowId' = 0
  /\ UNCHANGED <<trial, evaluatedWindowIds, prediction, emitted, requests>>

Next ==
  \/ \E due \in BOOLEAN : EmitWindow(due)
  \/ ResetTrial
  \/ WorkerHandles
  \/ \E c \in computing, ok \in BOOLEAN : WorkerAnswers(c, ok)
  \/ MainReceives
  \/ \E r \in pending : TimeOut(r)
  \/ Stop

Spec == Init /\ [][Next]_vars
(* The timer setTimeout registers with every request fires unless cleared.  *)
FairSpec ==
  Spec /\ \A n \in 1..MaxRequests, kind \in Kinds : WF_vars(TimeOut(Request(n, kind)))
-----------------------------------------------------------------------------
(* A prediction names exactly the windows its tensor was computed from, the *)
(* last rows of it, however windows, resets, timeouts and answers           *)
(* interleaved between the snapshot on one thread and the tensor on the     *)
(* other (evaluateAndAct, F-18).                                            *)
PredictionNamesItsWindows ==
  prediction.tensor = Padding(prediction.named) \o prediction.named

(* `evaluating` is set exactly while one EVALUATE request is outstanding:   *)
(* no second evaluation overlaps it and no rejection leaves the runtime     *)
(* unable to evaluate again (maybeEvaluate, the finally of evaluateAndAct). *)
SingleFlight ==
  {r \in pending : r.kind = "EVALUATE"} =
    IF flight = NoFlight THEN {} ELSE {Request(flight.n, "EVALUATE")}

(* Until the first reset no evaluation is fed an incomplete sequence, even  *)
(* when acknowledgements are late or given up on (maybeEvaluate).           *)
FirstTrialUnpadded ==
  \A c \in computing : trial = 0 => \A k \in DOMAIN c.tensor : c.tensor[k] # NoWindow

(* Every evaluation ends, answered, failed or timed out.                    *)
EvaluationSettles == (flight # NoFlight) ~> (flight = NoFlight)
=============================================================================
