----------------------- MODULE EvaluationPipelineProofs -----------------------
(***************************************************************************)
(* What a recorded prediction names, for every sequence length and any     *)
(* number of windows, resets, timeouts and answers in any order.           *)
(*                                                                         *)
(* The two threads keep a buffer each. The argument follows the worker's   *)
(* buffer through the messages that are still on their way to it: handling *)
(* all of them would make it the runtime's, and handling those before an   *)
(* EVALUATE makes it the snapshot the runtime took when it sent that one.  *)
(***************************************************************************)
EXTENDS EvaluationPipeline, FiniteSetTheorems, SequenceTheorems, TLAPS

RealWindows == Windows \ {NoWindow}
Buffers == {s \in Seq(RealWindows) : Len(s) <= SequenceLength}
Flights == [n: Nat, named: Buffers]
ToWorker == [n: Nat, kind: Kinds, window: Windows]
ToMain == [n: Nat, kind: Kinds, ok: BOOLEAN, tensor: Seq(Windows)]
Computations == [n: Nat, tensor: Seq(Windows)]

HasItsWindow(message) == message.kind = "PUSH_WINDOW" => message.window # NoWindow

(* The types, as strong as an induction needs them.                         *)
Typed ==
  /\ running \in BOOLEAN /\ trial \in 0..MaxResets
  /\ emitted \in 0..MaxWindows /\ nextWindowId \in 0..emitted
  /\ requests \in 0..(2 * emitted + trial)
  /\ evaluatedWindowIds \in Buffers /\ windows \in Buffers
  /\ flight \in Flights \cup {NoFlight}
  /\ prediction \in [named: Buffers, tensor: Seq(Windows)]
  /\ pending \in SUBSET [n: Nat, kind: Kinds] /\ IsFiniteSet(pending)
  /\ toWorker \in Seq(ToWorker) /\ toMain \in Seq(ToMain)
  /\ computing \in SUBSET Computations
  /\ \A k \in 1..Len(toWorker) : HasItsWindow(toWorker[k])
  /\ \A c \in computing : Len(c.tensor) = SequenceLength

(* No message carries a number that has not been given out.                 *)
Numbered ==
  /\ flight # NoFlight => flight.n \in 1..requests
  /\ \A r \in pending : r.n \in 1..requests
  /\ \A k \in 1..Len(toWorker) : toWorker[k].n \in 1..requests
  /\ \A k \in 1..Len(toMain) : toMain[k].n \in 1..requests
  /\ \A c \in computing : c.n \in 1..requests

(* A request and every message with its number are of one kind.             *)
OfOneKind ==
  /\ \A r, q \in pending : r.n = q.n => r = q
  /\ \A r \in pending, k \in 1..Len(toWorker) :
       toWorker[k].n = r.n => toWorker[k].kind = r.kind
  /\ \A r \in pending, k \in 1..Len(toMain) : toMain[k].n = r.n => toMain[k].kind = r.kind
  /\ \A r \in pending, c \in computing : c.n = r.n => r.kind = "EVALUATE"

(* An acknowledgement is counted once, for a window that was emitted.       *)
Pushes == {r \in pending : r.kind = "PUSH_WINDOW"}
AcksCounted == processedWindowCount \in Nat /\ processedWindowCount + Cardinality(Pushes) <= emitted

(* What handling a message makes of a buffer.                               *)
Handled(buffer, message) ==
  IF message.kind = "PUSH_WINDOW" THEN Pushed(buffer, message.window)
  ELSE IF message.kind = "RESET" THEN << >> ELSE buffer

(* ahead[k] is a buffer once the first k messages of a channel are handled. *)
Follows(buffer, channel, ahead) ==
  /\ ahead[0] = buffer
  /\ \A k \in 1..Len(channel) : ahead[k] = Handled(ahead[k - 1], channel[k])
Catches(ahead) == running => ahead[Len(toWorker)] = evaluatedWindowIds
Snapshots(ahead) ==
  \A k \in 1..Len(toWorker) :
    flight # NoFlight /\ toWorker[k].n = flight.n => flight.named = ahead[k]
FullAhead(ahead) ==
  running /\ trial = 0 =>
    \A k \in 1..Len(toWorker) :
      toWorker[k].kind = "EVALUATE" => Len(ahead[k]) = SequenceLength
InStep ==
  \E ahead \in [0..Len(toWorker) -> Buffers] :
    Follows(windows, toWorker, ahead) /\ Catches(ahead) /\ Snapshots(ahead) /\ FullAhead(ahead)

(* What the worker has taken for the evaluation in flight, and answered.    *)
TensorOfFlight ==
  /\ \A c \in computing :
       flight # NoFlight /\ c.n = flight.n => c.tensor = Tensor(flight.named)
  /\ \A k \in 1..Len(toMain) :
       flight # NoFlight /\ toMain[k].n = flight.n => toMain[k].tensor = Tensor(flight.named)

(* In the first trial the sequence is as long as there were windows.        *)
FirstSequence ==
  running /\ trial = 0 =>
    /\ nextWindowId = emitted
    /\ Len(evaluatedWindowIds) < SequenceLength => Len(evaluatedWindowIds) = emitted
OnlyWhileRunning == ~running => computing = {} /\ toWorker = << >>

PipelineInv ==
  /\ Typed /\ Numbered /\ OfOneKind /\ AcksCounted /\ InStep /\ TensorOfFlight
  /\ FirstSequence /\ OnlyWhileRunning
  /\ PredictionNamesItsWindows /\ SingleFlight /\ FirstTrialUnpadded
-----------------------------------------------------------------------------
(* A pushed window makes a buffer longer by one, up to the sequence length. *)
LEMMA PushedBuffer ==
  ASSUME NEW s \in Buffers, NEW w \in RealWindows
  PROVE  /\ Pushed(s, w) \in Buffers
         /\ Len(Pushed(s, w)) = IF Len(s) < SequenceLength THEN Len(s) + 1 ELSE SequenceLength
<1> DEFINE longer == Append(s, w)
<1>1. s \in Seq(RealWindows) /\ Len(s) \in Nat /\ Len(s) <= SequenceLength
  BY DEF Buffers
<1>2. longer \in Seq(RealWindows) /\ Len(longer) = Len(s) + 1 /\ longer # << >>
  BY <1>1, AppendProperties
<1>3. Tail(longer) \in Seq(RealWindows) /\ Len(Tail(longer)) = Len(s)
  BY <1>1, <1>2, HeadTailProperties
<1> QED
  BY <1>1, <1>2, <1>3, PipelineAssumption DEF Pushed, Buffers

(* The tensor of a buffer has a row for every place in the sequence; the    *)
(* tensor of a full buffer is the buffer.                                   *)
LEMMA TensorOfBuffer ==
  ASSUME NEW s \in Buffers
  PROVE  /\ Tensor(s) \in Seq(Windows) /\ Len(Tensor(s)) = SequenceLength
         /\ Len(s) = SequenceLength =>
              Tensor(s) = s /\ \A k \in DOMAIN Tensor(s) : Tensor(s)[k] # NoWindow
<1>1. s \in Seq(RealWindows) /\ s \in Seq(Windows) /\ Len(s) \in Nat /\ Len(s) <= SequenceLength
      /\ \A k \in DOMAIN s : s[k] # NoWindow
  BY SeqMonotonic, LenProperties DEF Buffers, RealWindows
<1>2. NoWindow \in Windows
  BY PipelineAssumption DEF NoWindow, Windows
<1>3. Padding(s) \in Seq(Windows) /\ Len(Padding(s)) = SequenceLength - Len(s)
  BY <1>1, <1>2, PipelineAssumption DEF Padding
<1>4. Tensor(s) \in Seq(Windows) /\ Len(Tensor(s)) = SequenceLength
  BY <1>1, <1>3, ConcatProperties, PipelineAssumption DEF Tensor
<1>5. ASSUME Len(s) = SequenceLength PROVE Tensor(s) = s
  <2>1. Padding(s) = << >>
    BY <1>3, <1>5, EmptySeq, PipelineAssumption
  <2> QED
    BY <2>1, <1>1, ConcatEmptySeq DEF Tensor
<1> QED
  BY <1>1, <1>4, <1>5

(* What handling a message makes of a buffer is a buffer.                   *)
LEMMA HandledBuffer ==
  ASSUME NEW s \in Buffers, NEW message \in ToWorker, HasItsWindow(message)
  PROVE  Handled(s, message) \in Buffers
<1>1. << >> \in Buffers
  BY EmptySeq, PipelineAssumption DEF Buffers
<1>2. message.kind = "PUSH_WINDOW" => message.window \in RealWindows
  BY DEF ToWorker, HasItsWindow, RealWindows
<1> QED
  BY <1>1, <1>2, PushedBuffer DEF Handled

(* A message that is posted is handled after all the others.                *)
LEMMA FollowsPosted ==
  ASSUME NEW buffer, NEW channel \in Seq(ToWorker), NEW message \in ToWorker,
         HasItsWindow(message),
         NEW ahead \in [0..Len(channel) -> Buffers], Follows(buffer, channel, ahead)
  PROVE  \E more \in [0..(Len(channel) + 1) -> Buffers] :
           /\ Follows(buffer, Append(channel, message), more)
           /\ \A k \in 0..Len(channel) : more[k] = ahead[k]
           /\ more[Len(channel) + 1] = Handled(ahead[Len(channel)], message)
<1> DEFINE more == [k \in 0..(Len(channel) + 1) |->
                      IF k <= Len(channel) THEN ahead[k]
                      ELSE Handled(ahead[Len(channel)], message)]
           longer == Append(channel, message)
<1>1. Len(channel) \in Nat /\ ahead[Len(channel)] \in Buffers
  BY LenProperties
<1>2. Handled(ahead[Len(channel)], message) \in Buffers
  BY <1>1, HandledBuffer
<1>3. more \in [0..(Len(channel) + 1) -> Buffers]
  BY <1>1, <1>2
<1>4. /\ \A k \in 0..Len(channel) : more[k] = ahead[k]
      /\ more[Len(channel) + 1] = Handled(ahead[Len(channel)], message)
  BY <1>1
<1>5. /\ Len(longer) = Len(channel) + 1
      /\ \A k \in 1..Len(channel) : longer[k] = channel[k]
      /\ longer[Len(channel) + 1] = message
  BY AppendProperties
<1> HIDE DEF more, longer
<1>6. Follows(buffer, longer, more)
  <2>1. more[0] = buffer
    BY <1>1, <1>4 DEF Follows
  <2>2. ASSUME NEW k \in 1..Len(longer) PROVE more[k] = Handled(more[k - 1], longer[k])
    <3>1. CASE k <= Len(channel)
      BY <3>1, <1>1, <1>4, <1>5 DEF Follows
    <3>2. CASE k = Len(channel) + 1
      BY <3>2, <1>1, <1>4, <1>5
    <3> QED
      BY <3>1, <3>2, <1>1, <1>5
  <2> QED
    BY <2>1, <2>2 DEF Follows
<1> QED
  BY <1>3, <1>4, <1>6 DEF longer

(* Once the first message is handled the others follow on what it made.     *)
LEMMA FollowsHandled ==
  ASSUME NEW buffer, NEW channel \in Seq(ToWorker), channel # << >>,
         NEW ahead \in [0..Len(channel) -> Buffers], Follows(buffer, channel, ahead)
  PROVE  \E rest \in [0..Len(Tail(channel)) -> Buffers] :
           /\ Follows(Handled(buffer, Head(channel)), Tail(channel), rest)
           /\ \A k \in 0..Len(Tail(channel)) : rest[k] = ahead[k + 1]
<1> DEFINE rest == [k \in 0..Len(Tail(channel)) |-> ahead[k + 1]]
<1>1. /\ Len(channel) \in Nat \ {0} /\ Len(Tail(channel)) = Len(channel) - 1
      /\ \A k \in 1..Len(Tail(channel)) : Tail(channel)[k] = channel[k + 1]
      /\ Head(channel) = channel[1]
  BY EmptySeq, HeadTailProperties
<1>2. rest \in [0..Len(Tail(channel)) -> Buffers]
  BY <1>1
<1>3. \A k \in 0..Len(Tail(channel)) : rest[k] = ahead[k + 1]
  OBVIOUS
<1> HIDE DEF rest
<1>4. rest[0] = Handled(buffer, Head(channel))
  BY <1>1, <1>3 DEF Follows
<1>5. ASSUME NEW k \in 1..Len(Tail(channel)) PROVE rest[k] = Handled(rest[k - 1], Tail(channel)[k])
  BY <1>1, <1>3 DEF Follows
<1> QED
  BY <1>2, <1>3, <1>4, <1>5 DEF Follows
-----------------------------------------------------------------------------
(* The acknowledgements to come are finitely many.                          *)
LEMMA PushesFinite ==
  ASSUME Typed
  PROVE  IsFiniteSet(Pushes) /\ Cardinality(Pushes) \in Nat
<1>1. Pushes \in SUBSET pending /\ IsFiniteSet(pending)
  BY DEF Pushes, Typed
<1> QED
  BY <1>1, FS_Subset, FS_CardinalityType

(* An empty buffer, and what it is worth, are typed.                        *)
LEMMA EmptyBuffer == << >> \in Buffers /\ Len(<< >>) = 0 /\ Tensor(<< >>) \in Seq(Windows)
<1>1. << >> \in Buffers /\ Len(<< >>) = 0
  BY EmptySeq, PipelineAssumption DEF Buffers
<1> QED
  BY <1>1, TensorOfBuffer

(* NoFlight is no evaluation.                                               *)
LEMMA NoFlightIsNone == NoFlight \notin Flights
<1>1. Seq(RealWindows) \subseteq Seq([trial: Nat, id: Nat])
  <2>1. RealWindows \subseteq [trial: Nat, id: Nat]
    BY PipelineAssumption DEF RealWindows, Windows
  <2> QED
    BY <2>1, SeqMonotonic
<1>2. Flights \subseteq [n: Nat, named: Seq([trial: Nat, id: Nat])]
  BY <1>1 DEF Flights, Buffers
<1> QED
  BY <1>2, PipelineAssumption

(* The initial state satisfies the inductive invariant.                     *)
LEMMA InitPipelineInv == Init => PipelineInv
<1> SUFFICES ASSUME Init PROVE PipelineInv
  OBVIOUS
<1> USE DEF Init
<1>1. Typed
  <2>1. toWorker \in Seq(ToWorker) /\ toMain \in Seq(ToMain) /\ Len(toWorker) = 0
    BY EmptySeq
  <2> QED
    BY <2>1, EmptyBuffer, FS_EmptySet, PipelineAssumption DEF Typed
<1>2. AcksCounted
  <2>1. Pushes = {}
    BY DEF Pushes
  <2> QED
    BY <2>1, FS_EmptySet DEF AcksCounted
<1>3. InStep
  <2> DEFINE ahead == [k \in 0..Len(toWorker) |-> << >>]
  <2>1. ahead \in [0..Len(toWorker) -> Buffers] /\ Len(toWorker) = 0
    BY EmptyBuffer
  <2>2. Follows(windows, toWorker, ahead) /\ Catches(ahead) /\ Snapshots(ahead) /\ FullAhead(ahead)
    BY <2>1 DEF Follows, Catches, Snapshots, FullAhead
  <2> QED
    BY <2>1, <2>2 DEF InStep
<1>4. Numbered /\ OfOneKind /\ TensorOfFlight /\ OnlyWhileRunning /\ FirstTrialUnpadded
  BY EmptySeq DEF Numbered, OfOneKind, TensorOfFlight, OnlyWhileRunning, FirstTrialUnpadded
<1>5. FirstSequence /\ SingleFlight /\ PredictionNamesItsWindows
  BY EmptyBuffer DEF FirstSequence, SingleFlight, PredictionNamesItsWindows, Tensor
<1> QED
  BY <1>1, <1>2, <1>3, <1>4, <1>5 DEF PipelineInv

(* Two messages posted together are posted one after the other.             *)
LEMMA PostedInTurn ==
  ASSUME NEW q \in Seq(ToWorker), NEW a \in ToWorker, NEW b \in ToWorker
  PROVE  q \o <<a, b>> = Append(Append(q, a), b)
  OBVIOUS

(* A window that is emitted is pushed, and an evaluation may start: the     *)
(* snapshot it takes is the buffer the worker will have by then.            *)
LEMMA EmitWindowKeepsInv ==
  ASSUME PipelineInv, NEW due \in BOOLEAN, EmitWindow(due)
  PROVE  PipelineInv'
<1> DEFINE w == [trial |-> trial, id |-> nextWindowId]
           push == requests + 1
           evaluate == requests + 2
           named == Pushed(evaluatedWindowIds, w)
           evaluates == MayEvaluate(due)
           pushed == Message(push, "PUSH_WINDOW", w)
           asked == Message(evaluate, "EVALUATE", NoWindow)
           l == Len(toWorker)
<1>inv. /\ Typed /\ Numbered /\ OfOneKind /\ AcksCounted /\ InStep /\ TensorOfFlight
        /\ FirstSequence /\ OnlyWhileRunning
        /\ PredictionNamesItsWindows /\ SingleFlight /\ FirstTrialUnpadded
  BY DEF PipelineInv
<1>types. /\ requests \in Nat /\ trial \in 0..MaxResets /\ emitted \in 0..MaxWindows
          /\ nextWindowId \in 0..emitted /\ requests <= 2 * emitted + trial
          /\ evaluatedWindowIds \in Buffers /\ l \in Nat /\ toWorker \in Seq(ToWorker)
  BY <1>inv, LenProperties, PipelineAssumption DEF Typed
<1>window. w \in RealWindows
  BY <1>types, PipelineAssumption DEF EmitWindow, RealWindows, Windows, NoWindow
<1>named. /\ named \in Buffers
          /\ Len(named) = IF Len(evaluatedWindowIds) < SequenceLength
                          THEN Len(evaluatedWindowIds) + 1 ELSE SequenceLength
  BY <1>types, <1>window, PushedBuffer
<1>messages. /\ pushed \in ToWorker /\ asked \in ToWorker
             /\ HasItsWindow(pushed) /\ HasItsWindow(asked)
             /\ pushed.n = push /\ pushed.kind = "PUSH_WINDOW" /\ pushed.window = w
             /\ asked.n = evaluate /\ asked.kind = "EVALUATE"
  BY <1>types, <1>window, PipelineAssumption
  DEF Message, ToWorker, Kinds, HasItsWindow, RealWindows, NoWindow, Windows
<1>same. /\ running /\ running' /\ trial' = trial /\ emitted' = emitted + 1
         /\ emitted + 1 <= MaxWindows /\ nextWindowId' = nextWindowId + 1
         /\ evaluatedWindowIds' = named
         /\ UNCHANGED <<running, processedWindowCount, prediction, toMain, windows, computing>>
  BY <1>types, PipelineAssumption DEF EmitWindow
<1>sent. /\ requests' = IF evaluates THEN evaluate ELSE push
         /\ pending' = (pending \cup {Request(push, "PUSH_WINDOW")})
                         \cup (IF evaluates THEN {Request(evaluate, "EVALUATE")} ELSE {})
         /\ flight' = IF evaluates THEN [n |-> evaluate, named |-> named] ELSE flight
         /\ toWorker' = IF evaluates THEN Append(Append(toWorker, pushed), asked)
                        ELSE Append(toWorker, pushed)
  <2>1. evaluates => toWorker' = Append(Append(toWorker, pushed), asked)
    BY <1>types, <1>messages, PostedInTurn DEF EmitWindow
  <2> QED
    BY <2>1 DEF EmitWindow
<1>free. evaluates => flight = NoFlight /\ processedWindowCount >= SequenceLength
  BY DEF MayEvaluate, NotEvaluating, SequenceReady
<1>new. \A r \in pending : r.n # push /\ r.n # evaluate
  BY <1>inv, <1>types DEF Numbered
<1>channel. /\ toWorker' \in Seq(ToWorker) /\ Len(toWorker') = IF evaluates THEN l + 2 ELSE l + 1
            /\ \A k \in 1..l : toWorker'[k] = toWorker[k]
            /\ toWorker'[l + 1] = pushed
            /\ evaluates => toWorker'[l + 2] = asked
  BY <1>types, <1>messages, <1>sent, AppendProperties
<1>places. /\ l = Len(toWorker)
           /\ \A k \in 1..Len(toWorker') :
                k \in 1..l \/ k = l + 1 \/ (evaluates /\ k = l + 2)
  BY <1>types, <1>channel
<1>flight. flight' \in Flights \cup {NoFlight} /\ (evaluates => flight' # NoFlight)
  <2>1. [n |-> evaluate, named |-> named] \in Flights
    BY <1>types, <1>named DEF Flights
  <2>2. flight \in Flights \cup {NoFlight}
    BY <1>inv DEF Typed
  <2> QED
    BY <2>1, <2>2, <1>sent, NoFlightIsNone
<1> HIDE DEF evaluates, pushed, asked, named, l
<1>1. Typed'
  <2>1. /\ running' \in BOOLEAN /\ trial' \in 0..MaxResets
        /\ emitted' \in 0..MaxWindows /\ nextWindowId' \in 0..emitted'
        /\ requests' \in 0..(2 * emitted' + trial')
    BY <1>types, <1>same, <1>sent, PipelineAssumption
  <2>2. pending' \in SUBSET [n: Nat, kind: Kinds] /\ IsFiniteSet(pending')
    <3>1. pending \in SUBSET [n: Nat, kind: Kinds] /\ IsFiniteSet(pending)
      BY <1>inv DEF Typed
    <3>2. /\ Request(push, "PUSH_WINDOW") \in [n: Nat, kind: Kinds]
          /\ Request(evaluate, "EVALUATE") \in [n: Nat, kind: Kinds]
      BY <1>types DEF Request, Kinds
    <3>3. IsFiniteSet(pending \cup {Request(push, "PUSH_WINDOW")})
      BY <3>1, FS_AddElement
    <3>4. IsFiniteSet(pending')
      BY <1>sent, <3>3, FS_AddElement
    <3> QED
      BY <1>sent, <3>1, <3>2, <3>4
  <2>3. \A k \in 1..Len(toWorker') : HasItsWindow(toWorker'[k])
    BY <1>inv, <1>channel, <1>messages, <1>places DEF Typed
  <2> QED
    BY <2>1, <2>2, <2>3, <1>inv, <1>same, <1>named, <1>channel, <1>flight
    DEF Typed, HasItsWindow
<1>2. Numbered'
  <2>1. /\ flight' # NoFlight => flight'.n \in 1..requests'
        /\ \A r \in pending' : r.n \in 1..requests'
    BY <1>inv, <1>types, <1>sent DEF Numbered, Request
  <2>2. \A k \in 1..Len(toWorker') : toWorker'[k].n \in 1..requests'
    <3> SUFFICES ASSUME NEW k \in 1..Len(toWorker') PROVE toWorker'[k].n \in 1..requests'
      OBVIOUS
    <3>1. CASE k \in 1..l
      <4>1. toWorker'[k].n \in 1..requests
        BY <3>1, <1>inv, <1>channel, <1>places DEF Numbered
      <4> QED
        BY <4>1, <1>types, <1>sent
    <3>2. CASE k = l + 1
      BY <3>2, <1>types, <1>sent, <1>channel, <1>messages
    <3>3. CASE evaluates /\ k = l + 2
      BY <3>3, <1>types, <1>sent, <1>channel, <1>messages
    <3> QED
      BY <3>1, <3>2, <3>3, <1>places
  <2>3. /\ \A k \in 1..Len(toMain) : toMain[k].n \in 1..requests'
        /\ \A c \in computing : c.n \in 1..requests'
    <3>1. \A n \in 1..requests : n \in 1..requests'
      BY <1>types, <1>sent
    <3>2. /\ \A k \in 1..Len(toMain) : toMain[k].n \in 1..requests
          /\ \A c \in computing : c.n \in 1..requests
      BY <1>inv DEF Numbered
    <3> QED
      BY <3>1, <3>2
  <2> QED
    BY <2>1, <2>2, <2>3, <1>same DEF Numbered
<1>3. OfOneKind'
  <2>1. \A r, q \in pending' : r.n = q.n => r = q
    BY <1>inv, <1>types, <1>sent, <1>new DEF OfOneKind, Request
  <2>2. \A r \in pending', k \in 1..Len(toWorker') :
          toWorker'[k].n = r.n => toWorker'[k].kind = r.kind
    <3> SUFFICES ASSUME NEW r \in pending', NEW k \in 1..Len(toWorker'), toWorker'[k].n = r.n
                 PROVE  toWorker'[k].kind = r.kind
      OBVIOUS
    <3>1. CASE k \in 1..l
      <4>1. toWorker'[k].n \in 1..requests
        BY <3>1, <1>channel, <1>inv DEF Numbered, l
      <4>2. r \in pending
        BY <4>1, <1>types, <1>sent DEF Request
      <4> QED
        BY <3>1, <4>2, <1>channel, <1>inv DEF OfOneKind, l
    <3>2. CASE k = l + 1
      BY <3>2, <1>channel, <1>messages, <1>new, <1>sent, <1>types DEF Request
    <3>3. CASE evaluates /\ k = l + 2
      BY <3>3, <1>channel, <1>messages, <1>new, <1>sent, <1>types DEF Request
    <3> QED
      BY <3>1, <3>2, <3>3, <1>channel, <1>types
  <2>3. \A r \in pending', k \in 1..Len(toMain) : toMain[k].n = r.n => toMain[k].kind = r.kind
    <3> SUFFICES ASSUME NEW r \in pending', NEW k \in 1..Len(toMain), toMain[k].n = r.n
                 PROVE  toMain[k].kind = r.kind
      OBVIOUS
    <3>1. toMain[k].n \in 1..requests
      BY <1>inv DEF Numbered
    <3>2. r \in pending
      BY <3>1, <1>types, <1>sent DEF Request
    <3> QED
      BY <3>2, <1>inv DEF OfOneKind
  <2>4. \A r \in pending', c \in computing : c.n = r.n => r.kind = "EVALUATE"
    BY <1>inv, <1>types, <1>sent DEF OfOneKind, Numbered, Request
  <2> QED
    BY <2>1, <2>2, <2>3, <2>4, <1>same DEF OfOneKind
<1>4. AcksCounted'
  <2>1. Pushes' = Pushes \cup {Request(push, "PUSH_WINDOW")}
    BY <1>sent DEF Pushes, Request
  <2>2. Request(push, "PUSH_WINDOW") \notin Pushes
    BY <1>new DEF Pushes, Request
  <2>3. Cardinality(Pushes') = Cardinality(Pushes) + 1 /\ Cardinality(Pushes) \in Nat
    BY <2>1, <2>2, <1>inv, PushesFinite, FS_AddElement
  <2> QED
    BY <2>3, <1>inv, <1>same, <1>types DEF AcksCounted
<1>5. InStep'
  <2>1. PICK ahead \in [0..l -> Buffers] :
          Follows(windows, toWorker, ahead) /\ Catches(ahead) /\ Snapshots(ahead) /\ FullAhead(ahead)
    BY <1>inv DEF InStep, l
  <2>2. ahead[l] = evaluatedWindowIds
    BY <2>1, <1>same DEF Catches, l
  <2>3. PICK more \in [0..(l + 1) -> Buffers] :
          /\ Follows(windows, Append(toWorker, pushed), more)
          /\ \A k \in 0..l : more[k] = ahead[k]
          /\ more[l + 1] = Handled(ahead[l], pushed)
    BY <2>1, <1>types, <1>messages, FollowsPosted DEF l
  <2>4. more[l + 1] = named
    BY <2>2, <2>3, <1>messages DEF Handled, named
  <2>5. \A k \in 1..l :
          /\ flight # NoFlight /\ toWorker[k].n = flight.n => flight.named = more[k]
          /\ trial = 0 /\ toWorker[k].kind = "EVALUATE" => Len(more[k]) = SequenceLength
    BY <2>1, <2>3, <1>types, <1>same DEF Snapshots, FullAhead, l
  <2>6. CASE ~evaluates
    <3>1. Follows(windows', toWorker', more) /\ more \in [0..Len(toWorker') -> Buffers]
      BY <2>3, <2>6, <1>sent, <1>same, <1>channel
    <3>2. Catches(more)'
      BY <2>4, <2>6, <1>channel, <1>same DEF Catches
    <3>3. Snapshots(more)'
      <4>1. flight # NoFlight => flight.n # push
        BY <1>inv, <1>types DEF Numbered
      <4> SUFFICES ASSUME NEW k \in 1..(l + 1), flight # NoFlight, toWorker'[k].n = flight.n
                   PROVE  flight.named = more[k]
        BY <2>6, <1>channel, <1>sent DEF Snapshots
      <4>2. k \in 1..l /\ toWorker'[k] = toWorker[k]
        BY <4>1, <1>channel, <1>messages, <1>types
      <4> QED
        BY <4>2, <2>5
    <3>4. FullAhead(more)'
      <4> SUFFICES ASSUME trial = 0, NEW k \in 1..(l + 1), toWorker'[k].kind = "EVALUATE"
                   PROVE  Len(more[k]) = SequenceLength
        BY <2>6, <1>channel, <1>same DEF FullAhead
      <4>1. k \in 1..l /\ toWorker'[k] = toWorker[k]
        BY <1>channel, <1>messages, <1>types
      <4> QED
        BY <4>1, <2>5
    <3> QED
      BY <3>1, <3>2, <3>3, <3>4 DEF InStep
  <2>7. CASE evaluates
    <3>1. Append(toWorker, pushed) \in Seq(ToWorker) /\ Len(Append(toWorker, pushed)) = l + 1
      BY <1>types, <1>messages, AppendProperties DEF l
    <3>2. PICK most \in [0..(l + 2) -> Buffers] :
            /\ Follows(windows, Append(Append(toWorker, pushed), asked), most)
            /\ \A k \in 0..(l + 1) : most[k] = more[k]
            /\ most[l + 2] = Handled(more[l + 1], asked)
      <4> DEFINE q == Append(toWorker, pushed)
      <4>1. l + 1 + 1 = l + 2 /\ Len(q) = l + 1 /\ q \in Seq(ToWorker)
        BY <1>types, <3>1
      <4> HIDE DEF q
      <4>2. more \in [0..Len(q) -> Buffers] /\ Follows(windows, q, more)
        BY <4>1, <2>3 DEF q
      <4>3. \E most \in [0..(Len(q) + 1) -> Buffers] :
              /\ Follows(windows, Append(q, asked), most)
              /\ \A k \in 0..Len(q) : most[k] = more[k]
              /\ most[Len(q) + 1] = Handled(more[Len(q)], asked)
        <5>1. q \in Seq(ToWorker) /\ asked \in ToWorker /\ HasItsWindow(asked)
          BY <4>1, <1>messages
        <5> QED
          BY <5>1, <4>2, FollowsPosted
      <4> QED
        BY <4>1, <4>3 DEF q
    <3>3. most[l + 2] = named /\ \A k \in 1..(l + 1) : most[k] = more[k]
      BY <3>2, <2>4, <1>messages, <1>types DEF Handled
    <3>4. Follows(windows', toWorker', most) /\ most \in [0..Len(toWorker') -> Buffers]
      BY <3>2, <2>7, <1>sent, <1>same, <1>channel
    <3>5. Catches(most)'
      BY <3>3, <2>7, <1>channel, <1>same DEF Catches
    <3>6. Snapshots(most)'
      <4>1. flight'.n = evaluate /\ flight'.named = named
        BY <1>sent, <2>7
      <4>2. \A k \in 1..(l + 1) : toWorker'[k].n # evaluate
        <5>1. \A k \in 1..l : toWorker'[k].n \in 1..requests
          BY <1>inv, <1>channel, <1>places DEF Numbered
        <5>2. toWorker'[l + 1].n = push /\ push # evaluate /\ evaluate \notin 1..requests
          BY <1>types, <1>channel, <1>messages
        <5>3. \A k \in 1..(l + 1) : k \in 1..l \/ k = l + 1
          BY <1>types
        <5> QED
          BY <5>1, <5>2, <5>3
      <4> QED
        BY <4>1, <4>2, <3>3, <2>7, <1>channel, <1>types DEF Snapshots
    <3>7. FullAhead(most)'
      <4> SUFFICES ASSUME trial = 0, NEW k \in 1..(l + 2), toWorker'[k].kind = "EVALUATE"
                   PROVE  Len(most[k]) = SequenceLength
        BY <2>7, <1>channel, <1>same DEF FullAhead
      <4>1. CASE k \in 1..l
          <5>1. toWorker'[k] = toWorker[k] /\ most[k] = more[k]
            BY <4>1, <3>3, <1>channel, <1>types
          <5> QED
            BY <5>1, <4>1, <2>5
      <4>2. CASE k = l + 1
        BY <4>2, <1>channel, <1>messages
      <4>3. CASE k = l + 2
        <5>1. emitted >= SequenceLength
          BY <1>inv, <1>free, <2>7, PushesFinite, <1>types, PipelineAssumption DEF AcksCounted
        <5>2. Len(evaluatedWindowIds) \in Nat /\ Len(evaluatedWindowIds) <= SequenceLength
          BY <1>types, LenProperties DEF Buffers
        <5>3. ~(Len(evaluatedWindowIds) < SequenceLength)
          BY <5>1, <5>2, <1>inv, <1>same, <1>types, PipelineAssumption DEF FirstSequence
        <5> QED
          BY <4>3, <5>3, <3>3, <1>named
      <4> QED
        BY <4>1, <4>2, <4>3, <1>types
    <3> QED
      BY <3>4, <3>5, <3>6, <3>7 DEF InStep
  <2> QED
    BY <2>6, <2>7
<1>6. TensorOfFlight'
  <2>1. CASE ~evaluates
    BY <2>1, <1>inv, <1>sent, <1>same DEF TensorOfFlight, Tensor, Padding
  <2>2. CASE evaluates
    <3>1. flight'.n = evaluate
      BY <1>sent, <2>2
    <3>2. /\ \A c \in computing : c.n # evaluate
          /\ \A k \in 1..Len(toMain) : toMain[k].n # evaluate
      BY <1>inv, <1>types DEF Numbered
    <3> QED
      BY <3>1, <3>2, <1>same DEF TensorOfFlight
  <2> QED
    BY <2>1, <2>2
<1>7. FirstSequence'
  <2>1. Len(evaluatedWindowIds) \in Nat /\ Len(evaluatedWindowIds) <= SequenceLength
    BY <1>types, LenProperties DEF Buffers
  <2> QED
    BY <2>1, <1>inv, <1>named, <1>same, <1>types, PipelineAssumption DEF FirstSequence
<1>8. OnlyWhileRunning'
  BY <1>same DEF OnlyWhileRunning
<1>9. SingleFlight'
  BY <1>inv, <1>free, <1>sent, <1>flight DEF SingleFlight, Request
<1>10. PredictionNamesItsWindows' /\ FirstTrialUnpadded'
  BY <1>inv, <1>same DEF PredictionNamesItsWindows, FirstTrialUnpadded, Padding, NoWindow
<1> QED
  BY <1>1, <1>2, <1>3, <1>4, <1>5, <1>6, <1>7, <1>8, <1>9, <1>10 DEF PipelineInv

(* A trial reset is posted like a window, and empties the runtime's buffer. *)
LEMMA ResetTrialKeepsInv ==
  ASSUME PipelineInv, ResetTrial
  PROVE  PipelineInv'
<1> DEFINE n == requests + 1
           reset == Message(n, "RESET", NoWindow)
           l == Len(toWorker)
<1>inv. /\ Typed /\ Numbered /\ OfOneKind /\ AcksCounted /\ InStep /\ TensorOfFlight
        /\ FirstSequence /\ OnlyWhileRunning
        /\ PredictionNamesItsWindows /\ SingleFlight /\ FirstTrialUnpadded
  BY DEF PipelineInv
<1>types. /\ requests \in Nat /\ trial \in Nat /\ emitted \in 0..MaxWindows
          /\ requests <= 2 * emitted + trial /\ l \in Nat /\ toWorker \in Seq(ToWorker)
  BY <1>inv, LenProperties, PipelineAssumption DEF Typed
<1>message. /\ reset \in ToWorker /\ HasItsWindow(reset) /\ reset.n = n /\ reset.kind = "RESET"
  BY <1>types, PipelineAssumption DEF Message, ToWorker, Kinds, HasItsWindow, NoWindow, Windows
<1>same. /\ running /\ running' /\ trial' = trial + 1 /\ trial + 1 \in 0..MaxResets
         /\ nextWindowId' = 0 /\ evaluatedWindowIds' = << >> /\ processedWindowCount' = 0
         /\ requests' = n /\ pending' = pending \cup {Request(n, "RESET")}
         /\ toWorker' = Append(toWorker, reset)
         /\ UNCHANGED <<running, flight, prediction, emitted, toMain, windows, computing>>
  BY <1>types, PipelineAssumption DEF ResetTrial
<1>new. \A r \in pending : r.n # n
  BY <1>inv, <1>types DEF Numbered
<1>channel. /\ toWorker' \in Seq(ToWorker) /\ Len(toWorker') = l + 1
            /\ \A k \in 1..l : toWorker'[k] = toWorker[k]
            /\ toWorker'[l + 1] = reset
            /\ l = Len(toWorker)
            /\ \A k \in 1..Len(toWorker') : k \in 1..l \/ k = l + 1
  BY <1>types, <1>message, <1>same, AppendProperties
<1> HIDE DEF reset, l
<1>1. Typed'
  <2>1. pending' \in SUBSET [n: Nat, kind: Kinds] /\ IsFiniteSet(pending')
    <3>1. Request(n, "RESET") \in [n: Nat, kind: Kinds]
      BY <1>types DEF Request, Kinds
    <3> QED
      BY <3>1, <1>inv, <1>same, FS_AddElement DEF Typed
  <2>2. \A k \in 1..Len(toWorker') : HasItsWindow(toWorker'[k])
    BY <1>inv, <1>channel, <1>message DEF Typed
  <2>3. requests' \in 0..(2 * emitted' + trial') /\ nextWindowId' \in 0..emitted'
    BY <1>types, <1>same, PipelineAssumption
  <2> QED
    BY <2>1, <2>2, <2>3, <1>inv, <1>same, <1>channel, EmptyBuffer DEF Typed, HasItsWindow
<1>2. Numbered'
  <2>1. \A k \in 1..Len(toWorker') : toWorker'[k].n \in 1..requests'
    <3> SUFFICES ASSUME NEW k \in 1..Len(toWorker') PROVE toWorker'[k].n \in 1..requests'
      OBVIOUS
    <3>1. k \in 1..l => toWorker[k].n \in 1..requests
      BY <1>inv, <1>channel DEF Numbered
    <3> QED
      BY <3>1, <1>types, <1>same, <1>channel, <1>message
  <2> QED
    BY <2>1, <1>inv, <1>types, <1>same DEF Numbered, Request
<1>3. OfOneKind'
  <2>1. \A r \in pending', k \in 1..Len(toWorker') :
          toWorker'[k].n = r.n => toWorker'[k].kind = r.kind
    <3> SUFFICES ASSUME NEW r \in pending', NEW k \in 1..Len(toWorker'), toWorker'[k].n = r.n
                 PROVE  toWorker'[k].kind = r.kind
      OBVIOUS
    <3>1. CASE k \in 1..l
      <4>1. toWorker[k].n \in 1..requests
        BY <3>1, <1>channel, <1>inv DEF Numbered
      <4>2. r \in pending
        BY <4>1, <3>1, <1>channel, <1>types, <1>same DEF Request
      <4> QED
        BY <3>1, <4>2, <1>channel, <1>inv DEF OfOneKind
    <3>2. CASE k = l + 1
      BY <3>2, <1>channel, <1>message, <1>new, <1>same DEF Request
    <3> QED
      BY <3>1, <3>2, <1>channel
  <2>2. \A r, q \in pending' : r.n = q.n => r = q
    BY <1>inv, <1>new, <1>same DEF OfOneKind, Request
  <2>3. /\ \A k \in 1..Len(toMain) : toMain[k].n # n
        /\ \A c \in computing : c.n # n
    BY <1>inv, <1>types DEF Numbered
  <2>4. /\ \A r \in pending', k \in 1..Len(toMain) : toMain[k].n = r.n => toMain[k].kind = r.kind
        /\ \A r \in pending', c \in computing : c.n = r.n => r.kind = "EVALUATE"
    BY <2>3, <1>inv, <1>same DEF OfOneKind, Request
  <2> QED
    BY <2>1, <2>2, <2>4, <1>same DEF OfOneKind
<1>4. AcksCounted'
  <2>1. Pushes' = Pushes
    BY <1>same DEF Pushes, Request
  <2> QED
    BY <2>1, <1>inv, <1>same, <1>types, PushesFinite DEF AcksCounted
<1>5. InStep'
  <2>1. PICK ahead \in [0..l -> Buffers] :
          Follows(windows, toWorker, ahead) /\ Snapshots(ahead)
    BY <1>inv DEF InStep, l
  <2>2. PICK more \in [0..(l + 1) -> Buffers] :
          /\ Follows(windows, Append(toWorker, reset), more)
          /\ \A k \in 0..l : more[k] = ahead[k]
          /\ more[l + 1] = Handled(ahead[l], reset)
    BY <2>1, <1>types, <1>message, FollowsPosted DEF l
  <2>3. Follows(windows', toWorker', more) /\ more \in [0..Len(toWorker') -> Buffers]
    BY <2>2, <1>same, <1>channel
  <2>4. Catches(more)'
    BY <2>2, <1>channel, <1>same, <1>message DEF Catches, Handled
  <2>5. Snapshots(more)'
    <3>1. flight # NoFlight => flight.n # n
      BY <1>inv, <1>types DEF Numbered
    <3> SUFFICES ASSUME NEW k \in 1..(l + 1), flight # NoFlight, toWorker'[k].n = flight.n
                 PROVE  flight.named = more[k]
      BY <1>channel, <1>same DEF Snapshots
    <3>2. k \in 1..l /\ toWorker'[k] = toWorker[k]
      BY <3>1, <1>channel, <1>message, <1>types
    <3> QED
      BY <3>2, <2>1, <2>2, <1>channel, <1>types DEF Snapshots
  <2>6. FullAhead(more)'
    BY <1>types, <1>same DEF FullAhead
  <2> QED
    BY <2>3, <2>4, <2>5, <2>6 DEF InStep
<1>6. trial' # 0
  BY <1>types, <1>same
<1>7. TensorOfFlight' /\ OnlyWhileRunning' /\ SingleFlight'
  <2>1. {r \in pending' : r.kind = "EVALUATE"} = {r \in pending : r.kind = "EVALUATE"}
    BY <1>same DEF Request
  <2>2. SingleFlight'
    BY <2>1, <1>inv, <1>same DEF SingleFlight, Request
  <2>3. TensorOfFlight' /\ OnlyWhileRunning'
    BY <1>inv, <1>same DEF TensorOfFlight, OnlyWhileRunning, Tensor, Padding
  <2> QED
    BY <2>2, <2>3
<1>8. FirstSequence' /\ FirstTrialUnpadded'
  BY <1>6 DEF FirstSequence, FirstTrialUnpadded
<1>9. PredictionNamesItsWindows'
  BY <1>inv, <1>same DEF PredictionNamesItsWindows, Padding, NoWindow
<1> QED
  BY <1>1, <1>2, <1>3, <1>4, <1>5, <1>7, <1>8, <1>9 DEF PipelineInv

(* Requests that settle and an evaluation that ends leave the worker in     *)
(* step.                                                                    *)
LEMMA InStepWhenSettled ==
  ASSUME InStep, UNCHANGED <<running, trial, evaluatedWindowIds, windows, toWorker>>,
         flight' = flight \/ flight' = NoFlight
  PROVE  InStep'
<1>1. PICK ahead \in [0..Len(toWorker) -> Buffers] :
        Follows(windows, toWorker, ahead) /\ Catches(ahead) /\ Snapshots(ahead) /\ FullAhead(ahead)
  BY DEF InStep
<1>2. Catches(ahead)' /\ Snapshots(ahead)' /\ FullAhead(ahead)'
  BY <1>1 DEF Catches, Snapshots, FullAhead
<1> QED
  BY <1>1, <1>2 DEF InStep

(* Once a request is settled the others are what they were.                 *)
LEMMA SettledPending ==
  ASSUME Typed, OfOneKind, AcksCounted, SingleFlight, NEW r \in pending,
         pending' = pending \ {r}, UNCHANGED emitted,
         flight' = IF r.kind = "EVALUATE" THEN NoFlight ELSE flight,
         \/ UNCHANGED processedWindowCount
         \/ r.kind = "PUSH_WINDOW" /\ processedWindowCount' = processedWindowCount + 1
  PROVE  /\ IsFiniteSet(pending') /\ pending' \in SUBSET [n: Nat, kind: Kinds]
         /\ AcksCounted' /\ SingleFlight'
         /\ r.kind = "EVALUATE" => flight # NoFlight /\ r.n = flight.n
<1>1. IsFiniteSet(pending) /\ pending \in SUBSET [n: Nat, kind: Kinds] /\ emitted \in Nat
  BY PipelineAssumption DEF Typed
<1>2. IsFiniteSet(pending')
  BY <1>1, FS_RemoveElement
<1>3. AcksCounted'
  <2>1. Pushes' = Pushes \ {r}
    BY DEF Pushes
  <2>2. IsFiniteSet(Pushes) /\ Cardinality(Pushes) \in Nat
    BY PushesFinite
  <2>3. Cardinality(Pushes') = IF r \in Pushes THEN Cardinality(Pushes) - 1 ELSE Cardinality(Pushes)
    BY <2>1, <2>2, FS_RemoveElement
  <2>4. r.kind = "PUSH_WINDOW" => r \in Pushes
    BY DEF Pushes
  <2> QED
    BY <1>1, <2>2, <2>3, <2>4 DEF AcksCounted
<1>4. r.kind = "EVALUATE" => flight # NoFlight /\ r = Request(flight.n, "EVALUATE")
  BY DEF SingleFlight
<1>5. SingleFlight'
  <2>1. CASE r.kind = "EVALUATE"
    BY <2>1, <1>4 DEF SingleFlight
  <2>2. CASE r.kind # "EVALUATE"
    BY <2>2 DEF SingleFlight
  <2> QED
    BY <2>1, <2>2
<1> QED
  BY <1>1, <1>2, <1>3, <1>4, <1>5 DEF Request

(* A request that times out is settled; the evaluation it was for ends.     *)
LEMMA TimeOutKeepsInv ==
  ASSUME PipelineInv, NEW r \in pending, TimeOut(r)
  PROVE  PipelineInv'
<1>inv. /\ Typed /\ Numbered /\ OfOneKind /\ AcksCounted /\ InStep /\ TensorOfFlight
        /\ FirstSequence /\ OnlyWhileRunning
        /\ PredictionNamesItsWindows /\ SingleFlight /\ FirstTrialUnpadded
  BY DEF PipelineInv
<1>same. /\ pending' = pending \ {r}
         /\ flight' = (IF r.kind = "EVALUATE" THEN NoFlight ELSE flight)
         /\ UNCHANGED <<running, trial, nextWindowId, evaluatedWindowIds, processedWindowCount,
                        prediction, emitted, requests, toWorker, toMain, windows, computing>>
  BY DEF TimeOut, worker
<1>1. /\ IsFiniteSet(pending') /\ pending' \in SUBSET [n: Nat, kind: Kinds]
      /\ AcksCounted' /\ SingleFlight'
  BY <1>inv, <1>same, SettledPending
<1>2. Typed'
  BY <1>inv, <1>same, <1>1 DEF Typed, HasItsWindow
<1>3. Numbered'
  BY <1>inv, <1>same DEF Numbered
<1>4. OfOneKind'
  BY <1>inv, <1>same DEF OfOneKind
<1>5. InStep'
  BY <1>inv, <1>same, InStepWhenSettled
<1>6. TensorOfFlight' /\ FirstSequence' /\ OnlyWhileRunning'
  BY <1>inv, <1>same DEF TensorOfFlight, FirstSequence, OnlyWhileRunning, Tensor, Padding
<1>7. PredictionNamesItsWindows' /\ FirstTrialUnpadded'
  BY <1>inv, <1>same DEF PredictionNamesItsWindows, FirstTrialUnpadded, Padding, NoWindow
<1> QED
  BY <1>1, <1>2, <1>3, <1>4, <1>5, <1>6, <1>7 DEF PipelineInv

(* The worker handles the oldest message: a window or a reset is applied    *)
(* and acknowledged, an evaluation takes the tensor of its buffer.          *)
LEMMA WorkerHandlesKeepsInv ==
  ASSUME PipelineInv, WorkerHandles
  PROVE  PipelineInv'
<1> DEFINE message == Head(toWorker)
           ack == [n |-> message.n, kind |-> message.kind, ok |-> TRUE, tensor |-> << >>]
           taken == [n |-> message.n, tensor |-> Tensor(windows)]
           asked == message.kind = "EVALUATE"
           l == Len(toWorker)
           m == Len(toMain)
<1>inv. /\ Typed /\ Numbered /\ OfOneKind /\ AcksCounted /\ InStep /\ TensorOfFlight
        /\ FirstSequence /\ OnlyWhileRunning
        /\ PredictionNamesItsWindows /\ SingleFlight /\ FirstTrialUnpadded
  BY DEF PipelineInv
<1>types. /\ toWorker \in Seq(ToWorker) /\ toWorker # << >> /\ l \in Nat \ {0}
          /\ toMain \in Seq(ToMain) /\ m \in Nat /\ windows \in Buffers
          /\ requests \in Nat /\ trial \in 0..MaxResets
  BY <1>inv, EmptySeq, LenProperties, PipelineAssumption DEF Typed, WorkerHandles
<1>message. /\ message \in ToWorker /\ message = toWorker[1] /\ HasItsWindow(message)
            /\ message.n \in Nat /\ message.kind \in Kinds
  <2>1. message \in ToWorker /\ message = toWorker[1]
    BY <1>types, HeadTailProperties
  <2>2. HasItsWindow(toWorker[1])
    BY <1>inv, <1>types DEF Typed
  <2> QED
    BY <2>1, <2>2 DEF ToWorker
<1>same. /\ toWorker' = Tail(toWorker)
         /\ windows' = Handled(windows, message)
         /\ toMain' = (IF asked THEN toMain ELSE Append(toMain, ack))
         /\ computing' = (IF asked THEN computing \cup {taken} ELSE computing)
         /\ UNCHANGED <<running, trial, nextWindowId, evaluatedWindowIds, processedWindowCount,
                        flight, prediction, emitted, requests, pending>>
  BY <1>message DEF WorkerHandles, Handled, runtime, client, Kinds
<1>typed. /\ ack \in ToMain /\ taken \in Computations /\ Len(taken.tensor) = SequenceLength
          /\ ack.n = message.n /\ ack.kind = message.kind /\ taken.n = message.n
          /\ windows' \in Buffers
  <2>1. << >> \in Seq(Windows)
    BY EmptySeq
  <2> QED
    BY <2>1, <1>types, <1>message, <1>same, TensorOfBuffer, HandledBuffer DEF ToMain, Computations
<1>channel. /\ toWorker' \in Seq(ToWorker) /\ Len(toWorker') = l - 1
            /\ \A k \in 1..Len(toWorker') : k + 1 \in 1..l /\ toWorker'[k] = toWorker[k + 1]
  BY <1>types, <1>same, HeadTailProperties
<1>answers. /\ toMain' \in Seq(ToMain)
            /\ \A k \in 1..Len(toMain') :
                 \/ k \in 1..m /\ toMain'[k] = toMain[k]
                 \/ ~asked /\ toMain'[k] = ack
  BY <1>types, <1>typed, <1>same, AppendProperties
<1>first. 1 \in 1..Len(toWorker)
  BY <1>types
<1>len. l = Len(toWorker) /\ m = Len(toMain)
  OBVIOUS
<1>n. message.n \in 1..requests
  BY <1>inv, <1>message, <1>first DEF Numbered
<1>kind. \A r \in pending : r.n = message.n => r.kind = message.kind
  BY <1>inv, <1>message, <1>first DEF OfOneKind
<1>buffer. PICK ahead \in [0..l -> Buffers] :
             Follows(windows, toWorker, ahead) /\ Catches(ahead) /\ Snapshots(ahead) /\ FullAhead(ahead)
  BY <1>inv DEF InStep
<1>next. ahead[1] = Handled(windows, message)
  BY <1>buffer, <1>first, <1>message DEF Follows
<1> HIDE DEF message, ack, taken, l, m
<1>1. Typed'
  <2>1. \A k \in 1..Len(toWorker') : HasItsWindow(toWorker'[k])
    BY <1>inv, <1>channel, <1>len DEF Typed
  <2>2. computing' \in SUBSET Computations /\ \A c \in computing' : Len(c.tensor) = SequenceLength
    BY <1>inv, <1>same, <1>typed DEF Typed
  <2> QED
    BY <2>1, <2>2, <1>inv, <1>same, <1>typed, <1>channel, <1>answers DEF Typed, HasItsWindow
<1>2. Numbered'
  <2>1. \A k \in 1..Len(toWorker') : toWorker'[k].n \in 1..requests
    BY <1>inv, <1>channel, <1>len DEF Numbered
  <2>2. \A k \in 1..Len(toMain') : toMain'[k].n \in 1..requests
    BY <1>inv, <1>answers, <1>typed, <1>n, <1>len DEF Numbered
  <2>3. \A c \in computing' : c.n \in 1..requests
    BY <1>inv, <1>same, <1>typed, <1>n DEF Numbered
  <2> QED
    BY <2>1, <2>2, <2>3, <1>inv, <1>same DEF Numbered
<1>3. OfOneKind'
  <2>1. \A r \in pending, k \in 1..Len(toWorker') :
          toWorker'[k].n = r.n => toWorker'[k].kind = r.kind
    <3> SUFFICES ASSUME NEW r \in pending, NEW k \in 1..Len(toWorker'), toWorker'[k].n = r.n
                 PROVE  toWorker'[k].kind = r.kind
      OBVIOUS
    <3>1. k + 1 \in 1..Len(toWorker) /\ toWorker'[k] = toWorker[k + 1]
      BY <1>channel, <1>len
    <3> QED
      BY <3>1, <1>inv DEF OfOneKind
  <2>2. \A r \in pending, k \in 1..Len(toMain') : toMain'[k].n = r.n => toMain'[k].kind = r.kind
    BY <1>inv, <1>answers, <1>typed, <1>kind, <1>len DEF OfOneKind
  <2>3. \A r \in pending, c \in computing' : c.n = r.n => r.kind = "EVALUATE"
    BY <1>inv, <1>same, <1>typed, <1>kind DEF OfOneKind
  <2> QED
    BY <2>1, <2>2, <2>3, <1>inv, <1>same DEF OfOneKind
<1>4. InStep'
  <2>1. PICK rest \in [0..Len(Tail(toWorker)) -> Buffers] :
          /\ Follows(Handled(windows, message), Tail(toWorker), rest)
          /\ \A k \in 0..Len(Tail(toWorker)) : rest[k] = ahead[k + 1]
    BY <1>buffer, <1>types, FollowsHandled DEF message, l
  <2>2. /\ rest \in [0..Len(toWorker') -> Buffers] /\ Follows(windows', toWorker', rest)
        /\ \A k \in 0..Len(toWorker') : rest[k] = ahead[k + 1]
    BY <2>1, <1>same
  <2>3. Catches(rest)'
    BY <2>2, <1>buffer, <1>channel, <1>types, <1>same, <1>len DEF Catches
  <2>4. \A k \in 1..Len(toWorker') : rest[k] = ahead[k + 1]
    BY <2>2, <1>channel, <1>types
  <2>5. Snapshots(rest)'
    BY <2>4, <1>buffer, <1>channel, <1>same, <1>len DEF Snapshots
  <2>6. FullAhead(rest)'
    BY <2>4, <1>buffer, <1>channel, <1>same, <1>len DEF FullAhead
  <2> QED
    BY <2>2, <2>3, <2>5, <2>6 DEF InStep
<1>5. TensorOfFlight'
  <2>1. ASSUME NEW c \in computing', flight # NoFlight, c.n = flight.n
        PROVE  c.tensor = Tensor(flight.named)
    <3>1. CASE c \in computing
      BY <3>1, <2>1, <1>inv DEF TensorOfFlight
    <3>2. CASE asked /\ c = taken
      <4>1. flight.named = ahead[1]
        BY <3>2, <2>1, <1>typed, <1>buffer, <1>first, <1>message DEF Snapshots
      <4>2. ahead[1] = windows
        BY <3>2, <1>next DEF Handled
      <4> QED
        BY <3>2, <4>1, <4>2 DEF taken
    <3> QED
      BY <3>1, <3>2, <1>same
  <2>2. ASSUME NEW k \in 1..Len(toMain'), flight # NoFlight, toMain'[k].n = flight.n
        PROVE  toMain'[k].tensor = Tensor(flight.named)
    <3>1. CASE k \in 1..m /\ toMain'[k] = toMain[k]
      BY <3>1, <2>2, <1>inv, <1>len DEF TensorOfFlight
    <3>2. CASE ~asked /\ toMain'[k] = ack
      <4>1. Request(flight.n, "EVALUATE") \in pending
        BY <2>2, <1>inv DEF SingleFlight
      <4>2. Request(flight.n, "EVALUATE").kind = message.kind
        BY <4>1, <3>2, <2>2, <1>typed, <1>kind DEF Request
      <4> QED
        BY <4>2, <3>2 DEF Request
    <3> QED
      BY <3>1, <3>2, <1>answers
  <2> QED
    BY <2>1, <2>2, <1>same DEF TensorOfFlight, Tensor, Padding
<1>6. FirstTrialUnpadded'
  <2>1. CASE asked
    <3>1. running
      BY <1>inv, <1>types DEF OnlyWhileRunning
    <3>2. trial = 0 => Len(windows) = SequenceLength
      BY <2>1, <3>1, <1>buffer, <1>first, <1>message, <1>next DEF FullAhead, Handled
    <3>3. trial = 0 => \A k \in DOMAIN taken.tensor : taken.tensor[k] # NoWindow
      BY <3>2, <1>types, TensorOfBuffer DEF taken
    <3> QED
      BY <2>1, <3>3, <1>inv, <1>same DEF FirstTrialUnpadded, NoWindow
  <2>2. CASE ~asked
    BY <2>2, <1>inv, <1>same DEF FirstTrialUnpadded, NoWindow
  <2> QED
    BY <2>1, <2>2
<1>7. FirstSequence' /\ OnlyWhileRunning'
  BY <1>inv, <1>same, <1>types DEF FirstSequence, OnlyWhileRunning
<1>8. AcksCounted' /\ SingleFlight' /\ PredictionNamesItsWindows'
  BY <1>inv, <1>same DEF AcksCounted, Pushes, SingleFlight, PredictionNamesItsWindows, Padding,
                         NoWindow, Request
<1> QED
  BY <1>1, <1>2, <1>3, <1>4, <1>5, <1>6, <1>7, <1>8 DEF PipelineInv

(* The gates settle: the tensor of the evaluation goes with the answer.     *)
LEMMA WorkerAnswersKeepsInv ==
  ASSUME PipelineInv, NEW c \in computing, NEW ok \in BOOLEAN, WorkerAnswers(c, ok)
  PROVE  PipelineInv'
<1> DEFINE answer == [n |-> c.n, kind |-> "EVALUATE", ok |-> ok, tensor |-> c.tensor]
           m == Len(toMain)
<1>inv. /\ Typed /\ Numbered /\ OfOneKind /\ AcksCounted /\ InStep /\ TensorOfFlight
        /\ FirstSequence /\ OnlyWhileRunning
        /\ PredictionNamesItsWindows /\ SingleFlight /\ FirstTrialUnpadded
  BY DEF PipelineInv
<1>same. /\ computing' = computing \ {c} /\ toMain' = Append(toMain, answer)
         /\ UNCHANGED <<running, trial, nextWindowId, evaluatedWindowIds, processedWindowCount,
                        flight, prediction, emitted, requests, pending, toWorker, windows>>
  BY DEF WorkerAnswers, runtime, client
<1>typed. /\ answer \in ToMain /\ toMain \in Seq(ToMain) /\ m \in Nat
          /\ answer.n = c.n /\ answer.kind = "EVALUATE" /\ answer.tensor = c.tensor
  BY <1>inv, LenProperties DEF Typed, ToMain, Computations, Kinds
<1>answers. /\ toMain' \in Seq(ToMain) /\ m = Len(toMain)
            /\ \A k \in 1..Len(toMain') :
                 \/ k \in 1..m /\ toMain'[k] = toMain[k]
                 \/ toMain'[k] = answer
  BY <1>typed, <1>same, AppendProperties
<1> HIDE DEF answer, m
<1>1. Typed'
  BY <1>inv, <1>same, <1>answers DEF Typed, HasItsWindow
<1>2. Numbered'
  <2>1. \A k \in 1..Len(toMain') : toMain'[k].n \in 1..requests
    BY <1>inv, <1>answers, <1>typed DEF Numbered
  <2> QED
    BY <2>1, <1>inv, <1>same DEF Numbered
<1>3. OfOneKind'
  <2>1. \A r \in pending, k \in 1..Len(toMain') : toMain'[k].n = r.n => toMain'[k].kind = r.kind
    BY <1>inv, <1>answers, <1>typed DEF OfOneKind
  <2> QED
    BY <2>1, <1>inv, <1>same DEF OfOneKind
<1>4. InStep'
  BY <1>inv, <1>same, InStepWhenSettled
<1>5. TensorOfFlight'
  <2>1. ASSUME NEW k \in 1..Len(toMain'), flight # NoFlight, toMain'[k].n = flight.n
        PROVE  toMain'[k].tensor = Tensor(flight.named)
    BY <2>1, <1>inv, <1>answers, <1>typed DEF TensorOfFlight
  <2> QED
    BY <2>1, <1>inv, <1>same DEF TensorOfFlight, Tensor, Padding
<1>6. FirstSequence' /\ OnlyWhileRunning' /\ FirstTrialUnpadded'
  BY <1>inv, <1>same DEF FirstSequence, OnlyWhileRunning, FirstTrialUnpadded, NoWindow
<1>7. AcksCounted' /\ SingleFlight' /\ PredictionNamesItsWindows'
  BY <1>inv, <1>same DEF AcksCounted, Pushes, SingleFlight, PredictionNamesItsWindows, Padding,
                         NoWindow, Request
<1> QED
  BY <1>1, <1>2, <1>3, <1>4, <1>5, <1>6, <1>7 DEF PipelineInv

(* An answer that is awaited settles its request; the one to the evaluation *)
(* in flight was computed from the windows its snapshot names. The others   *)
(* are dropped.                                                             *)
LEMMA MainReceivesKeepsInv ==
  ASSUME PipelineInv, MainReceives
  PROVE  PipelineInv'
<1> DEFINE answer == Head(toMain)
           m == Len(toMain)
<1>inv. /\ Typed /\ Numbered /\ OfOneKind /\ AcksCounted /\ InStep /\ TensorOfFlight
        /\ FirstSequence /\ OnlyWhileRunning
        /\ PredictionNamesItsWindows /\ SingleFlight /\ FirstTrialUnpadded
  BY DEF PipelineInv
<1>types. toMain \in Seq(ToMain) /\ toMain # << >> /\ m \in Nat \ {0} /\ m = Len(toMain)
  BY <1>inv, EmptySeq DEF Typed, MainReceives
<1>answer. /\ answer \in ToMain /\ answer = toMain[1] /\ 1 \in 1..Len(toMain)
           /\ answer.tensor \in Seq(Windows)
  <2>1. answer \in ToMain /\ answer = toMain[1]
    BY <1>types, HeadTailProperties
  <2> QED
    BY <2>1, <1>types DEF ToMain
<1>channel. /\ toMain' \in Seq(ToMain)
            /\ \A k \in 1..Len(toMain') : k + 1 \in 1..Len(toMain) /\ toMain'[k] = toMain[k + 1]
  BY <1>types, HeadTailProperties DEF MainReceives
<1>same. UNCHANGED <<running, trial, nextWindowId, evaluatedWindowIds, emitted, requests,
                     toWorker, windows, computing>>
  BY DEF MainReceives
<1> HIDE DEF answer
<1>settled. /\ pending' \in SUBSET pending /\ IsFiniteSet(pending')
            /\ AcksCounted' /\ SingleFlight'
            /\ flight' = flight \/ flight' = NoFlight
            /\ \/ UNCHANGED prediction
               \/ /\ flight \in Flights
                  /\ prediction' = [named |-> flight.named, tensor |-> Tensor(flight.named)]
  <2>1. CASE IsPending(answer.n)
    <3>1. PICK r \in pending : r.n = answer.n
      BY <2>1 DEF IsPending
    <3>2. r.kind = answer.kind
      BY <3>1, <1>inv, <1>answer DEF OfOneKind
    <3>3. pending' = pending \ {r}
      BY <3>1, <1>inv DEF MainReceives, Settled, OfOneKind, answer
    <3>4. /\ flight' = (IF r.kind = "EVALUATE" THEN NoFlight ELSE flight)
          /\ processedWindowCount' = (IF r.kind = "PUSH_WINDOW" THEN processedWindowCount + 1
                                      ELSE processedWindowCount)
          /\ r.kind # "EVALUATE" => UNCHANGED prediction
          /\ r.kind = "EVALUATE" =>
               prediction' = IF answer.ok THEN [named |-> flight.named, tensor |-> answer.tensor]
                             ELSE prediction
      BY <2>1, <3>2 DEF MainReceives, Named, answer
    <3>5. /\ IsFiniteSet(pending') /\ AcksCounted' /\ SingleFlight'
          /\ r.kind = "EVALUATE" => flight # NoFlight /\ r.n = flight.n
      <4>1. \/ UNCHANGED processedWindowCount
            \/ r.kind = "PUSH_WINDOW" /\ processedWindowCount' = processedWindowCount + 1
        BY <3>4
      <4> QED
        BY <4>1, <3>3, <3>4, <1>inv, <1>same, SettledPending
    <3>6. r.kind = "EVALUATE" => answer.tensor = Tensor(flight.named) /\ flight \in Flights
      BY <3>1, <3>5, <1>inv, <1>answer DEF TensorOfFlight, Typed
    <3> QED
      BY <3>3, <3>4, <3>5, <3>6
  <2>2. CASE ~IsPending(answer.n)
    <3>1. pending' = pending /\ UNCHANGED <<processedWindowCount, flight, prediction>>
      BY <2>2 DEF MainReceives, IsPending, Settled, answer
    <3> QED
      BY <3>1, <1>inv, <1>same DEF AcksCounted, Pushes, SingleFlight, Typed, Request
  <2> QED
    BY <2>1, <2>2
<1>1. Typed'
  <2>1. prediction' \in [named: Buffers, tensor: Seq(Windows)]
    <3>1. flight \in Flights => flight.named \in Buffers /\ Tensor(flight.named) \in Seq(Windows)
      BY TensorOfBuffer DEF Flights
    <3> QED
      BY <3>1, <1>settled, <1>inv DEF Typed
  <2> QED
    BY <2>1, <1>inv, <1>same, <1>channel, <1>settled DEF Typed, HasItsWindow
<1>2. Numbered'
  <2>1. \A k \in 1..Len(toMain') : toMain'[k].n \in 1..requests
    BY <1>inv, <1>channel DEF Numbered
  <2> QED
    BY <2>1, <1>inv, <1>same, <1>settled DEF Numbered
<1>3. OfOneKind'
  <2>1. \A r \in pending, k \in 1..Len(toMain') : toMain'[k].n = r.n => toMain'[k].kind = r.kind
    <3> SUFFICES ASSUME NEW r \in pending, NEW k \in 1..Len(toMain'), toMain'[k].n = r.n
                 PROVE  toMain'[k].kind = r.kind
      OBVIOUS
    <3>1. k + 1 \in 1..Len(toMain) /\ toMain'[k] = toMain[k + 1]
      BY <1>channel
    <3> QED
      BY <3>1, <1>inv DEF OfOneKind
  <2> QED
    BY <2>1, <1>inv, <1>same, <1>settled DEF OfOneKind
<1>4. InStep'
  BY <1>inv, <1>same, <1>settled, InStepWhenSettled
<1>5. TensorOfFlight'
  <2>1. ASSUME NEW k \in 1..Len(toMain'), flight # NoFlight, toMain'[k].n = flight.n
        PROVE  toMain'[k].tensor = Tensor(flight.named)
    BY <2>1, <1>inv, <1>channel DEF TensorOfFlight
  <2> QED
    BY <2>1, <1>inv, <1>same, <1>settled DEF TensorOfFlight, Tensor, Padding
<1>6. FirstSequence' /\ OnlyWhileRunning' /\ FirstTrialUnpadded'
  BY <1>inv, <1>same DEF FirstSequence, OnlyWhileRunning, FirstTrialUnpadded, NoWindow
<1>7. PredictionNamesItsWindows'
  <2>1. CASE UNCHANGED prediction
    BY <2>1, <1>inv DEF PredictionNamesItsWindows, Padding, NoWindow
  <2>2. CASE prediction' = [named |-> flight.named, tensor |-> Tensor(flight.named)]
    <3>1. prediction'.tensor = Tensor(prediction'.named)
      BY <2>2
    <3> QED
      BY <3>1 DEF PredictionNamesItsWindows, Tensor, Padding, NoWindow
  <2> QED
    BY <2>1, <2>2, <1>settled
<1> QED
  BY <1>settled, <1>1, <1>2, <1>3, <1>4, <1>5, <1>6, <1>7 DEF PipelineInv

(* stop() empties the channels and the worker.                              *)
LEMMA StopKeepsInv ==
  ASSUME PipelineInv, Stop
  PROVE  PipelineInv'
<1>inv. Typed /\ PredictionNamesItsWindows
  BY DEF PipelineInv
<1>same. /\ running' = FALSE /\ pending' = {} /\ flight' = NoFlight
         /\ toWorker' = << >> /\ toMain' = << >> /\ windows' = << >> /\ computing' = {}
         /\ processedWindowCount' = 0 /\ nextWindowId' = 0
         /\ UNCHANGED <<trial, evaluatedWindowIds, prediction, emitted, requests>>
  BY DEF Stop
<1>empty. /\ toWorker' \in Seq(ToWorker) /\ toMain' \in Seq(ToMain)
          /\ Len(toWorker') = 0 /\ Len(toMain') = 0
  BY <1>same, EmptySeq
<1>types. emitted \in Nat
  BY <1>inv, PipelineAssumption DEF Typed
<1>1. Typed'
  <2>1. pending' \in SUBSET [n: Nat, kind: Kinds] /\ IsFiniteSet(pending')
        /\ computing' \in SUBSET Computations /\ nextWindowId' \in 0..emitted'
    BY <1>same, <1>types, FS_EmptySet
  <2>2. /\ \A k \in 1..Len(toWorker') : HasItsWindow(toWorker[k])'
        /\ \A c \in computing' : Len(c.tensor) = SequenceLength
    BY <1>same, <1>empty
  <2> QED
    BY <2>1, <2>2, <1>inv, <1>same, <1>empty, EmptyBuffer DEF Typed
<1>2. AcksCounted'
  <2>1. Pushes' = {}
    BY <1>same DEF Pushes
  <2> QED
    BY <2>1, <1>same, <1>types, FS_EmptySet DEF AcksCounted
<1>3. InStep'
  <2> DEFINE ahead == [k \in 0..0 |-> << >>]
  <2>1. ahead \in [0..Len(toWorker') -> Buffers]
    BY <1>empty, EmptyBuffer
  <2>2. Follows(windows', toWorker', ahead) /\ Catches(ahead)' /\ Snapshots(ahead)' /\ FullAhead(ahead)'
    BY <1>same, <1>empty DEF Follows, Catches, Snapshots, FullAhead
  <2> QED
    BY <2>1, <2>2 DEF InStep
<1>4. Numbered' /\ OfOneKind' /\ TensorOfFlight' /\ FirstSequence' /\ OnlyWhileRunning'
      /\ FirstTrialUnpadded' /\ SingleFlight'
  BY <1>same, <1>empty DEF Numbered, OfOneKind, TensorOfFlight, FirstSequence, OnlyWhileRunning,
                          FirstTrialUnpadded, SingleFlight
<1>5. PredictionNamesItsWindows'
  BY <1>inv, <1>same DEF PredictionNamesItsWindows, Padding, NoWindow
<1> QED
  BY <1>1, <1>2, <1>3, <1>4, <1>5 DEF PipelineInv

(* Every step preserves the invariant.                                      *)
LEMMA NextPipelineInv == PipelineInv /\ [Next]_vars => PipelineInv'
<1> SUFFICES ASSUME PipelineInv, [Next]_vars PROVE PipelineInv'
  OBVIOUS
<1>1. ASSUME NEW due \in BOOLEAN, EmitWindow(due) PROVE PipelineInv'
  BY <1>1, EmitWindowKeepsInv
<1>2. ASSUME NEW c \in computing, NEW ok \in BOOLEAN, WorkerAnswers(c, ok) PROVE PipelineInv'
  BY <1>2, WorkerAnswersKeepsInv
<1>3. ASSUME NEW r \in pending, TimeOut(r) PROVE PipelineInv'
  BY <1>3, TimeOutKeepsInv
<1>4. CASE UNCHANGED vars
  <2>1. UNCHANGED <<running, trial, nextWindowId, evaluatedWindowIds, processedWindowCount,
                    flight, prediction, emitted, requests, pending, toWorker, toMain, windows,
                    computing>>
    BY <1>4 DEF vars, runtime, client, worker
  <2>2. InStep'
    BY <2>1, InStepWhenSettled DEF PipelineInv
  <2>3. (Typed /\ Numbered /\ OfOneKind /\ AcksCounted /\ TensorOfFlight)'
    BY <2>1 DEF PipelineInv, Typed, HasItsWindow, Numbered, OfOneKind, AcksCounted, Pushes,
                TensorOfFlight, Tensor, Padding
  <2>4. (FirstSequence /\ OnlyWhileRunning /\ PredictionNamesItsWindows /\ SingleFlight
         /\ FirstTrialUnpadded)'
    BY <2>1 DEF PipelineInv, FirstSequence, OnlyWhileRunning, PredictionNamesItsWindows, SingleFlight,
                FirstTrialUnpadded, Padding, NoWindow, Request
  <2> QED
    BY <2>2, <2>3, <2>4 DEF PipelineInv
<1> QED
  BY <1>1, <1>2, <1>3, <1>4, ResetTrialKeepsInv, WorkerHandlesKeepsInv, MainReceivesKeepsInv,
     StopKeepsInv DEF Next
-----------------------------------------------------------------------------
(* The inductive invariant holds of every behaviour, fair or not.           *)
THEOREM PipelineInvariant == Spec => []PipelineInv
  BY InitPipelineInv, NextPipelineInv, PTL DEF Spec

(* The variables are always of their types, the bounds of the model         *)
(* included.                                                                *)
THEOREM PipelineTypeOK == Spec => []TypeOK
<1>1. PipelineInv => TypeOK
  <2> SUFFICES ASSUME PipelineInv PROVE TypeOK
    OBVIOUS
  <2>inv. Typed /\ Numbered /\ AcksCounted
    BY DEF PipelineInv
  <2>1. \A s \in Buffers : IsTensor(s)
    BY LenProperties DEF Buffers, IsTensor, RealWindows
  <2>2. \A s \in Seq(Windows) : Len(s) = SequenceLength => IsTensor(s)
    BY LenProperties, PipelineAssumption DEF IsTensor
  <2>3. /\ running \in BOOLEAN /\ trial \in 0..MaxResets /\ nextWindowId \in 0..MaxWindows
        /\ emitted \in 0..MaxWindows /\ requests \in 0..MaxRequests
    BY <2>inv, PipelineAssumption DEF Typed, MaxRequests
  <2>4. processedWindowCount \in 0..MaxWindows
    BY <2>inv, <2>3, PushesFinite, PipelineAssumption DEF AcksCounted
  <2>5. flight = NoFlight \/ (flight.n \in 1..requests /\ IsTensor(flight.named))
    BY <2>inv, <2>1 DEF Typed, Numbered, Flights
  <2>6. pending \in SUBSET [n: 1..requests, kind: Kinds]
    BY <2>inv DEF Typed, Numbered
  <2>7. \A c \in computing :
          c.n \in 1..requests /\ IsTensor(c.tensor) /\ Len(c.tensor) = SequenceLength
    BY <2>inv, <2>2 DEF Typed, Numbered, Computations
  <2>8. \A k \in DOMAIN toWorker : toWorker[k].n \in 1..requests /\ toWorker[k].kind \in Kinds
    <3>1. DOMAIN toWorker = 1..Len(toWorker) /\ \A k \in 1..Len(toWorker) : toWorker[k] \in ToWorker
      BY <2>inv, LenProperties DEF Typed
    <3> QED
      BY <3>1, <2>inv DEF Numbered, ToWorker
  <2>9. \A k \in DOMAIN toMain : toMain[k].n \in 1..requests /\ toMain[k].kind \in Kinds
    <3>1. DOMAIN toMain = 1..Len(toMain) /\ \A k \in 1..Len(toMain) : toMain[k] \in ToMain
      BY <2>inv, LenProperties DEF Typed
    <3> QED
      BY <3>1, <2>inv DEF Numbered, ToMain
  <2> QED
    BY <2>inv, <2>1, <2>3, <2>4, <2>5, <2>6, <2>7, <2>8, <2>9 DEF TypeOK, Typed
<1> QED
  BY <1>1, PipelineInvariant, PTL

(* A prediction names exactly the windows its tensor was computed from,     *)
(* whatever was emitted, reset, answered late or timed out in between.      *)
THEOREM PredictionsNameTheirWindows == Spec => []PredictionNamesItsWindows
<1>1. PipelineInv => PredictionNamesItsWindows
  BY DEF PipelineInv
<1> QED
  BY <1>1, PipelineInvariant, PTL

(* The runtime is evaluating exactly while one EVALUATE request of its is   *)
(* outstanding.                                                             *)
THEOREM EvaluationsNeverOverlap == Spec => []SingleFlight
<1>1. PipelineInv => SingleFlight
  BY DEF PipelineInv
<1> QED
  BY <1>1, PipelineInvariant, PTL

(* Before the first reset no evaluation is fed a padded sequence.           *)
THEOREM FirstTrialNeverPadded == Spec => []FirstTrialUnpadded
<1>1. PipelineInv => FirstTrialUnpadded
  BY DEF PipelineInv
<1> QED
  BY <1>1, PipelineInvariant, PTL
=============================================================================
