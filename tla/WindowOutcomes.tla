---------------------------- MODULE WindowOutcomes ----------------------------
(***************************************************************************)
(* From behaviour events to labelled windows: the rolling window buffer    *)
(* (src/src/microtensor/window.ts), the outcome deriver                    *)
(* (src/src/outcome/derive.ts), their driver (src/src/runtime/             *)
(* adaptiveRuntime.ts: the tick loop, handleBehaviourEvent, handleWindow,  *)
(* flushPendingOutcomes, settleOutcome, resetTrial, stop) and the trace    *)
(* they are recorded into, across the trial boundaries of                  *)
(* src/src/runtime/boot.ts.                                                *)
(*                                                                         *)
(* An event is its timestamp, its number of arrival and what its label     *)
(* depends on, its kind. Timestamps are                                    *)
(* taken from the trace clock when the event is recorded; the clock is     *)
(* anchored anew by every session, so it steps there when the system clock *)
(* was adjusted in the meantime. A buffer sorted by time, equal times in   *)
(* order of arrival, is a set of events. The feature vector and the        *)
(* diagnostic counters are left out, and emitInactiveWindows is TRUE.      *)
(***************************************************************************)
EXTENDS Integers, TraceVerifier, Enumeration

CONSTANTS
  Stride,          \* the length of a slot of the grid
  Settlement,      \* settlementDelayMs: how long a slot is held open
  MinEvents,       \* minEventsPerWindow
  Retention,       \* maxRetentionMs of the window buffer
  Capacity,        \* maxEventCapacity of the window buffer
  LookaheadMin, LookaheadMax,  \* the outcome horizon after a window's end
  Grace,           \* pendingOutcomeGraceMs
  DeriverRetention, MaxBuffered,  \* retentionMs and maxBufferedEvents of the deriver
  RapidScrollMin, HoverDwellMin,  \* events of a horizon that make a scroll rapid, a hover a dwell
  Tolerance,       \* SETTLEMENT_TOLERANCE_MS, of the orphan check
  TieTolerance,    \* events no further apart compete by priority
  KindsAt,         \* bound: the kinds the n-th event may have
  NoGrid,          \* lastWindowEnd = null
  ClockSteps,      \* bound: what a new session may add to the clock
  MaxTime, MaxEvents, MaxSessions, MaxLives  \* bounds of the model

(* What deriveOutcomeForWindow() tells apart: a click or mousedown on       *)
(* something like a form or button (isFormSubmitTarget) or elsewhere, a     *)
(* page left or gone back to (blur, popstate, hashchange), a page closed    *)
(* (beforeunload, pagehide, unload), scroll or wheel, mouseover, the rest.  *)
Kinds == {"submit", "click", "navigation", "lifecycle", "scroll", "mouseover", "other"}

ASSUME WindowAssumption ==
  /\ Stride \in Nat \ {0} /\ Settlement \in Nat /\ MinEvents \in Nat \ {0}
  /\ Retention \in Nat /\ Capacity \in Nat \ {0}
  /\ LookaheadMin \in Nat /\ LookaheadMax \in Nat /\ LookaheadMin <= LookaheadMax
  /\ Grace \in Nat /\ DeriverRetention \in Nat /\ MaxBuffered \in Nat \ {0}
  /\ RapidScrollMin \in Nat \ {0} /\ HoverDwellMin \in Nat \ {0} /\ TieTolerance \in Nat /\ Tolerance \in Nat
  /\ KindsAt \in [0..(MaxEvents - 1) -> SUBSET Kinds]
  /\ ClockSteps \subseteq Int /\ NoGrid \notin Int
  /\ {MaxTime, MaxEvents, MaxSessions, MaxLives} \subseteq Nat

VARIABLES
  now, running, session,
  life,            \* counts the clears of the pipeline: windows of one life share a grid
  arrived,         \* number of events recorded so far
  events,          \* RollingWindowBuffer.events
  lastWindowEnd, windowIdCounter,
  buffer,          \* OutcomeDeriver.buffer
  pendingOutcomeWindows, coveredThrough, streamEnded,
  microTensors, outcomes,  \* the recorder's, in the order recorded
  heard,           \* the events of this life
  shifted,         \* those the capacity of the window buffer pushed out
  dropped          \* those the capacity of the deriver's buffer pushed out

vars == <<now, running, session, life, arrived, events, lastWindowEnd, windowIdCounter, buffer,
          pendingOutcomeWindows, coveredThrough, streamEnded, microTensors, outcomes,
          heard, shifted, dropped>>
pipeline == <<events, lastWindowEnd, windowIdCounter, buffer, pendingOutcomeWindows,
              coveredThrough, streamEnded, heard, shifted, dropped, life>>
trace == <<microTensors, outcomes>>

Event == [t: Int, n: Nat, kind: Kinds]
IsWindow(w) == w.life \in 0..life /\ w.id \in Nat /\ w.start \in Int /\ w.events \subseteq Event

TypeOK ==
  /\ now \in Int /\ running \in BOOLEAN /\ session \in Nat /\ life \in 0..MaxLives
  /\ arrived \in 0..MaxEvents
  /\ events \subseteq Event /\ Cardinality(events) <= Capacity
  /\ buffer \subseteq heard /\ Cardinality(buffer) <= MaxBuffered
  /\ events \subseteq heard /\ heard \subseteq Event
  /\ lastWindowEnd = NoGrid \/ lastWindowEnd \in Int
  /\ windowIdCounter \in Nat
  /\ \A k \in DOMAIN pendingOutcomeWindows :
       IsWindow(pendingOutcomeWindows[k]) /\ pendingOutcomeWindows[k].life = life
  /\ \A k \in DOMAIN microTensors : IsWindow(microTensors[k])
  /\ coveredThrough \in Int /\ streamEnded \in BOOLEAN
-----------------------------------------------------------------------------
(* The oldest event of a non-empty buffer. *)
Before(e, f) == e.t < f.t \/ (e.t = f.t /\ e.n < f.n)
Oldest(s) == CHOOSE e \in s : \A f \in s \ {e} : Before(e, f)

(* RollingWindowBuffer.push(): over the capacity, the oldest event goes; in *)
(* a mutant none does.                                                      *)
NoOverflow(s) == {}
Overflow(s) == IF Cardinality(s) > Capacity THEN {Oldest(s)} ELSE {}

(* RollingWindowBuffer.evictOlderThan(), on a sorted buffer.                *)
EvictedAhead(s, start) == {e \in s : e.t >= start + Retention}  \* a mutant: the wrong sign
Evicted(s, start) == {e \in s : e.t >= start - Retention}

(* A slot is half-open; a mutant closes it at both ends.                    *)
InClosedSlot(e, start) == e.t >= start /\ e.t <= start + Stride
InSlot(e, start) == e.t >= start /\ e.t < start + Stride

(* advanceOneWindow(): a sparse slot is skipped, an empty one is a window   *)
(* of inactivity. The events of slot k are those not yet evicted, since     *)
(* what the slots before it evict is older than its start.                  *)
SlotEvents(s, start) == {e \in s : InSlot(e, start)}
Emits(s, start) ==
  \/ SlotEvents(s, start) = {}
  \/ Cardinality(SlotEvents(s, start)) >= MinEvents

(* tick(): the slots that are due, oldest first, and the windows they give. *)
DueSlots(grid) ==
  IF now - grid < Stride + Settlement THEN 0 ELSE (now - grid - Settlement) \div Stride
SlotStart(grid, slot) == grid + (slot - 1) * Stride
WindowsOf(s, grid) ==
  LET emitting == Ordered({slot \in 1..DueSlots(grid) : Emits(s, SlotStart(grid, slot))})
  IN  [k \in DOMAIN emitting |->
         [life |-> life, id |-> windowIdCounter + k - 1, start |-> SlotStart(grid, emitting[k]),
          events |-> SlotEvents(s, SlotStart(grid, emitting[k]))]]
-----------------------------------------------------------------------------
End(w) == w.start + Stride
Horizon(s, w) == {e \in s : e.t >= End(w) + LookaheadMin /\ e.t <= End(w) + LookaheadMax}

(* The class an event of a horizon stands for. Scrolls and hovers count, and*)
(* the one that completes the number stands for them all.                   *)
PriorityHierarchy ==
  <<"FORM_SUBMIT", "CLICK", "BACKTRACK", "RAPID_SCROLL", "HOVER_DWELL", "ABANDON", "NO_OUTCOME">>
PriorityRank(class) == Len(PriorityHierarchy) - CHOOSE k \in DOMAIN PriorityHierarchy :
                                                  PriorityHierarchy[k] = class
ClassOf(kind, seen) ==
  CASE kind = "submit" -> "FORM_SUBMIT"
    [] kind = "click" -> "CLICK"
    [] kind = "lifecycle" -> "ABANDON"
    [] kind = "navigation" -> "BACKTRACK"
    [] kind = "scroll" /\ seen = RapidScrollMin -> "RAPID_SCROLL"
    [] kind = "mouseover" /\ seen = HoverDwellMin -> "HOVER_DWELL"
    [] OTHER -> "NO_OUTCOME"

(* The events of a horizon in the order of their time, and the candidates   *)
(* among them: a scroll or hover counts those of its kind so far.           *)
InTime(horizon) ==
  [k \in 1..Cardinality(horizon) |->
     CHOOSE e \in horizon : Cardinality({f \in horizon : ~Before(e, f)}) = k]
Seen(sorted, k) == Cardinality({j \in 1..k : sorted[j].kind = sorted[k].kind})
CandidatesOf(horizon) ==
  LET sorted == InTime(horizon)
      ClassAt(k) == ClassOf(sorted[k].kind, Seen(sorted, k))
      found == Ordered({k \in DOMAIN sorted : ClassAt(k) # "NO_OUTCOME"})
  IN  [i \in DOMAIN found |-> [class |-> ClassAt(found[i]), t |-> sorted[found[i]].t]]

(* The earliest candidate wins, and of those tied with it the first in the  *)
(* hierarchy; in a mutant the hierarchy comes before time. Without a        *)
(* candidate a stream that ended before the horizon and left nothing in it  *)
(* was abandoned.                                                           *)
FirstInHierarchy(candidates) == Range(candidates)
Tied(candidates) ==
  {c \in Range(candidates) : c.t - Head(candidates).t <= TieTolerance}
OutcomeClass(horizon, terminated) ==
  LET candidates == CandidatesOf(horizon)
  IN  IF candidates = << >>
      THEN IF terminated /\ horizon = {} THEN "ABANDON" ELSE "NO_OUTCOME"
      ELSE (CHOOSE c \in Tied(candidates) :
              \A d \in Tied(candidates) : PriorityRank(d.class) <= PriorityRank(c.class)).class

(* OutcomeDeriver.push(): over its limit, the event pushed first goes,      *)
(* whatever horizon it is in.                                               *)
Dropped(s) == {e \in s : Cardinality(s) > MaxBuffered /\ \A f \in s : e.n <= f.n}

(* OutcomeDeriver.evictOlderThan(): the buffer is in order of arrival and   *)
(* only its prefix of old events goes.                                      *)
KeptFrom(s, cutoff) == {e \in s : \E f \in s : f.n <= e.n /\ f.t >= cutoff}
KeptAfter(s, w) == KeptFrom(s, End(w) + LookaheadMin - DeriverRetention)

(* flushPendingOutcomes(): the windows that are settled now. The mutant     *)
(* waits for the horizon of a quiet stream for ever.                        *)
SettlesOnlyCovered(w, covered, ended) == ended \/ covered >= End(w) + LookaheadMax
Settles(w, covered, ended) ==
  \/ ended
  \/ covered >= End(w) + LookaheadMax
  \/ now - (End(w) + LookaheadMax) >= Grace

(* What the loop still holds pending; a mutant keeps what it settled.       *)
AllPending(pending, covered, ended) == pending
StillPending(pending, covered, ended) ==
  Filtered(pending, {w \in Range(pending) : ~Settles(w, covered, ended)})
SettledNow(pending, covered, ended) ==
  Filtered(pending, {w \in Range(pending) : Settles(w, covered, ended)})

(* settleOutcome() of one window after another, in their order: a label is  *)
(* derived from what the settlements before it left in the buffer. Each of  *)
(* them evicts a prefix, so they leave what every one of them would.        *)
LeftBy(s, done) == {e \in s : \A w \in done : e \in KeptAfter(s, w)}
Outcome(w, s, covered) ==
  LET complete == covered >= End(w) + LookaheadMax
      terminated == streamEnded' /\ ~complete
  IN  [life |-> w.life, id |-> w.id, complete |-> complete, terminated |-> terminated,
       outcome |-> OutcomeClass(Horizon(s, w), terminated), knew |-> Horizon(heard' \ dropped', w)]
OutcomesOf(settled, s, covered) ==
  [k \in DOMAIN settled |->
     Outcome(settled[k], LeftBy(s, {settled[j] : j \in 1..(k - 1)}), covered)]

(* The flush, with the deriver buffer and the pending windows given. Each   *)
(* emitted window flushes as well; the same windows settle in that order.   *)
Flush(s, pending, covered, ended) ==
  LET settled == SettledNow(pending, covered, ended)
  IN
  /\ buffer' = LeftBy(s, Range(settled))
  /\ outcomes' = outcomes \o OutcomesOf(settled, s, covered)
  /\ pendingOutcomeWindows' = StillPending(pending, covered, ended)
-----------------------------------------------------------------------------
Fresh ==
  /\ events = {} /\ lastWindowEnd = NoGrid /\ windowIdCounter = 0
  /\ buffer = {} /\ pendingOutcomeWindows = << >> /\ coveredThrough = 0 /\ streamEnded = FALSE
  /\ heard = {} /\ shifted = {} /\ dropped = {}

Init ==
  /\ now = 0 /\ running = TRUE /\ session = 0 /\ life = 0 /\ arrived = 0
  /\ Fresh
  /\ microTensors = << >> /\ outcomes = << >>

Advance ==
  /\ now < MaxTime
  /\ now' = now + 1
  /\ UNCHANGED <<running, session, arrived, pipeline, trace>>

(* handleBehaviourEvent(). The first event anchors the grid. A lifecycle    *)
(* event ends the stream (pagehide, beforeunload, unload): the page may well*)
(* live on.                                                                 *)
Hear(kind) ==
  LET e == [t |-> now, n |-> arrived, kind |-> kind]
      more == events \cup {e}
      pushed == buffer \cup {e}
      covered == IF now > coveredThrough THEN now ELSE coveredThrough
      ended == streamEnded \/ kind = "lifecycle"
  IN
  /\ running /\ arrived < MaxEvents
  /\ arrived' = arrived + 1
  /\ heard' = heard \cup {e}
  /\ shifted' = shifted \cup Overflow(more)
  /\ dropped' = dropped \cup Dropped(pushed)
  /\ lastWindowEnd' = IF lastWindowEnd = NoGrid THEN now ELSE lastWindowEnd
  /\ events' = IF lastWindowEnd = NoGrid THEN Evicted(more \ Overflow(more), now)
               ELSE more \ Overflow(more)
  /\ coveredThrough' = covered /\ streamEnded' = ended
  /\ Flush(pushed \ Dropped(pushed), pendingOutcomeWindows, covered, ended)
  /\ UNCHANGED <<now, running, session, life, windowIdCounter, microTensors>>

(* The interval of startTickLoop(): tick(), then the flush. Without a grid  *)
(* the tick only anchors it.                                                *)
Tick ==
  LET anchored == lastWindowEnd # NoGrid
      grid == IF anchored THEN lastWindowEnd ELSE now
      emitted == WindowsOf(events, grid)
      due == DueSlots(grid)
  IN
  /\ running
  /\ lastWindowEnd' = grid + due * Stride
  /\ windowIdCounter' = windowIdCounter + Len(emitted)
  /\ events' = IF ~anchored THEN Evicted(events, now)
               ELSE IF due = 0 THEN events ELSE Evicted(events, grid + (due - 1) * Stride)
  /\ microTensors' = microTensors \o emitted
  /\ UNCHANGED <<now, running, session, life, arrived, coveredThrough, streamEnded, heard,
                 shifted, dropped>>
  /\ Flush(buffer, pendingOutcomeWindows \o emitted, coveredThrough, streamEnded)

(* resetTrial(): the pipeline is cleared, the recorder is not.              *)
Clear ==
  /\ life' = life + 1
  /\ events' = {} /\ lastWindowEnd' = NoGrid /\ windowIdCounter' = 0
  /\ buffer' = {} /\ pendingOutcomeWindows' = << >> /\ coveredThrough' = 0
  /\ heard' = {} /\ shifted' = {} /\ dropped' = {}

ResetTrial ==
  /\ running /\ life < MaxLives
  /\ Clear
  /\ streamEnded' = FALSE
  /\ UNCHANGED <<now, running, session, arrived, trace>>

(* closeTrial(), once the trace is stored: a new session, a new anchor for  *)
(* the clock, an empty recorder. The pipeline goes on.                      *)
RotateSession(step) ==
  /\ session < MaxSessions /\ now + step \in 0..MaxTime
  /\ session' = session + 1
  /\ now' = now + step
  /\ microTensors' = << >> /\ outcomes' = << >>
  /\ UNCHANGED <<running, arrived, pipeline>>

(* stop(): the window buffer is cleared first, then what is pending is      *)
(* settled as a stream that has ended.                                      *)
StopTestbed ==
  /\ running
  /\ running' = FALSE
  /\ events' = {} /\ lastWindowEnd' = NoGrid /\ windowIdCounter' = 0
  /\ streamEnded' = TRUE
  /\ UNCHANGED <<heard, dropped>>
  /\ outcomes' = outcomes \o OutcomesOf(pendingOutcomeWindows, buffer, coveredThrough)
  /\ buffer' = {} /\ pendingOutcomeWindows' = << >> /\ coveredThrough' = 0
  /\ UNCHANGED <<now, session, life, arrived, microTensors, shifted>>

(* bootTestbed(): a new runtime for the session that is active, and an      *)
(* empty recorder.                                                          *)
BootTestbed ==
  /\ ~running /\ life < MaxLives
  /\ running' = TRUE
  /\ Clear
  /\ streamEnded' = FALSE
  /\ microTensors' = << >> /\ outcomes' = << >>
  /\ UNCHANGED <<now, session, arrived>>

Next ==
  \/ Advance
  \/ /\ arrived < MaxEvents
     /\ \E kind \in KindsAt[arrived] : Hear(kind)
  \/ Tick
  \/ ResetTrial
  \/ \E step \in ClockSteps : RotateSession(step)
  \/ StopTestbed
  \/ BootTestbed

Spec == Init /\ [][Next]_vars
-----------------------------------------------------------------------------
(* The half-open slots count an event in one window at most, also after the *)
(* clock stepped back into slots that are closed or forth over several      *)
(* (advanceOneWindow; windowing contract, F-02).                            *)
EventsCountedOnce ==
  \A j, k \in DOMAIN microTensors : j # k => microTensors[j].events \cap microTensors[k].events = {}

(* What has been heard and belongs to a slot that is still to be processed  *)
(* is there when the slot is: neither the retention nor the anchoring loses *)
(* it, only the capacity does (push, evictOlderThan).                       *)
OpenSlotsKeepTheirEvents ==
  running /\ lastWindowEnd # NoGrid =>
    \A e \in heard \ shifted : e.t >= lastWindowEnd => e \in events

(* Windows are labelled in the order they were emitted and once each, and   *)
(* a window of this life without an outcome is still pending: no rotation,  *)
(* late flush or end of stream labels one twice or forgets it               *)
(* (flushPendingOutcomes, settleOutcome, stop).                             *)
LabelOf(w, o) == o.life = w.life /\ o.id = w.id
WindowsLabelledOnce ==
  /\ \A j, k \in DOMAIN outcomes : j < k =>
       \/ outcomes[j].life < outcomes[k].life
       \/ outcomes[j].life = outcomes[k].life /\ outcomes[j].id < outcomes[k].id
  /\ \A k \in DOMAIN microTensors :
       LET w == microTensors[k]
           labelled == \E j \in DOMAIN outcomes : LabelOf(w, outcomes[j])
           waiting == \E j \in DOMAIN pendingOutcomeWindows : pendingOutcomeWindows[j] = w
       IN  w.life = life => (labelled <=> ~waiting)

(* The label an event of a horizon calls for: its place among the events of *)
(* its kind makes a scroll rapid and a hover a dwell.                       *)
Place(e, horizon) == Cardinality({f \in horizon : f.kind = e.kind /\ ~Before(e, f)})
CallsFor(e, horizon) == ClassOf(e.kind, Place(e, horizon))
Calling(horizon) == {e \in horizon : CallsFor(e, horizon) # "NO_OUTCOME"}

(* The label of a window is called for by the events of its horizon heard   *)
(* until then: by an event than which no earlier calls for one and none at  *)
(* its time for one of a higher priority. Only an event that                *)
(* maxBufferedEvents pushed out of the deriver does not count, and nothing  *)
(* says so of the label; what its retention evicts is never missed. A       *)
(* window is abandoned without a lifecycle event only if the stream ended   *)
(* short of its horizon and nothing in it was heard (push, deriveForWindow, *)
(* deriveOutcomeForWindow, evictOlderThan, settleOutcome).                  *)
Justified(o) ==
  LET first == {e \in Calling(o.knew) : \A f \in Calling(o.knew) : e.t <= f.t + TieTolerance}
      called == {CallsFor(e, o.knew) : e \in first}
  IN  IF called = {}
      THEN o.outcome = IF o.knew = {} /\ o.terminated THEN "ABANDON" ELSE "NO_OUTCOME"
      ELSE o.outcome \in {c \in called : \A d \in called : PriorityRank(d) <= PriorityRank(c)}
LabelsAreJustified == \A k \in DOMAIN outcomes : Justified(outcomes[k])

(* The orphans of a trace, with the allowance the recorder and the verifier *)
(* give.                                                                    *)
Orphaned(windows, labels) ==
  FindOrphanedWindows(Range(windows), {o.id : o \in Range(labels)},
                      LookaheadMax + Grace + Tolerance)

(* By the verifier's definition no window of this life is an orphan: a quiet*)
(* stream, an end of the stream or a stepped clock never leaves a window    *)
(* unlabelled beyond its settlement allowance (findOrphanedWindows,         *)
(* flushPendingOutcomes).                                                   *)
NoOrphanedWindows ==
  \A w \in Orphaned(microTensors, outcomes) : w.life # life

(* What events.ts says of windowId, "a monotonically increasing per-session *)
(* correlation identifier": in the trace of a session no two windows share  *)
(* one. resetTrial() restarts the ids and leaves the recorder as it is.     *)
WindowIdsPerSession ==
  \A j, k \in DOMAIN microTensors : j < k => microTensors[j].id < microTensors[k].id
=============================================================================
