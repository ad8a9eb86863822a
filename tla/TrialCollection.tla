--------------------------- MODULE TrialCollection ---------------------------
(***************************************************************************)
(* How a finished trial becomes a stored research record (runtime/boot.ts,  *)
(* telemetry/collection.ts, localStore.ts, collectionClient.ts, with the    *)
(* session and recorder singletons they share).                             *)
(*                                                                          *)
(* When a task completes or is abandoned the testbed calls closeTrial(),    *)
(* an asynchronous function nobody awaits: it snapshots the trace, writes   *)
(* it to IndexedDB, uploads it, and only then rotates to a fresh session    *)
(* and empties the recorder.  Meanwhile the participant goes on using the   *)
(* page.  Each ended trial is thus a process of its own, numbered like the  *)
(* trial, and process Boot is the one that registers the session when the   *)
(* page loads; a step of a process is the code between two awaits.          *)
(*                                                                          *)
(* IndexedDB serves the requests on one store in the order they are made,   *)
(* so a request takes effect in the step that makes it.  A read whose       *)
(* answer cannot change what follows is folded into the write after it.     *)
(* A POST reaches the server or not, and its answer arrives or not (10 s    *)
(* abort, network failure).  A reload ends every process.                   *)
(*                                                                          *)
(* A request on IndexedDB may be rejected (localStore.ts:117, :133), and a  *)
(* rejected one changes nothing.  No process catches it: whichever awaits   *)
(* the request ends there, without the steps that were to follow.           *)
(***************************************************************************)
EXTENDS Naturals, Sequences, FiniteSets

CONSTANTS MaxTrials,    \* bound on the tasks started
          MaxReloads,   \* bound on page reloads
          MaxSwitches,  \* bound on condition switches
          MaxRejections \* bound on rejected requests

ASSUME BoundsAssumption ==
  /\ MaxTrials \in Nat /\ MaxReloads \in Nat
  /\ MaxSwitches \in Nat /\ MaxRejections \in Nat

VARIABLES
  build,      \* what this deployment has: a durable store, a permitted upload target
  running,    \* whether the current task is In Progress
  trial,      \* the number of the current (last started) task, 0 before the first
  session,    \* the active session, which is also the one the recorder is bound to
  issued,     \* how many session ids have been generated
  trace,      \* the recorder's task events
  listeners,  \* the task lifecycle listeners, in the order they subscribed
  flushing,   \* whether the periodic write-ahead has been started
  pc, own, snap, seen, found,   \* the processes: see ProcTypeOK
  status,     \* IndexedDB "sessions": the status of each record
  stored,     \* IndexedDB "traces": the trace stored for each session
  rows,       \* research_sessions: the session ids it holds
  remote,     \* research_traces: the trace it holds for each session
  reloads, switches, rejections,
  cutShort,   \* history: the sessions a closing of which a rejection ended before it rotated
  patient     \* history: no task was started over another one, or before the page had
              \* booted and every earlier trial was closed, and no condition was switched

page   == <<running, trial, session, issued, trace, listeners, flushing>>
procs  == <<pc, own, snap, seen, found>>
local  == <<status, stored>>
server == <<rows, remote>>
bounds == <<reloads, switches, patient>>
faults == <<rejections, cutShort>>
vars   == <<build, page, procs, local, server, bounds, faults>>

Boot     == 0
Trials   == 1..MaxTrials
Procs    == Trials \cup {Boot}
Sessions == 1..(1 + MaxTrials + MaxReloads)
Records  == Trials \X {"start", "end"}
Settled  == {"kept", "failed", "uploaded"}   \* completeSession() has returned this state
NoTrace  == {<<0, "none">>}              \* no trace under that key
Traces   == (SUBSET Records) \cup {NoTrace}

Statuses == {"none", "in_progress", "completed", "uploaded", "upload_failed", "incomplete"}
Stages   == {"idle", "starting", "saved", "completing", "gate", "record", "row", "trace",
             "failing", "storing", "kept", "failed", "uploaded", "found", "begin", "register"}

Record(t, kind) == trace \cup {<<t, kind>>}
Fresh == issued + 1

(* The local store. saveTrace replaces the snapshot of before. The mark*    *)
(* operations write back the record they read, and nothing when there was   *)
(* none; a write whose read no other step can come between reads here.      *)
SaveTrace(s, snapshot) == stored' = [stored EXCEPT ![s] = snapshot]
GetSession(p) == seen' = [seen EXCEPT ![p] = status[own[p]]]
Put(s, value) == status' = [status EXCEPT ![s] = value]
Mark(s, record, value) == IF record = "none" THEN UNCHANGED status ELSE Put(s, value)
-----------------------------------------------------------------------------
(* A page load: boot starts the runtime, then registers the session.        *)

\* What the processes in S have read goes with them.
Forget(S) ==
  /\ snap' = [p \in Procs |-> IF p \in S THEN {} ELSE snap[p]]
  /\ seen' = [p \in Procs |-> IF p \in S THEN "none" ELSE seen[p]]
  /\ found' = [p \in Procs |-> IF p \in S THEN 0 ELSE found[p]]

PageLoaded(s) ==
  /\ running' = FALSE
  /\ session' = s
  /\ issued' = s
  /\ trace' = {}
  /\ listeners' = << >> /\ flushing' = FALSE
  /\ pc' = [p \in Procs |-> IF p = Boot THEN "starting" ELSE "idle"]
  /\ own' = [p \in Procs |-> IF p = Boot THEN s ELSE 0]
  /\ Forget(Procs)

Init ==
  /\ build \in [durable: BOOLEAN, uploads: BOOLEAN]
  /\ running = FALSE /\ trial = 0
  /\ session = 1 /\ issued = 1
  /\ trace = {} /\ listeners = << >> /\ flushing = FALSE
  /\ pc = [p \in Procs |-> IF p = Boot THEN "starting" ELSE "idle"]
  /\ own = [p \in Procs |-> IF p = Boot THEN 1 ELSE 0]
  /\ snap = [p \in Procs |-> {}]
  /\ seen = [p \in Procs |-> "none"]
  /\ found = [p \in Procs |-> 0]
  /\ status = [s \in Sessions |-> "none"]
  /\ stored = [s \in Sessions |-> NoTrace]
  /\ rows = {} /\ remote = [s \in Sessions |-> NoTrace]
  /\ reloads = 0 /\ switches = 0 /\ patient = TRUE
  /\ rejections = 0 /\ cutShort = {}

\* The session findRecoverableSession() may return: the most recently updated
\* of those in progress, whichever that is, or 0 for null.
Recoverable ==
  LET open == {s \in Sessions : build.durable /\ status[s] = "in_progress"}
  IN  IF open = {} THEN {0} ELSE open

\* The runtime is up; its lifecycle listener records from here on, and
\* beginSession() starts looking for a session left open.
RuntimeUp ==
  /\ pc[Boot] = "starting"
  /\ listeners' = Append(listeners, "record")
  /\ pc' = [pc EXCEPT ![Boot] = "found"]
  /\ \E s \in Recoverable : found' = [found EXCEPT ![Boot] = s]
  /\ UNCHANGED <<build, running, trial, session, issued, trace, flushing, own, snap, seen,
                 local, server, bounds, faults>>

Reload ==
  /\ reloads < MaxReloads
  /\ reloads' = reloads + 1
  /\ PageLoaded(Fresh)
  /\ UNCHANGED <<build, trial, local, server, switches, patient, faults>>
-----------------------------------------------------------------------------
(* The participant.                                                         *)

AtRest == \A p \in Procs : pc[p] = "idle"

\* startTask replaces whatever task was running without ending it.
StartTask ==
  /\ trial < MaxTrials
  /\ trial' = trial + 1
  /\ running' = TRUE
  /\ trace' = IF "record" \in {listeners[i] : i \in DOMAIN listeners}
              THEN Record(trial', "start") ELSE trace
  /\ patient' = (patient /\ ~running /\ AtRest)
  /\ UNCHANGED <<build, session, issued, listeners, flushing, procs, local, server,
                 reloads, switches, faults>>

\* The trace as the i-th listener finds it: the listeners before it have run.
TraceAt(i) ==
  IF \E j \in 1..(i - 1) : listeners[j] = "record" THEN Record(trial, "end") ELSE trace

\* The bug a mutant looks for: the snapshot is uploaded without being saved first.
BeginCloseUnsaved(i) ==
  /\ own' = [own EXCEPT ![trial] = session]
  /\ snap' = [snap EXCEPT ![trial] = TraceAt(i)]
  /\ pc' = [pc EXCEPT ![trial] = IF build.durable THEN "saved" ELSE "gate"]
  /\ UNCHANGED <<stored, faults>>

\* closeTrial() up to its first await, called by the i-th listener.
BeginClose(i) ==
  /\ own' = [own EXCEPT ![trial] = session]
  /\ snap' = [snap EXCEPT ![trial] = TraceAt(i)]
  /\ IF build.durable
     THEN /\ SaveTrace(session, TraceAt(i))
          /\ pc' = [pc EXCEPT ![trial] = "saved"]
     ELSE /\ pc' = [pc EXCEPT ![trial] = "gate"]
          /\ UNCHANGED stored
  /\ UNCHANGED faults

\* A request of a closing of session s, if any in S, is rejected.
Rejection(S) ==
  /\ build.durable /\ rejections < MaxRejections
  /\ rejections' = rejections + 1
  /\ cutShort' = cutShort \cup S

\* closeTrial() whose first request, saveTrace, is rejected: nothing follows.
SaveRejected == Rejection({session}) /\ UNCHANGED <<own, snap, pc, stored>>

\* The bug a mutant looks for: a task that already ended ends again.
EndTaskAgain ==
  /\ trial > 0
  /\ running' = FALSE
  /\ trace' = TraceAt(Len(listeners) + 1)
  /\ IF \E i \in DOMAIN listeners : listeners[i] = "close"
     THEN \/ \E i \in DOMAIN listeners : listeners[i] = "close" /\ BeginClose(i)
          \/ SaveRejected
     ELSE UNCHANGED <<own, snap, pc, stored, faults>>
  /\ UNCHANGED <<build, trial, session, issued, listeners, flushing, seen, found, status,
                 server, bounds>>

\* task_complete or task_abandon, delivered to the listeners in their order.
EndTask ==
  /\ running
  /\ running' = FALSE
  /\ trace' = TraceAt(Len(listeners) + 1)
  /\ IF \E i \in DOMAIN listeners : listeners[i] = "close"
     THEN \/ \E i \in DOMAIN listeners : listeners[i] = "close" /\ BeginClose(i)
          \/ SaveRejected
     ELSE UNCHANGED <<own, snap, pc, stored, faults>>
  /\ UNCHANGED <<build, trial, session, issued, listeners, flushing, seen, found, status,
                 server, bounds>>

\* bootTestbed for another condition: the old runtime stops, the recorder is
\* cleared, a new runtime subscribes.  The task, the session and the closer
\* stay; a closer the page-load boot did not come to subscribe now follows the
\* new runtime.  No lifecycle event can be emitted in between, because the
\* observer is stopped and the controls are disabled.  (During the page-load
\* boot they are not, but a switch that overlaps it is left out.)
SwitchCondition ==
  /\ switches < MaxSwitches
  /\ pc[Boot] = "idle"
  /\ switches' = switches + 1
  /\ trace' = {}
  /\ listeners' = IF \E i \in DOMAIN listeners : listeners[i] = "close"
                  THEN <<"close", "record">> ELSE <<"record", "close">>
  /\ patient' = FALSE
  /\ UNCHANGED <<build, running, trial, session, issued, flushing, procs, local, server,
                 reloads, faults>>

\* The periodic write-ahead, started once boot has registered the session; it
\* catches the rejection of its request, which then leaves everything as it was.
FlushLocal ==
  /\ build.durable /\ flushing
  /\ stored[session] # trace
  /\ SaveTrace(session, trace)
  /\ UNCHANGED <<build, page, procs, status, server, bounds, faults>>
-----------------------------------------------------------------------------
(* The steps of one closeTrial().                                           *)

Goto(p, stage) == pc' = [pc EXCEPT ![p] = stage]

\* markCompleted reads the record ...
ReadRecord(p) ==
  /\ pc[p] = "saved"
  /\ GetSession(p)
  /\ Goto(p, "completing")
  /\ UNCHANGED <<build, page, own, snap, found, local, server, bounds, faults>>

\* ... and writes it back completed, unless there was none.
MarkCompleted(p) ==
  /\ pc[p] = "completing"
  /\ Mark(own[p], seen[p], "completed")
  /\ Goto(p, "gate")
  /\ UNCHANGED <<build, page, own, snap, seen, found, stored, server, bounds, faults>>

\* The provenance gate; an upload starts by reading the record.
Gate(p) ==
  /\ pc[p] = "gate"
  /\ IF build.uploads
     THEN /\ GetSession(p)
          /\ Goto(p, "record")
     ELSE /\ Goto(p, "kept")
          /\ UNCHANGED seen
  /\ UNCHANGED <<build, page, own, snap, found, local, server, bounds, faults>>

\* A missing record is created so that the upload is attributable.
AdoptRecord(p) ==
  /\ pc[p] = "record"
  /\ IF build.durable /\ seen[p] = "none" /\ status[own[p]] = "none"
     THEN Put(own[p], "in_progress") ELSE UNCHANGED status
  /\ Goto(p, "row")
  /\ UNCHANGED <<build, page, own, snap, seen, found, stored, server, bounds, faults>>

\* The bug a mutant looks for: any answer, or none, counts as stored.
OutcomeIgnored(p, ok, next) == Goto(p, next)

\* One POST: `reached` the server (409 if the key is there, which counts as
\* stored), `answered` in time.  A failure is reported and recorded.
Outcome(p, ok, next) == Goto(p, IF ok THEN next ELSE "failing")

InsertRow(p) ==
  /\ pc[p] = "row"
  /\ \E reached, answered \in BOOLEAN :
       /\ rows' = IF reached THEN rows \cup {own[p]} ELSE rows
       /\ Outcome(p, reached /\ answered, "trace")
  /\ UNCHANGED <<build, page, own, snap, seen, found, local, remote, bounds, faults>>

InsertTrace(p) ==
  /\ pc[p] = "trace"
  /\ \E reached, answered \in BOOLEAN :
       /\ remote' = IF reached /\ remote[own[p]] = NoTrace
                    THEN [remote EXCEPT ![own[p]] = snap[p]] ELSE remote
       /\ Outcome(p, reached /\ answered, "storing")
  /\ UNCHANGED <<build, page, own, snap, seen, found, local, rows, bounds, faults>>

MarkUploadFailed(p) ==
  /\ pc[p] = "failing"
  /\ Mark(own[p], status[own[p]], "upload_failed")
  /\ Goto(p, "failed")
  /\ UNCHANGED <<build, page, own, snap, seen, found, stored, server, bounds, faults>>

MarkUploaded(p) ==
  /\ pc[p] = "storing"
  /\ Mark(own[p], status[own[p]], "uploaded")
  /\ Goto(p, "uploaded")
  /\ UNCHANGED <<build, page, own, snap, seen, found, stored, server, bounds, faults>>

\* The bug a mutant looks for: the next trial keeps the uploaded session's id.
RotateNothing(p) ==
  /\ pc[p] \in Settled
  /\ trace' = {}
  /\ Goto(p, "found")
  /\ \E s \in Recoverable : found' = [found EXCEPT ![p] = s]
  /\ UNCHANGED <<build, running, trial, session, issued, listeners, flushing, own, snap, seen,
                 local, server, bounds, faults>>

\* The bug a mutant looks for: the recorder keeps the closed trial's events.
RotateWithoutClear(p) ==
  /\ pc[p] \in Settled
  /\ issued' = Fresh
  /\ session' = Fresh
  /\ Goto(p, "found")
  /\ \E s \in Recoverable : found' = [found EXCEPT ![p] = s]
  /\ own' = [own EXCEPT ![p] = Fresh]
  /\ UNCHANGED <<build, running, trial, trace, listeners, flushing, snap, seen, local, server,
                 bounds, faults>>

\* The trial is over: a fresh session is bound, the recorder is emptied, and
\* beginSession() looks for a session left open.
Rotate(p) ==
  /\ pc[p] \in Settled
  /\ issued' = Fresh
  /\ session' = Fresh
  /\ trace' = {}
  /\ Goto(p, "found")
  /\ \E s \in Recoverable : found' = [found EXCEPT ![p] = s]
  /\ own' = [own EXCEPT ![p] = Fresh]
  /\ UNCHANGED <<build, running, trial, listeners, flushing, snap, seen, local, server, bounds, faults>>

\* The bug a mutant looks for: a session left open is reported but never marked.
MarkNothing(p) ==
  /\ pc[p] = "found"
  /\ Goto(p, "begin")
  /\ UNCHANGED <<build, page, own, snap, seen, found, local, server, bounds, faults>>

\* A session found open that is not the one being begun is marked incomplete.
MarkIncomplete(p) ==
  /\ pc[p] = "found"
  /\ IF found[p] \notin {0, own[p]} THEN Mark(found[p], status[found[p]], "incomplete")
     ELSE UNCHANGED status
  /\ Goto(p, "begin")
  /\ UNCHANGED <<build, page, own, snap, seen, found, stored, server, bounds, faults>>

\* The session's own record: read, then written with the status it had.
ReadOwnRecord(p) ==
  /\ pc[p] = "begin"
  /\ GetSession(p)
  /\ Goto(p, "register")
  /\ UNCHANGED <<build, page, own, snap, found, local, server, bounds, faults>>

\* Boot then starts the write-ahead and subscribes the closer.
Register(p) ==
  /\ pc[p] = "register"
  /\ IF build.durable
     THEN Put(own[p], IF seen[p] = "none" THEN "in_progress" ELSE seen[p])
     ELSE UNCHANGED status
  /\ listeners' = IF p = Boot THEN Append(listeners, "close") ELSE listeners
  /\ flushing' = (flushing \/ p = Boot)
  /\ Goto(p, "idle")
  /\ own' = [own EXCEPT ![p] = 0]
  /\ Forget({p})
  /\ UNCHANGED <<build, running, trial, session, issued, trace, stored, server, bounds, faults>>

\* The stages of a closing before it rotates, and whether p awaits an answer of
\* the local store: where a mark or an adoption has a write to make, in an upload,
\* and after a failure, whose record is read again to report it.
Closing == {"saved", "completing", "gate", "record", "row", "trace", "failing", "storing"}
           \cup Settled
Awaiting(p) ==
  \/ pc[p] \in {"saved", "failing", "failed", "storing", "found", "begin", "register"}
  \/ pc[p] = "completing" /\ seen[p] # "none"
  \/ pc[p] = "gate" /\ build.uploads
  \/ pc[p] = "record" /\ seen[p] = "none"

\* The rejection leaves closeTrial(), or boot, where it awaited the request.
Reject(p) ==
  /\ Awaiting(p)
  /\ Rejection(IF pc[p] \in Closing THEN {own[p]} ELSE {})
  /\ Goto(p, "idle")
  /\ own' = [own EXCEPT ![p] = 0]
  /\ Forget({p})
  /\ UNCHANGED <<build, page, local, server, bounds>>

Step(p) ==
  \/ ReadRecord(p) \/ MarkCompleted(p) \/ Gate(p) \/ AdoptRecord(p)
  \/ InsertRow(p) \/ InsertTrace(p) \/ MarkUploadFailed(p) \/ MarkUploaded(p)
  \/ Rotate(p) \/ MarkIncomplete(p) \/ ReadOwnRecord(p) \/ Register(p)
  \/ Reject(p)

Next ==
  \/ RuntimeUp \/ Reload
  \/ StartTask \/ EndTask \/ SwitchCondition \/ FlushLocal
  \/ \E p \in Procs : Step(p)

Spec == Init /\ [][Next]_vars

-----------------------------------------------------------------------------
(* Properties.                                                              *)

ProcTypeOK ==
  /\ pc \in [Procs -> Stages]          \* where it stands, "idle" when there is none
  /\ own \in [Procs -> Sessions \cup {0}]  \* the session it closes, then the one it begins
  /\ snap \in [Procs -> SUBSET Records]\* the trace snapshot it uploads
  /\ seen \in [Procs -> Statuses]      \* the status it last read
  /\ found \in [Procs -> Sessions \cup {0}]  \* the open session it found

\* Every variable stays in its domain.
TypeOK ==
  /\ build \in [durable: BOOLEAN, uploads: BOOLEAN]
  /\ running \in BOOLEAN
  /\ trial \in 0..MaxTrials
  /\ session \in Sessions /\ issued \in Sessions
  /\ trace \subseteq Records
  /\ listeners \in Seq({"record", "close"}) /\ flushing \in BOOLEAN
  /\ ProcTypeOK
  /\ status \in [Sessions -> Statuses]
  /\ stored \in [Sessions -> Traces]
  /\ rows \subseteq Sessions
  /\ remote \in [Sessions -> Traces]
  /\ reloads \in 0..MaxReloads /\ switches \in 0..MaxSwitches /\ patient \in BOOLEAN
  /\ rejections \in 0..MaxRejections /\ cutShort \subseteq Sessions

\* Whatever the network, the races and the reloads do, a trace is in the local
\* store before it is on the server (collection.ts completeSession), and its
\* session row is on the server before the trace is (collection.ts upload).
StoredInOrder ==
  \A s \in Sessions : remote[s] # NoTrace =>
    /\ s \in rows
    /\ build.durable => stored[s] # NoTrace

\* A session the local store calls uploaded has its trace on the server: no
\* read-modify-write race between two closings can claim more than was sent.
UploadedMeansStored ==
  \A s \in Sessions : status[s] = "uploaded" => remote[s] # NoTrace

\* Once every closing has ended, the active session has nothing on the server:
\* the next trial's row cannot collide with an earlier one (boot.ts closeTrial).
\* The exception is a session one of whose closings a rejected request cut short,
\* which the code does not prevent: closeTrial() then never rotates, although
\* completeSession() is said never to throw (collection.ts:216).
NextTrialIsFresh ==
  AtRest /\ session \in rows => session \in cutShort

\* As long as the participant waits, a stored trace holds whole trials, their
\* starts and their ends, and only one unless a rejected request cut a closing of
\* its session short before it emptied the recorder (boot.ts closeTrial).
RowsAreWholeTrials ==
  patient => \A s \in Sessions : remote[s] # NoTrace =>
    \E T \in SUBSET Trials :
      /\ remote[s] = T \X {"start", "end"} /\ T # {}
      /\ s \notin cutShort => Cardinality(T) = 1

\* As long as the participant waits, at most one local session is open, whatever
\* reloads interrupt: beginSession marks the old one before it adds the new.
OneOpenSession ==
  patient => Cardinality({s \in Sessions : status[s] = "in_progress"}) <= 1

\* Unless the condition is switched meanwhile (which empties the recorder, and
\* the periodic flush then overwrites the stored trace), a trial whose upload
\* failed is still in the local store, its ending included (boot.ts:211-212).
FailedUploadIsKept ==
  \A t \in Trials : (pc[t] = "failed" /\ build.durable /\ switches = 0) =>
    <<t, "end">> \in stored[own[t]]

\* What boot.ts:203-206 says of rotation: a trial reported uploaded is stored.
ReportedMeansStored ==
  \A t \in Trials : pc[t] = "uploaded" => <<t, "end">> \in remote[own[t]]
=============================================================================
