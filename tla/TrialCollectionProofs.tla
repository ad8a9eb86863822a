---------------------- MODULE TrialCollectionProofs ----------------------
(***************************************************************************)
(* How finished trials become stored records, for any number of trials,    *)
(* reloads and condition switches: the closings that overlap, what each of *)
(* them has written so far, and what a participant who waits is assured of.*)
(***************************************************************************)
EXTENDS TrialCollection, FiniteSetTheorems, SequenceTheorems, TLAPS

(* A closing that has not rotated yet; a process at a stage outside Closing *)
(* is registering the session it begins.                                   *)
Closes(p) == pc[p] \in Closing

(* Trials that will not rotate any more: over, and not being closed. Every *)
(* session but the first comes from a reload or from one of them.          *)
Spent == {t \in 1..trial : ~Closes(t) /\ ~(running /\ t = trial)}
Counted ==
  /\ session = issued /\ (running => trial > 0) /\ rows \subseteq 1..issued
  /\ \A p \in Procs : own[p] <= issued
  /\ ~Closes(Boot)
  /\ \A t \in Trials : Closes(t) => t <= trial /\ ~(running /\ t = trial)
  /\ issued <= 1 + reloads + Cardinality(Spent)

(* What a process has already written to the two stores, by its stage.     *)
Written(p) ==
  /\ pc[p] # "idle" => own[p] # 0
  /\ Closes(p) /\ build.durable => stored[own[p]] # NoTrace
  /\ pc[p] \in {"trace", "storing"} => own[p] \in rows
  /\ pc[p] = "storing" => remote[own[p]] # NoTrace
  /\ pc[p] \in {"saved", "completing"} => build.durable
  /\ pc[p] = "register" /\ seen[p] = "uploaded" => remote[own[p]] # NoTrace

(* The active session can have a row only while some trial closes it, or   *)
(* after a rejection left it unrotated; and a store that is not durable    *)
(* holds no record.                                                        *)
RowWhileClosing ==
  session \in rows => session \in cutShort \/ \E t \in Trials : Closes(t) /\ own[t] = session
NothingKept == ~build.durable => \A s \in Sessions : status[s] = "none"

(* Without a condition switch the recorder's listener comes before the     *)
(* closer, if boot was not rejected before it subscribed that one. So a    *)
(* closing trial's ending is in what is stored, and stays in the recorder  *)
(* as long as its session is the active one.                               *)
Subscribed ==
  switches = 0 =>
    IF pc[Boot] = "idle" THEN listeners \in {<<"record", "close">>, <<"record">>}
    ELSE listeners = IF pc[Boot] = "starting" THEN << >> ELSE <<"record">>
EndingKept(t) ==
  /\ build.durable => <<t, "end">> \in stored[own[t]]
  /\ own[t] = session => <<t, "end">> \in trace
EndingsKept == switches = 0 => \A t \in Trials : Closes(t) => EndingKept(t)

(* While the participant waits one process runs at a time, on the active   *)
(* session and not during a task. The recorder then holds whole trials, and*)
(* earlier ones only where a rejection kept their session from rotating or *)
(* the closer from being subscribed.                                       *)
Unbooted == pc[Boot] = "idle" /\ listeners = <<"record">>
Unrotated == Unbooted \/ session \in cutShort
Alone ==
  /\ switches = 0
  /\ \A p, q \in Procs : pc[p] # "idle" /\ pc[q] # "idle" => p = q
  /\ \A p \in Procs : pc[p] # "idle" => own[p] = session /\ ~running
  /\ \A t \in Trials : pc[t] # "idle" => ~Unbooted
Whole(T) == T \X {"start", "end"}
Running(T) == trace = Whole(T) \cup {<<trial, "start">>} /\ (T # {} => Unrotated)
Resting(T) == trace = Whole(T) /\ (T # {} => Unrotated)
Ended(T) == trace = Whole(T) /\ T # {} /\ (session \notin cutShort => Cardinality(T) = 1)
OneTrial ==
  /\ running => trial > 0 /\ \E T \in SUBSET Trials : Running(T)
  /\ ~running /\ (\A t \in Trials : ~Closes(t)) => \E T \in SUBSET Trials : Resting(T)
  /\ \A t \in Trials : Closes(t) => snap[t] = trace /\ \E T \in SUBSET Trials : Ended(T)
  /\ pc[Boot] # "idle" => trace = {}

(* The sessions open in the local store: while the participant waits, the  *)
(* active one only, except where a begun session has not marked the one a  *)
(* reload left open. A closing finds its record as it last read it, and no *)
(* longer in progress when it rotates.                                     *)
Open == {s \in Sessions : status[s] = "in_progress"}
OnlyActiveOpen ==
  /\ \E o \in Sessions : Open \subseteq {o}
  /\ (\A p \in Procs : pc[p] \notin {"starting", "found"}) /\ ~Unbooted
       => Open \subseteq {session}
  /\ \A p \in Procs : pc[p] = "found" => Open \subseteq {found[p]}
  /\ \A t \in Trials : pc[t] = "found" => Open = {}
Marked(t) ==
  /\ pc[t] \in {"completing", "record"} => seen[t] = status[own[t]]
  /\ pc[t] \in {"gate", "record"} \cup Settled => status[own[t]] # "in_progress"
  /\ pc[t] \in {"row", "trace", "failing", "storing"} /\ build.durable
       => status[own[t]] # "none"
Patience == patient => Alone /\ OneTrial /\ OnlyActiveOpen /\ \A t \in Trials : Marked(t)

TrialInv ==
  /\ TypeOK /\ Counted /\ \A p \in Procs : Written(p)
  /\ StoredInOrder /\ UploadedMeansStored /\ RowWhileClosing /\ NothingKept
  /\ Subscribed /\ EndingsKept /\ Patience /\ RowsAreWholeTrials
-----------------------------------------------------------------------------
(* The stages partition: a closing process is neither idle nor registering. *)
LEMMA StagesOfAClosing ==
  /\ Closing \subseteq Stages
  /\ "idle" \notin Closing /\ "starting" \notin Closing /\ "found" \notin Closing
  /\ "begin" \notin Closing /\ "register" \notin Closing
  BY DEF Closing, Settled, Stages

(* No snapshot of the recorder looks like a missing trace.                  *)
LEMMA SnapshotIsATrace ==
  /\ \A snapshot \in SUBSET Records : snapshot \in Traces /\ snapshot # NoTrace
  /\ NoTrace \in Traces
<1>1. <<0, "none">> \notin Records
  BY BoundsAssumption DEF Records, Trials
<1> QED
  BY <1>1 DEF Traces, NoTrace

(* Whole trials: none at all, and one more.                                 *)
LEMMA WholeTrials ==
  /\ Whole({}) = {}
  /\ \A T \in SUBSET Trials, t \in Trials :
       /\ T \cup {t} \in SUBSET Trials
       /\ Whole(T) \cup {<<t, "start">>} \cup {<<t, "end">>} =
            Whole(T \cup {t}) \cup {<<t, "start">>}
       /\ Whole(T \cup {t}) \cup {<<t, "start">>} = Whole(T \cup {t})
  BY DEF Whole

(* What the recorder holds is described alike as long as it, the session    *)
(* and the listeners stay.                                                  *)
LEMMA SameTrials ==
  ASSUME UNCHANGED <<trial, trace, session, cutShort>>, Unbooted' <=> Unbooted
  PROVE  \A T : /\ Running(T)' <=> Running(T)
                /\ Resting(T)' <=> Resting(T)
                /\ Ended(T)' <=> Ended(T)
  BY DEF Running, Resting, Ended, Unrotated, Whole

(* A recorder that is empty, while no closing runs and no task, is at rest. *)
LEMMA EmptyIsResting ==
  ASSUME trace' = {}, ~running', \A t \in Trials : ~Closes(t)'
  PROVE  OneTrial'
<1>1. Resting({})'
  BY WholeTrials DEF Resting, Whole
<1> QED
  BY <1>1 DEF OneTrial

(* Processes that do not run have nothing marked.                           *)
LEMMA IdleIsMarked == \A t \in Trials : pc[t] \in {"idle", "starting", "found", "begin", "register"}
                         => Marked(t)
  BY DEF Marked, Settled

(* Whether a session id can be issued is a matter of counting: while a      *)
(* reload is left, or a closing that has not rotated, one is.               *)
LEMMA SpentIsFinite ==
  ASSUME TypeOK
  PROVE  /\ IsFiniteSet(Spent) /\ Cardinality(Spent) \in 0..MaxTrials
         /\ \A t \in Trials \ Spent : Cardinality(Spent) < MaxTrials
         /\ \A S \in SUBSET Trials :
              Cardinality(S) \in Nat /\ (Spent \subseteq S => Cardinality(Spent) <= Cardinality(S))
         /\ \A t \in Trials \ Spent :
              Cardinality(Spent \cup {t}) = Cardinality(Spent) + 1
<1>1. Spent \subseteq Trials
  BY BoundsAssumption DEF TypeOK, Spent, Trials
<1>2. IsFiniteSet(Trials) /\ Cardinality(Trials) = MaxTrials
  <2>1. IsFiniteSet(1..MaxTrials) /\ Cardinality(1..MaxTrials) =
          IF 1 > MaxTrials THEN 0 ELSE MaxTrials - 1 + 1
    BY FS_Interval, BoundsAssumption
  <2> QED
    BY <2>1, BoundsAssumption DEF Trials
<1>3. \A S \in SUBSET Trials : IsFiniteSet(S) /\ Cardinality(S) \in Nat
  BY <1>2, FS_Subset, FS_CardinalityType
<1>4. \A S, R \in SUBSET Trials : S \subseteq R => Cardinality(S) <= Cardinality(R)
  BY <1>3, FS_Subset
<1>5. \A t \in Trials \ Spent : Cardinality(Spent \cup {t}) = Cardinality(Spent) + 1
  BY <1>1, <1>3, FS_AddElement
<1>6. \A t \in Trials \ Spent : Cardinality(Spent) < MaxTrials
  <2> TAKE t \in Trials \ Spent
  <2>1. Spent \cup {t} \in SUBSET Trials
    BY <1>1
  <2>2. Cardinality(Spent \cup {t}) <= MaxTrials
    BY <2>1, <1>2, <1>4
  <2> QED
    BY <2>2, <1>1, <1>3, <1>5, BoundsAssumption
<1>7. Cardinality(Spent) \in 0..MaxTrials
  BY <1>1, <1>2, <1>3, <1>4, BoundsAssumption
<1> QED
  BY <1>1, <1>3, <1>4, <1>5, <1>6, <1>7

(* When the trials that are over stay over, the count stays right.          *)
LEMMA CountStays ==
  ASSUME TypeOK, Counted, Spent \subseteq Spent', Spent' \in SUBSET Trials,
         UNCHANGED <<issued, reloads>>
  PROVE  issued' <= 1 + reloads' + Cardinality(Spent')
<1>1. Cardinality(Spent) <= Cardinality(Spent')
  BY SpentIsFinite
<1>2. IsFiniteSet(Trials)
  BY FS_Interval, BoundsAssumption DEF Trials
<1>3. Cardinality(Spent') \in Nat /\ Cardinality(Spent) \in Nat
  BY <1>2, SpentIsFinite, FS_Subset, FS_CardinalityType
<1> QED
  BY <1>1, <1>3, BoundsAssumption DEF Counted, TypeOK, Sessions

(* The initial state satisfies the inductive invariant.                     *)
LEMMA InitTrialInv == Init => TrialInv
<1> SUFFICES ASSUME Init PROVE TrialInv
  OBVIOUS
<1> USE BoundsAssumption
<1>idle. \A p \in Procs : pc[p] \in {"idle", "starting"} /\ (pc[p] = "starting" <=> p = Boot)
                          /\ own[p] \in {0, 1} /\ (pc[p] # "idle" => own[p] = 1)
  BY DEF Init, Procs, Boot
<1>none. \A p \in Procs : ~Closes(p)
  BY <1>idle, StagesOfAClosing DEF Closes
<1>boot. Boot \in Procs /\ pc[Boot] = "starting" /\ Trials \subseteq Procs
  BY <1>idle DEF Procs, Boot
<1>1. TypeOK
  <2>1. 1 \in Sessions /\ Trials \in SUBSET Nat
    BY DEF Sessions, Trials
  <2>2. ProcTypeOK
    BY <2>1 DEF Init, ProcTypeOK, Stages, Statuses, Procs
  <2>3. << >> \in Seq({"record", "close"})
    BY EmptySeq
  <2>4. /\ status \in [Sessions -> Statuses]
        /\ stored \in [Sessions -> Traces] /\ remote \in [Sessions -> Traces]
    BY SnapshotIsATrace DEF Init, Statuses
  <2>5. /\ trial \in 0..MaxTrials /\ session \in Sessions /\ issued \in Sessions
        /\ reloads \in 0..MaxReloads /\ switches \in 0..MaxSwitches
        /\ rejections \in 0..MaxRejections
    BY <2>1 DEF Init
  <2>6. /\ build \in [durable: BOOLEAN, uploads: BOOLEAN] /\ running \in BOOLEAN
        /\ trace \subseteq Records /\ listeners = << >> /\ rows \subseteq Sessions
        /\ patient \in BOOLEAN /\ flushing \in BOOLEAN
        /\ cutShort \subseteq Sessions
    BY DEF Init
  <2> QED
    BY <2>1, <2>2, <2>3, <2>4, <2>5, <2>6 DEF TypeOK
<1>2. Counted
  <2>1. Cardinality(Spent) \in Nat
    BY <1>1, SpentIsFinite
  <2> QED
    BY <2>1, <1>none, <1>boot, <1>idle DEF Init, Counted
<1>3. \A p \in Procs : Written(p)
  BY <1>idle, <1>none DEF Init, Written
<1>4. StoredInOrder /\ UploadedMeansStored /\ RowWhileClosing /\ NothingKept /\ RowsAreWholeTrials
  BY DEF Init, StoredInOrder, UploadedMeansStored, RowWhileClosing, NothingKept,
         RowsAreWholeTrials
<1>5. Subscribed /\ EndingsKept
  BY <1>none, <1>boot DEF Init, Subscribed, EndingsKept
<1>6. Alone /\ OneTrial /\ \A t \in Trials : Marked(t)
  <2>1. Alone
    BY <1>boot, <1>idle DEF Init, Alone, Unbooted, Boot, Trials
  <2>2. Resting({})
    BY WholeTrials DEF Init, Resting
  <2>3. OneTrial
    BY <2>2, <1>none, <1>boot DEF Init, OneTrial
  <2>4. \A t \in Trials : Marked(t)
    BY <1>idle, <1>boot, IdleIsMarked
  <2> QED
    BY <2>1, <2>3, <2>4
<1>7. OnlyActiveOpen
  <2>1. Open = {} /\ 1 \in Sessions
    BY DEF Init, Open, Sessions
  <2> QED
    BY <2>1, <1>idle DEF OnlyActiveOpen
<1> QED
  BY <1>1, <1>2, <1>3, <1>4, <1>5, <1>6, <1>7 DEF TrialInv, Patience

(* Only a trial is closed, and one that has a session.                      *)
LEMMA ClosesATrial ==
  ASSUME TrialInv, NEW p \in Procs, Closes(p)
  PROVE  p \in Trials /\ own[p] \in Sessions
<1>1. /\ TypeOK /\ ~Closes(Boot) /\ Written(p)
  BY DEF TrialInv, Counted
<1> QED
  BY <1>1, StagesOfAClosing DEF TypeOK, ProcTypeOK, Written, Closes, Procs

(* What a closing's step leaves in place, whatever it reads or sends: it    *)
(* writes its own stage, and at most its own session's record and row.      *)
LEMMA ClosingStep ==
  ASSUME TrialInv, NEW p \in Procs, Closes(p), NEW stage \in Closing,
         UNCHANGED <<build, page, own, snap, found, stored, bounds, faults>>,
         pc' = [pc EXCEPT ![p] = stage],
         rows' \in {rows, rows \cup {own[p]}},
         Open' \subseteq Open \cup {own[p]},
         patient => Marked(p)'
  PROVE  /\ Counted' /\ RowWhileClosing' /\ Subscribed' /\ EndingsKept' /\ Patience'
         /\ p \in Trials /\ own[p] \in Sessions /\ p # Boot
<1> USE BoundsAssumption
<1>inv. /\ TypeOK /\ Counted /\ RowWhileClosing /\ Subscribed /\ EndingsKept /\ Patience
        /\ \A q \in Procs : Written(q)
  BY DEF TrialInv
<1>same. UNCHANGED <<build, running, trial, session, issued, trace, listeners, flushing,
                     own, snap, found, stored, reloads, switches, patient, rejections,
                     cutShort>>
  BY DEF page, bounds, faults
<1>types. /\ pc \in [Procs -> Stages] /\ own \in [Procs -> Sessions \cup {0}]
          /\ session \in Sessions /\ issued \in Sessions /\ trial \in 0..MaxTrials
  BY <1>inv DEF TypeOK, ProcTypeOK
<1>trial. p \in Trials /\ p # Boot /\ Boot \in Procs /\ Trials \subseteq Procs
  BY <1>inv DEF Counted, Procs
<1>own. own[p] \in Sessions /\ own[p] # 0 /\ pc[p] # "idle"
  BY <1>inv, <1>types, StagesOfAClosing DEF Written, Closes
<1>stage. \A q \in Procs : pc'[q] = IF q = p THEN stage ELSE pc[q]
  BY <1>types
<1>closes. \A q \in Procs : Closes(q)' <=> Closes(q)
  BY <1>stage DEF Closes
<1>idle. \A q \in Procs : \A s \in {"idle", "starting", "found"} : pc'[q] = s <=> pc[q] = s
  BY <1>stage, StagesOfAClosing DEF Closes
<1>unbooted. Unbooted' <=> Unbooted
  BY <1>idle, <1>same, <1>trial DEF Unbooted
<1>1. Counted'
  <2>1. Spent' = Spent
    <3>1. Spent' = {t \in 1..trial : ~Closes(t)' /\ ~(running /\ t = trial)}
      BY <1>same DEF Spent
    <3>2. 1..trial \subseteq Procs
      BY <1>types DEF Procs, Trials
    <3> QED
      BY <3>1, <3>2, <1>closes DEF Spent
  <2>2. rows' \subseteq 1..issued
    BY <1>inv, <1>own, <1>types DEF Counted, Sessions
  <2>3. \A t \in Trials : Closes(t)' => t <= trial /\ ~(running /\ t = trial)
    BY <1>inv, <1>closes, <1>trial DEF Counted
  <2>4. ~Closes(Boot)'
    BY <1>inv, <1>closes, <1>trial DEF Counted
  <2> QED
    BY <2>1, <2>2, <2>3, <2>4, <1>same, <1>inv DEF Counted
<1>2. RowWhileClosing'
  <2>1. session = own[p] => Closes(p)' /\ own'[p] = session
    BY <1>closes, <1>same
  <2>2. \A t \in Trials : Closes(t) /\ own[t] = session => Closes(t)' /\ own'[t] = session'
    BY <1>closes, <1>same, <1>trial
  <2> QED
    BY <2>1, <2>2, <1>same, <1>trial, <1>inv DEF RowWhileClosing
<1>3. Subscribed'
  BY <1>same, <1>idle, <1>trial, <1>inv DEF Subscribed
<1>4. EndingsKept'
  BY <1>same, <1>closes, <1>trial, <1>inv DEF EndingsKept, EndingKept
<1>5. Patience'
  <2> SUFFICES ASSUME patient
               PROVE  Alone' /\ OneTrial' /\ OnlyActiveOpen' /\ \A t \in Trials : Marked(t)'
    BY <1>same DEF Patience
  <2>1. Alone /\ OneTrial /\ OnlyActiveOpen
    BY <1>inv DEF Patience
  <2>2. Alone'
    BY <2>1, <1>same, <1>idle, <1>unbooted, <1>trial DEF Alone
  <2>3. OneTrial'
    <3>1. \A T : /\ Running(T)' <=> Running(T)
                 /\ Resting(T)' <=> Resting(T)
                 /\ Ended(T)' <=> Ended(T)
      BY <1>same, <1>unbooted, SameTrials
    <3> QED
      BY <2>1, <3>1, <1>same, <1>closes, <1>idle, <1>trial DEF OneTrial
  <2>4. \A q \in Procs : q # p => pc[q] = "idle"
    BY <2>1, <1>own DEF Alone
  <2>5. own[p] = session
    BY <2>1, <1>own DEF Alone
  <2>6. Open \subseteq {session}
    <3>1. \A q \in Procs : pc[q] \notin {"starting", "found"}
      BY <2>4, StagesOfAClosing DEF Closes
    <3>2. ~Unbooted
      BY <2>1, <1>own, <1>trial DEF Alone
    <3> QED
      BY <3>1, <3>2, <2>1 DEF OnlyActiveOpen
  <2>7. Open' \subseteq {session}
    BY <2>5, <2>6
  <2>8. \A q \in Procs : pc'[q] # "found"
    BY <1>idle, <2>4, StagesOfAClosing DEF Closes
  <2>9. OnlyActiveOpen'
    BY <2>7, <2>8, <1>same, <1>types, <1>trial DEF OnlyActiveOpen
  <2>10. \A t \in Trials : t # p => pc'[t] = "idle"
    BY <2>4, <1>idle, <1>trial
  <2>11. \A t \in Trials : t # p => Marked(t)'
    BY <2>10 DEF Marked, Settled
  <2> QED
    BY <2>2, <2>3, <2>9, <2>11
<1> QED
  BY <1>1, <1>2, <1>3, <1>4, <1>5, <1>trial, <1>own

(* The rest of the invariant, when the stores' records stay as they are.    *)
LEMMA StageStep ==
  ASSUME TrialInv, NEW p \in Procs, Closes(p), NEW stage \in Closing,
         UNCHANGED <<build, page, own, snap, found, local, server, bounds, faults>>,
         pc' = [pc EXCEPT ![p] = stage],
         \/ UNCHANGED seen
         \/ \E v \in Statuses : seen' = [seen EXCEPT ![p] = v],
         Written(p)', patient => Marked(p)'
  PROVE  TrialInv'
<1>inv. /\ TypeOK /\ StoredInOrder /\ UploadedMeansStored /\ NothingKept /\ RowsAreWholeTrials
        /\ \A q \in Procs : Written(q)
  BY DEF TrialInv
<1>same. UNCHANGED <<build, page, own, snap, found, status, stored, rows, remote, bounds, faults>>
  BY DEF local, server
<1>types. pc \in [Procs -> Stages] /\ seen \in [Procs -> Statuses]
  BY <1>inv DEF TypeOK, ProcTypeOK
<1>1. Open' = Open
  BY <1>same DEF Open
<1>2. /\ Counted' /\ RowWhileClosing' /\ Subscribed' /\ EndingsKept' /\ Patience'
  BY <1>1, <1>same, ClosingStep
<1>3. pc' \in [Procs -> Stages] /\ seen' \in [Procs -> Statuses]
  BY <1>types, StagesOfAClosing
<1>4. TypeOK'
  BY <1>3, <1>same, <1>inv DEF TypeOK, ProcTypeOK, page, bounds, faults
<1>5. \A q \in Procs : Written(q)'
  <2>1. \A q \in Procs : q # p => pc'[q] = pc[q] /\ seen'[q] = seen[q]
    BY <1>types
  <2> QED
    BY <2>1, <1>same, <1>inv DEF Written, Closes
<1>6. StoredInOrder' /\ UploadedMeansStored' /\ NothingKept' /\ RowsAreWholeTrials'
  BY <1>same, <1>inv DEF StoredInOrder, UploadedMeansStored, NothingKept, RowsAreWholeTrials,
                         bounds, faults
<1> QED
  BY <1>2, <1>4, <1>5, <1>6 DEF TrialInv

(* markCompleted's read (collection.ts) keeps the invariant.                *)
LEMMA ReadRecordKeepsInv ==
  ASSUME TrialInv, NEW p \in Procs, ReadRecord(p)
  PROVE  TrialInv'
<1>1. Closes(p) /\ "completing" \in Closing /\ TypeOK /\ Written(p) /\ p \in Procs
  BY DEF ReadRecord, Closes, Closing, TrialInv
<1>2. own[p] \in Sessions /\ status[own[p]] \in Statuses
  BY <1>1, StagesOfAClosing DEF TypeOK, ProcTypeOK, Written, Closes
<1>3. Written(p)'
  <2>1. pc'[p] = "completing" /\ own' = own /\ stored' = stored /\ build' = build
    BY <1>1 DEF ReadRecord, Goto, TypeOK, ProcTypeOK, local
  <2> QED
    BY <2>1, <1>1, StagesOfAClosing DEF ReadRecord, Written, Closes
<1>4. Marked(p)'
  <2>1. pc'[p] = "completing" /\ own' = own /\ status' = status
        /\ seen'[p] = status[own[p]]
    BY <1>1 DEF ReadRecord, Goto, GetSession, TypeOK, ProcTypeOK, local
  <2> QED
    BY <2>1 DEF Marked, Settled
<1> QED
  BY <1>1, <1>2, <1>3, <1>4, StageStep DEF ReadRecord, Goto, GetSession

(* The provenance gate, with the read that starts an upload.                *)
LEMMA GateKeepsInv ==
  ASSUME TrialInv, NEW p \in Procs, Gate(p)
  PROVE  TrialInv'
<1>1. Closes(p) /\ {"record", "kept"} \subseteq Closing /\ TypeOK /\ Written(p)
  BY DEF Gate, Closes, Closing, Settled, TrialInv
<1>2. own[p] \in Sessions /\ status[own[p]] \in Statuses
  BY <1>1, StagesOfAClosing DEF TypeOK, ProcTypeOK, Written, Closes
<1>3. PICK stage \in {"record", "kept"} : pc' = [pc EXCEPT ![p] = stage]
  BY DEF Gate, Goto
<1>4. \/ UNCHANGED seen
      \/ \E v \in Statuses : seen' = [seen EXCEPT ![p] = v]
  BY <1>2 DEF Gate, GetSession
<1>5. UNCHANGED <<build, page, own, snap, found, local, server, bounds, faults>>
  BY DEF Gate
<1>6. Written(p)'
  <2>1. pc'[p] = stage /\ own' = own /\ stored' = stored /\ build' = build
    BY <1>1, <1>3, <1>5 DEF TypeOK, ProcTypeOK, local
  <2> QED
    BY <2>1, <1>1, StagesOfAClosing DEF Written, Closes
<1>7. patient => Marked(p)'
  <2>1. patient => status[own[p]] # "in_progress"
    BY <1>1, ClosesATrial DEF Gate, TrialInv, Patience, Marked
  <2>2. /\ pc'[p] = stage /\ own' = own /\ status' = status
        /\ stage = "record" => seen'[p] = status[own[p]]
    BY <1>1, <1>3, <1>5 DEF Gate, Goto, GetSession, TypeOK, ProcTypeOK, local
  <2> QED
    BY <2>1, <2>2 DEF Marked, Settled
<1> QED
  BY <1>1, <1>3, <1>4, <1>5, <1>6, <1>7, StageStep

(* What a closing writes to the local store's record of its session.        *)
LEMMA RecordStep ==
  ASSUME TrialInv, NEW p \in Procs, Closes(p), NEW stage \in Closing,
         NEW value \in Statuses \ {"none"},
         UNCHANGED <<build, page, own, snap, seen, found, stored, server, bounds, faults>>,
         pc' = [pc EXCEPT ![p] = stage],
         \/ UNCHANGED status
         \/ build.durable /\ status' = [status EXCEPT ![own[p]] = value],
         value = "uploaded" => remote[own[p]] # NoTrace,
         Written(p)', patient => Marked(p)'
  PROVE  TrialInv'
<1>inv. /\ TypeOK /\ StoredInOrder /\ UploadedMeansStored /\ NothingKept /\ RowsAreWholeTrials
        /\ \A q \in Procs : Written(q)
  BY DEF TrialInv
<1>same. UNCHANGED <<build, running, trial, session, issued, trace, listeners, flushing,
                     own, snap, seen, found, stored, rows, remote, reloads, switches, patient, rejections,
                     cutShort>>
  BY DEF page, server, bounds, faults
<1>types. pc \in [Procs -> Stages] /\ status \in [Sessions -> Statuses]
  BY <1>inv DEF TypeOK, ProcTypeOK
<1>0. UNCHANGED <<build, page, own, snap, found, stored, bounds, faults>> /\ rows' = rows
  BY <1>same DEF page, bounds, faults
<1>1. Open' \subseteq Open \cup {own[p]}
  BY <1>types DEF Open
<1>2. Counted' /\ RowWhileClosing' /\ Subscribed' /\ EndingsKept' /\ Patience'
  BY <1>0, <1>1, ClosingStep
<1>3. pc' \in [Procs -> Stages] /\ status' \in [Sessions -> Statuses]
  BY <1>types, StagesOfAClosing
<1>4. TypeOK'
  BY <1>3, <1>same, <1>inv DEF TypeOK, ProcTypeOK
<1>5. \A q \in Procs : Written(q)'
  <2>1. \A q \in Procs : q # p => pc'[q] = pc[q]
    BY <1>types
  <2> QED
    BY <2>1, <1>same, <1>inv DEF Written, Closes
<1>6. StoredInOrder' /\ RowsAreWholeTrials'
  BY <1>same, <1>inv DEF StoredInOrder, RowsAreWholeTrials
<1>7. UploadedMeansStored' /\ NothingKept'
  BY <1>same, <1>inv, <1>types DEF UploadedMeansStored, NothingKept
<1> QED
  BY <1>2, <1>4, <1>5, <1>6, <1>7 DEF TrialInv

(* markCompleted writes back the record it read, when there was one.        *)
LEMMA MarkCompletedKeepsInv ==
  ASSUME TrialInv, NEW p \in Procs, MarkCompleted(p)
  PROVE  TrialInv'
<1>1. Closes(p) /\ "gate" \in Closing /\ TypeOK /\ Written(p)
  BY DEF MarkCompleted, Closes, Closing, TrialInv
<1>2. Written(p)'
  <2>1. pc'[p] = "gate" /\ UNCHANGED <<own, stored, build>>
    BY <1>1 DEF MarkCompleted, Goto, TypeOK, ProcTypeOK
  <2> QED
    BY <2>1, <1>1, StagesOfAClosing DEF Written, Closes
<1>3. \/ UNCHANGED status
      \/ build.durable /\ status' = [status EXCEPT ![own[p]] = "completed"]
  BY <1>1 DEF MarkCompleted, Mark, Put, Written
<1>4. "completed" \in Statuses \ {"none"} /\ "completed" # "uploaded"
  BY DEF Statuses
<1>5. patient => Marked(p)'
  <2>1. own[p] \in Sessions /\ (patient => Marked(p))
    BY <1>1, ClosesATrial DEF TrialInv, Patience
  <2>2. patient => status'[own[p]] # "in_progress"
    BY <2>1, <1>1 DEF MarkCompleted, Mark, Put, Marked, TypeOK
  <2>3. pc'[p] = "gate" /\ own' = own
    BY <1>1 DEF MarkCompleted, Goto, TypeOK, ProcTypeOK
  <2> QED
    BY <2>2, <2>3 DEF Marked, Settled
<1> QED
  BY <1>1, <1>2, <1>3, <1>4, <1>5, RecordStep DEF MarkCompleted, Goto

(* A missing record is created before the upload.                           *)
LEMMA AdoptRecordKeepsInv ==
  ASSUME TrialInv, NEW p \in Procs, AdoptRecord(p)
  PROVE  TrialInv'
<1>1. Closes(p) /\ "row" \in Closing /\ TypeOK /\ Written(p)
  BY DEF AdoptRecord, Closes, Closing, TrialInv
<1>2. Written(p)'
  <2>1. pc'[p] = "row" /\ UNCHANGED <<own, stored, build>>
    BY <1>1 DEF AdoptRecord, Goto, TypeOK, ProcTypeOK
  <2> QED
    BY <2>1, <1>1, StagesOfAClosing DEF Written, Closes
<1>3. \/ UNCHANGED status
      \/ build.durable /\ status' = [status EXCEPT ![own[p]] = "in_progress"]
  BY DEF AdoptRecord, Put
<1>4. "in_progress" \in Statuses \ {"none"} /\ "in_progress" # "uploaded"
  BY DEF Statuses
<1>5. patient => Marked(p)'
  <2>1. own[p] \in Sessions /\ (patient => Marked(p))
    BY <1>1, ClosesATrial DEF TrialInv, Patience
  <2>2. patient /\ build.durable => status'[own[p]] # "none"
    BY <2>1, <1>1 DEF AdoptRecord, Put, Marked, TypeOK
  <2>3. pc'[p] = "row" /\ own' = own /\ build' = build
    BY <1>1 DEF AdoptRecord, Goto, TypeOK, ProcTypeOK
  <2> QED
    BY <2>2, <2>3 DEF Marked, Settled
<1> QED
  BY <1>1, <1>2, <1>3, <1>4, <1>5, RecordStep DEF AdoptRecord, Goto

(* A build whose store is not durable finds no record to mark.              *)
LEMMA MarksARecordKept ==
  ASSUME TypeOK, NothingKept, NEW s \in Sessions, NEW value, Mark(s, status[s], value)
  PROVE  \/ UNCHANGED status
         \/ build.durable /\ status' = [status EXCEPT ![s] = value]
  BY DEF TypeOK, NothingKept, Mark, Put

(* A failed upload is recorded.                                             *)
LEMMA MarkUploadFailedKeepsInv ==
  ASSUME TrialInv, NEW p \in Procs, MarkUploadFailed(p)
  PROVE  TrialInv'
<1>1. Closes(p) /\ "failed" \in Closing /\ TypeOK /\ Written(p) /\ NothingKept
  BY DEF MarkUploadFailed, Closes, Closing, Settled, TrialInv
<1>own. own[p] \in Sessions
  BY <1>1, StagesOfAClosing DEF TypeOK, ProcTypeOK, Written, Closes
<1>2. Written(p)'
  <2>1. pc'[p] = "failed" /\ UNCHANGED <<own, stored, build>>
    BY <1>1 DEF MarkUploadFailed, Goto, TypeOK, ProcTypeOK
  <2> QED
    BY <2>1, <1>1, StagesOfAClosing DEF Written, Closes
<1>3. \/ UNCHANGED status
      \/ build.durable /\ status' = [status EXCEPT ![own[p]] = "upload_failed"]
  BY <1>1, <1>own, MarksARecordKept DEF MarkUploadFailed
<1>4. "upload_failed" \in Statuses \ {"none"} /\ "upload_failed" # "uploaded"
  BY DEF Statuses
<1>5. patient => Marked(p)'
  <2>1. patient /\ build.durable => status[own[p]] # "none"
    BY <1>1, ClosesATrial DEF MarkUploadFailed, TrialInv, Patience, Marked
  <2>2. patient => status'[own[p]] # "in_progress"
    BY <2>1, <1>1, <1>own DEF MarkUploadFailed, Mark, Put, TypeOK, NothingKept
  <2>3. pc'[p] = "failed" /\ own' = own
    BY <1>1 DEF MarkUploadFailed, Goto, TypeOK, ProcTypeOK
  <2> QED
    BY <2>2, <2>3 DEF Marked, Settled
<1> QED
  BY <1>1, <1>2, <1>3, <1>4, <1>5, RecordStep DEF MarkUploadFailed, Goto

(* A session is called uploaded once its trace is on the server.            *)
LEMMA MarkUploadedKeepsInv ==
  ASSUME TrialInv, NEW p \in Procs, MarkUploaded(p)
  PROVE  TrialInv'
<1>1. Closes(p) /\ "uploaded" \in Closing /\ TypeOK /\ Written(p) /\ NothingKept
  BY DEF MarkUploaded, Closes, Closing, Settled, TrialInv
<1>own. own[p] \in Sessions
  BY <1>1, StagesOfAClosing DEF TypeOK, ProcTypeOK, Written, Closes
<1>2. Written(p)'
  <2>1. pc'[p] = "uploaded" /\ UNCHANGED <<own, stored, build>>
    BY <1>1 DEF MarkUploaded, Goto, TypeOK, ProcTypeOK
  <2> QED
    BY <2>1, <1>1, StagesOfAClosing DEF Written, Closes
<1>3. \/ UNCHANGED status
      \/ build.durable /\ status' = [status EXCEPT ![own[p]] = "uploaded"]
  BY <1>1, <1>own, MarksARecordKept DEF MarkUploaded
<1>4. remote[own[p]] # NoTrace
  BY <1>1 DEF MarkUploaded, Written
<1>5. patient => Marked(p)'
  <2>1. patient /\ build.durable => status[own[p]] # "none"
    BY <1>1, ClosesATrial DEF MarkUploaded, TrialInv, Patience, Marked
  <2>2. patient => status'[own[p]] # "in_progress"
    BY <2>1, <1>1, <1>own DEF MarkUploaded, Mark, Put, TypeOK, NothingKept
  <2>3. pc'[p] = "uploaded" /\ own' = own
    BY <1>1 DEF MarkUploaded, Goto, TypeOK, ProcTypeOK
  <2> QED
    BY <2>2, <2>3 DEF Marked, Settled
<1> QED
  BY <1>1, <1>2, <1>3, <1>4, <1>5, RecordStep DEF MarkUploaded, Goto, Statuses

(* A POST of the session row: it reaches the server or not, and its answer  *)
(* arrives or not.                                                          *)
LEMMA InsertRowKeepsInv ==
  ASSUME TrialInv, NEW p \in Procs, InsertRow(p)
  PROVE  TrialInv'
<1>1. Closes(p) /\ {"trace", "failing"} \subseteq Closing /\ TypeOK /\ Written(p)
  BY DEF InsertRow, Closes, Closing, TrialInv
<1>inv. /\ StoredInOrder /\ UploadedMeansStored /\ NothingKept /\ RowsAreWholeTrials
        /\ \A q \in Procs : Written(q)
  BY DEF TrialInv
<1>2. PICK stage \in {"trace", "failing"} :
        /\ pc' = [pc EXCEPT ![p] = stage]
        /\ rows' \in {rows, rows \cup {own[p]}}
        /\ stage = "trace" => rows' = rows \cup {own[p]}
  BY DEF InsertRow, Outcome, Goto
<1>same. UNCHANGED <<build, running, trial, session, issued, trace, listeners, flushing,
                     own, snap, seen, found, status, stored, remote, reloads, switches, patient, rejections,
                     cutShort>>
  BY DEF InsertRow, page, local, bounds, faults
<1>3. UNCHANGED <<build, page, own, snap, found, stored, bounds, faults>> /\ Open' = Open
  BY <1>same DEF page, bounds, faults, Open
<1>marked. patient => Marked(p)'
  <2>1. patient /\ build.durable => status[own[p]] # "none"
    BY <1>1, ClosesATrial DEF InsertRow, TrialInv, Patience, Marked
  <2>2. pc'[p] \in {"trace", "failing"}
    BY <1>1, <1>2 DEF TypeOK, ProcTypeOK
  <2> QED
    BY <2>1, <2>2, <1>same DEF Marked, Settled
<1>4. /\ Counted' /\ RowWhileClosing' /\ Subscribed' /\ EndingsKept' /\ Patience'
      /\ own[p] \in Sessions
  BY <1>1, <1>2, <1>3, <1>marked, ClosingStep
<1>5. TypeOK'
  <2>1. pc' \in [Procs -> Stages] /\ rows' \subseteq Sessions
    BY <1>1, <1>2, <1>4 DEF TypeOK, ProcTypeOK, Stages
  <2> QED
    BY <2>1, <1>1, <1>same DEF TypeOK, ProcTypeOK
<1>6. \A q \in Procs : Written(q)'
  <2>1. \A q \in Procs : pc'[q] = IF q = p THEN stage ELSE pc[q]
    BY <1>1, <1>2 DEF TypeOK, ProcTypeOK
  <2>2. Written(p)'
    BY <2>1, <1>1, <1>2, <1>same, StagesOfAClosing DEF Written, Closes
  <2> QED
    BY <2>1, <2>2, <1>2, <1>same, <1>inv DEF Written, Closes
<1>7. StoredInOrder' /\ RowsAreWholeTrials' /\ UploadedMeansStored' /\ NothingKept'
  BY <1>same, <1>2, <1>inv
  DEF StoredInOrder, RowsAreWholeTrials, UploadedMeansStored, NothingKept
<1> QED
  BY <1>4, <1>5, <1>6, <1>7 DEF TrialInv

(* A POST of the trace: what reaches the server under a free key is the     *)
(* snapshot, which the local store has had since the closing began.         *)
LEMMA InsertTraceKeepsInv ==
  ASSUME TrialInv, NEW p \in Procs, InsertTrace(p)
  PROVE  TrialInv'
<1>1. /\ Closes(p) /\ {"storing", "failing"} \subseteq Closing /\ TypeOK /\ Written(p)
      /\ pc[p] = "trace"
  BY DEF InsertTrace, Closes, Closing, TrialInv
<1>inv. /\ StoredInOrder /\ UploadedMeansStored /\ NothingKept /\ RowsAreWholeTrials
        /\ Patience /\ \A q \in Procs : Written(q)
  BY DEF TrialInv
<1>2. PICK stage \in {"storing", "failing"}, reached \in BOOLEAN :
        /\ pc' = [pc EXCEPT ![p] = stage]
        /\ remote' = IF reached /\ remote[own[p]] = NoTrace
                     THEN [remote EXCEPT ![own[p]] = snap[p]] ELSE remote
        /\ stage = "storing" => reached
  BY DEF InsertTrace, Outcome, Goto
<1>same. UNCHANGED <<build, running, trial, session, issued, trace, listeners, flushing,
                     own, snap, seen, found, status, stored, rows, reloads, switches, patient, rejections,
                     cutShort>>
  BY DEF InsertTrace, page, local, bounds, faults
<1>3. UNCHANGED <<build, page, own, snap, found, stored, bounds, faults>> /\ Open' = Open
  BY <1>same DEF page, bounds, faults, Open
<1>marked. patient => Marked(p)'
  <2>1. patient /\ build.durable => status[own[p]] # "none"
    BY <1>1, ClosesATrial DEF TrialInv, Patience, Marked
  <2>2. pc'[p] \in {"storing", "failing"}
    BY <1>1, <1>2 DEF TypeOK, ProcTypeOK
  <2> QED
    BY <2>1, <2>2, <1>same DEF Marked, Settled
<1>4. /\ Counted' /\ RowWhileClosing' /\ Subscribed' /\ EndingsKept' /\ Patience'
      /\ own[p] \in Sessions /\ p \in Trials
  BY <1>1, <1>2, <1>3, <1>same, <1>marked, ClosingStep
<1>snap. snap[p] \in Traces /\ snap[p] # NoTrace
  BY <1>1, SnapshotIsATrace DEF TypeOK, ProcTypeOK
<1>5. TypeOK'
  <2>1. pc' \in [Procs -> Stages] /\ remote' \in [Sessions -> Traces]
    BY <1>1, <1>2, <1>snap DEF TypeOK, ProcTypeOK, Stages
  <2> QED
    BY <2>1, <1>1, <1>same DEF TypeOK, ProcTypeOK
<1>sent. /\ remote \in [Sessions -> Traces]
         /\ \A s \in Sessions : remote'[s] # remote[s] => s = own[p] /\ remote'[s] = snap[p]
         /\ \A s \in Sessions : remote[s] # NoTrace => remote'[s] # NoTrace
         /\ stage = "storing" => remote'[own[p]] # NoTrace
  BY <1>1, <1>2, <1>snap, <1>4 DEF TypeOK
<1>6. \A q \in Procs : Written(q)'
  <2>1. \A q \in Procs : pc'[q] = IF q = p THEN stage ELSE pc[q]
    BY <1>1, <1>2 DEF TypeOK, ProcTypeOK
  <2>2. Written(p)'
    BY <2>1, <1>1, <1>sent, <1>same, StagesOfAClosing DEF Written, Closes
  <2>3. \A q \in Procs : own[q] \in Sessions \cup {0}
    BY <1>1 DEF TypeOK, ProcTypeOK
  <2>4. ASSUME NEW q \in Procs, q # p PROVE Written(q)'
    <3>1. pc'[q] = pc[q] /\ Written(q) /\ own[q] \in Sessions \cup {0}
      BY <2>1, <2>3, <2>4, <1>inv
    <3>2. pc[q] # "idle" => own[q] \in Sessions
      BY <3>1 DEF Written
    <3> QED
      BY <3>1, <3>2, <1>sent, <1>same, StagesOfAClosing DEF Written, Closes
  <2> QED
    BY <2>2, <2>4
<1>7. StoredInOrder'
  BY <1>1, <1>sent, <1>same, <1>inv DEF StoredInOrder, Written
<1>8. UploadedMeansStored' /\ NothingKept'
  BY <1>sent, <1>same, <1>inv DEF UploadedMeansStored, NothingKept
<1>9. RowsAreWholeTrials'
  <2> SUFFICES ASSUME patient, NEW s \in Sessions, remote'[s] # NoTrace
               PROVE  \E T \in SUBSET Trials :
                        /\ remote'[s] = T \X {"start", "end"} /\ T # {}
                        /\ s \notin cutShort => Cardinality(T) = 1
    BY <1>same DEF RowsAreWholeTrials
  <2>1. CASE remote'[s] = remote[s]
    BY <2>1, <1>inv DEF RowsAreWholeTrials
  <2>2. CASE remote'[s] # remote[s]
    <3>1. s = own[p] /\ remote'[s] = snap[p]
      BY <2>2, <1>sent
    <3>2. own[p] = session
      BY <1>1, <1>inv DEF Patience, Alone
    <3>3. snap[p] = trace /\ \E T \in SUBSET Trials : Ended(T)
      BY <1>1, <1>4, <1>inv DEF Patience, OneTrial
    <3> QED
      BY <3>1, <3>2, <3>3 DEF Ended, Whole
  <2> QED
    BY <2>1, <2>2
<1> QED
  BY <1>4, <1>5, <1>6, <1>7, <1>8, <1>9 DEF TrialInv

(* The closing is over: a fresh session is bound and the recorder emptied.  *)
(* Its trial joins the ones that rotate no more, so the id is one of ours.  *)
LEMMA RotateKeepsInv ==
  ASSUME TrialInv, NEW p \in Procs, Rotate(p)
  PROVE  TrialInv'
<1> USE BoundsAssumption
<1>inv. /\ TypeOK /\ Counted /\ StoredInOrder /\ UploadedMeansStored /\ RowWhileClosing
        /\ NothingKept /\ Subscribed /\ EndingsKept /\ Patience /\ RowsAreWholeTrials
        /\ \A q \in Procs : Written(q)
  BY DEF TrialInv
<1>same. UNCHANGED <<build, running, trial, listeners, flushing, snap, seen, status, stored, rows, remote,
                     reloads, switches, patient, rejections,
                     cutShort>>
  BY DEF Rotate, local, server, bounds, faults
<1>new. /\ issued' = issued + 1 /\ session' = issued + 1 /\ trace' = {}
        /\ pc' = [pc EXCEPT ![p] = "found"] /\ own' = [own EXCEPT ![p] = issued + 1]
  BY DEF Rotate, Goto, Fresh
<1>closed. Closes(p)
  BY DEF Rotate, Closes, Closing
<1>trial. /\ p \in Trials /\ p # Boot /\ Boot \in Procs /\ Trials \subseteq Procs
          /\ p \in 1..trial /\ ~(running /\ p = trial)
  BY <1>inv, <1>closed DEF Counted, Procs, Trials, TypeOK
<1>types. /\ pc \in [Procs -> Stages] /\ own \in [Procs -> Sessions \cup {0}]
          /\ found \in [Procs -> Sessions \cup {0}] /\ session \in Sessions /\ issued \in Nat
          /\ trial \in 0..MaxTrials /\ reloads \in 0..MaxReloads
  BY <1>inv DEF TypeOK, ProcTypeOK, Sessions
<1>stage. /\ \A q \in Procs : pc'[q] = IF q = p THEN "found" ELSE pc[q]
          /\ \A q \in Procs : own'[q] = IF q = p THEN issued + 1 ELSE own[q]
  BY <1>types, <1>new
<1>closes. \A q \in Procs : Closes(q)' <=> Closes(q) /\ q # p
  BY <1>stage, StagesOfAClosing DEF Closes
<1>older. /\ \A q \in Procs : own[q] <= issued /\ own[q] \in Nat
          /\ \A s \in rows : s <= issued
  BY <1>inv, <1>types DEF Counted, Sessions
<1>spent. Spent' = Spent \cup {p} /\ p \in Trials \ Spent
  <2>1. 1..trial \subseteq Procs
    BY <1>types DEF Procs, Trials
  <2>2. Spent' = {t \in 1..trial : ~Closes(t)' /\ ~(running /\ t = trial)}
    BY <1>same DEF Spent
  <2>3. Spent' = Spent \cup {p}
    BY <2>1, <2>2, <1>closes, <1>trial DEF Spent
  <2> QED
    BY <2>3, <1>closed, <1>trial DEF Spent
<1>count. /\ Cardinality(Spent') = Cardinality(Spent) + 1 /\ Cardinality(Spent) \in Nat
          /\ Cardinality(Spent) + 1 <= MaxTrials
  BY <1>spent, <1>inv, SpentIsFinite
<1>fresh. issued + 1 \in Sessions
  BY <1>count, <1>types, <1>inv DEF Counted, Sessions
<1>found. PICK f \in Sessions \cup {0} :
            /\ found' = [found EXCEPT ![p] = f] /\ f \in Recoverable
  BY DEF Rotate, Recoverable
<1>1. TypeOK'
  <2>1. /\ pc' \in [Procs -> Stages] /\ own' \in [Procs -> Sessions \cup {0}]
        /\ found' \in [Procs -> Sessions \cup {0}]
    BY <1>types, <1>new, <1>found, <1>fresh DEF Stages
  <2> QED
    BY <2>1, <1>new, <1>fresh, <1>same, <1>inv DEF TypeOK, ProcTypeOK
<1>2. Counted'
  <2>1. issued + 1 <= 1 + reloads + Cardinality(Spent')
    BY <1>count, <1>types, <1>inv DEF Counted
  <2>2. rows \subseteq 1..(issued + 1)
    BY <1>inv, <1>types DEF Counted
  <2>3. \A q \in Procs : own'[q] <= issued + 1
    BY <1>stage, <1>older, <1>types
  <2>4. ~Closes(Boot)' /\ \A t \in Trials : Closes(t)' => t <= trial /\ ~(running /\ t = trial)
    BY <1>closes, <1>trial, <1>inv DEF Counted
  <2> QED
    BY <2>1, <2>2, <2>3, <2>4, <1>new, <1>same, <1>inv DEF Counted
<1>3. \A q \in Procs : Written(q)'
  BY <1>stage, <1>same, <1>inv, <1>types, StagesOfAClosing DEF Written, Closes
<1>4. /\ StoredInOrder' /\ UploadedMeansStored' /\ NothingKept' /\ RowsAreWholeTrials'
      /\ Subscribed'
  BY <1>same, <1>stage, <1>trial, <1>inv
  DEF StoredInOrder, UploadedMeansStored, NothingKept, RowsAreWholeTrials, Subscribed
<1>5. RowWhileClosing'
  BY <1>new, <1>same, <1>older, <1>types DEF RowWhileClosing
<1>6. EndingsKept'
  <2> SUFFICES ASSUME switches = 0, NEW t \in Trials, Closes(t)' PROVE EndingKept(t)'
    BY <1>same DEF EndingsKept
  <2>1. Closes(t) /\ t # p /\ EndingKept(t)
    BY <1>closes, <1>trial, <1>inv DEF EndingsKept
  <2> QED
    <3>1. t \in Procs /\ own'[t] = own[t] /\ own'[t] # session'
      BY <2>1, <1>stage, <1>new, <1>older, <1>trial, <1>types
    <3> QED
      BY <2>1, <3>1, <1>same DEF EndingKept
<1>7. Patience'
  <2> SUFFICES ASSUME patient
               PROVE  Alone' /\ OneTrial' /\ OnlyActiveOpen' /\ \A t \in Trials : Marked(t)'
    BY <1>same DEF Patience
  <2>1. Alone /\ OneTrial /\ OnlyActiveOpen /\ Marked(p)
    BY <1>inv, <1>trial DEF Patience
  <2>2. pc[p] # "idle"
    BY <1>closed, StagesOfAClosing DEF Closes
  <2>3. /\ \A q \in Procs : q # p => pc[q] = "idle"
        /\ ~running /\ own[p] = session
    BY <2>1, <2>2 DEF Alone
  <2>4. \A q \in Procs : pc'[q] # "idle" => q = p
    BY <2>3, <1>stage
  <2>unbooted. Unbooted' <=> Unbooted
    BY <1>same, <1>stage, <1>trial DEF Unbooted
  <2>5. Alone'
    <3>1. \A q \in Procs : pc'[q] # "idle" => own'[q] = session' /\ ~running'
      BY <2>3, <2>4, <1>same, <1>new, <1>stage
    <3>2. \A t \in Trials : pc'[t] # "idle" => ~Unbooted'
      BY <2>1, <2>2, <2>4, <2>unbooted, <1>trial DEF Alone
    <3> QED
      BY <2>1, <2>4, <3>1, <3>2, <1>same DEF Alone
  <2>6. \A q \in Procs : ~Closes(q)'
    BY <2>4, <1>closes, <1>stage, StagesOfAClosing DEF Closes
  <2>7. OneTrial'
    BY <2>3, <2>6, <1>same, <1>new, <1>trial, EmptyIsResting
  <2>8. Open' = Open
    BY <1>same DEF Open
  <2>9. Open = {}
    <3>1. \A q \in Procs : pc[q] \notin {"starting", "found"}
      BY <2>3, <1>closed, StagesOfAClosing DEF Closes
    <3>2. Open \subseteq {own[p]}
      BY <2>1, <2>2, <2>3, <3>1, <1>trial DEF OnlyActiveOpen, Alone
    <3>3. status[own[p]] # "in_progress"
      BY <2>1 DEF Rotate, Marked
    <3> QED
      BY <3>2, <3>3 DEF Open
  <2>10. OnlyActiveOpen'
    BY <2>8, <2>9, <1>types DEF OnlyActiveOpen
  <2>11. \A t \in Trials : Marked(t)'
    <3>1. \A t \in Trials : pc'[t] \in {"idle", "found"}
      BY <2>4, <1>stage, <1>trial
    <3> QED
      BY <3>1 DEF Marked, Settled
  <2> QED
    BY <2>5, <2>7, <2>10, <2>11
<1> QED
  BY <1>1, <1>2, <1>3, <1>4, <1>5, <1>6, <1>7 DEF TrialInv

(* Two steps of a process that registers its session: neither closes a      *)
(* trial, and what they leave alone keeps its part of the invariant.        *)
LEMMA RegisteringStep ==
  ASSUME TrialInv, NEW p \in Procs, NEW stage \in {"begin", "register"},
         pc[p] \in {"found", "begin"},
         UNCHANGED <<build, page, own, snap, found, stored, server, bounds, faults>>,
         pc' = [pc EXCEPT ![p] = stage]
  PROVE  /\ Counted' /\ StoredInOrder' /\ RowWhileClosing' /\ Subscribed' /\ EndingsKept'
         /\ RowsAreWholeTrials' /\ own[p] \in Sessions
         /\ patient => Alone' /\ OneTrial' /\ own[p] = session /\ \A t \in Trials : Marked(t)'
         /\ patient => \A q \in Procs : pc'[q] \notin {"starting", "found"}
         /\ pc' \in [Procs -> Stages] /\ \A q \in Procs : pc'[q] = IF q = p THEN stage ELSE pc[q]
<1> USE BoundsAssumption
<1>inv. /\ TypeOK /\ Counted /\ StoredInOrder /\ RowWhileClosing /\ Subscribed /\ EndingsKept
        /\ Patience /\ RowsAreWholeTrials /\ \A q \in Procs : Written(q)
  BY DEF TrialInv
<1>same. UNCHANGED <<build, running, trial, session, issued, trace, listeners, flushing,
                     own, snap, found, stored, rows, remote, reloads, switches, patient, rejections,
                     cutShort>>
  BY DEF page, server, bounds, faults
<1>types. /\ pc \in [Procs -> Stages] /\ own \in [Procs -> Sessions \cup {0}]
          /\ trial \in 0..MaxTrials
  BY <1>inv DEF TypeOK, ProcTypeOK
<1>stage. \A q \in Procs : pc'[q] = IF q = p THEN stage ELSE pc[q]
  BY <1>types
<1>closes. \A q \in Procs : Closes(q)' <=> Closes(q)
  BY <1>stage, StagesOfAClosing DEF Closes
<1>procs. Boot \in Procs /\ Trials \subseteq Procs
  BY DEF Procs
<1>1. Counted'
  <2>1. 1..trial \subseteq Procs
    BY <1>types DEF Procs, Trials
  <2>2. Spent' = {t \in 1..trial : ~Closes(t)' /\ ~(running /\ t = trial)}
    BY <1>same DEF Spent
  <2>3. Spent' = Spent
    BY <2>1, <2>2, <1>closes DEF Spent
  <2>4. ~Closes(Boot)' /\ \A t \in Trials : Closes(t)' => t <= trial /\ ~(running /\ t = trial)
    BY <1>closes, <1>procs, <1>inv DEF Counted
  <2> QED
    BY <2>3, <2>4, <1>same, <1>inv DEF Counted
<1>2. StoredInOrder' /\ RowsAreWholeTrials'
  BY <1>same, <1>inv DEF StoredInOrder, RowsAreWholeTrials
<1>3. RowWhileClosing' /\ EndingsKept'
  BY <1>same, <1>closes, <1>procs, <1>inv DEF RowWhileClosing, EndingsKept, EndingKept
<1>4. Subscribed'
  BY <1>same, <1>stage, <1>procs, <1>inv DEF Subscribed
<1>5. patient => Alone' /\ OneTrial' /\ own[p] = session /\ \A t \in Trials : Marked(t)'
  <2> SUFFICES ASSUME patient
               PROVE  Alone' /\ OneTrial' /\ own[p] = session /\ \A t \in Trials : Marked(t)'
    OBVIOUS
  <2>1. Alone /\ OneTrial
    BY <1>inv DEF Patience
  <2>2. \A q \in Procs : pc'[q] # "idle" <=> pc[q] # "idle"
    BY <1>stage
  <2>unbooted. Unbooted' <=> Unbooted
    BY <2>2, <1>same, <1>procs DEF Unbooted
  <2>3. Alone' /\ own[p] = session
    BY <2>1, <2>2, <2>unbooted, <1>same, <1>procs DEF Alone
  <2>4. OneTrial'
    <3>1. \A T : /\ Running(T)' <=> Running(T)
                 /\ Resting(T)' <=> Resting(T)
                 /\ Ended(T)' <=> Ended(T)
      BY <1>same, <2>unbooted, SameTrials
    <3> QED
      BY <2>1, <2>2, <3>1, <1>same, <1>closes, <1>procs DEF OneTrial
  <2>5. \A t \in Trials : Marked(t)'
    <3>1. \A q \in Procs : q # p => pc[q] = "idle"
      BY <2>1 DEF Alone
    <3>2. \A t \in Trials : pc'[t] \in {"idle", "begin", "register"}
      BY <3>1, <1>stage, <1>procs
    <3> QED
      BY <3>2 DEF Marked, Settled
  <2> QED
    BY <2>3, <2>4, <2>5
<1>6. patient => \A q \in Procs : pc'[q] \notin {"starting", "found"}
  BY <1>stage, <1>inv DEF Patience, Alone
<1>7. own[p] \in Sessions
  BY <1>types, <1>inv DEF Written
<1>8. pc' \in [Procs -> Stages]
  BY <1>types DEF Stages
<1> QED
  BY <1>1, <1>2, <1>3, <1>4, <1>5, <1>6, <1>7, <1>8, <1>stage

(* The session found open is marked incomplete, unless it is the one being  *)
(* begun: after that only the begun one can be open.                        *)
LEMMA MarkIncompleteKeepsInv ==
  ASSUME TrialInv, NEW p \in Procs, MarkIncomplete(p)
  PROVE  TrialInv'
<1>inv. /\ TypeOK /\ UploadedMeansStored /\ NothingKept /\ Patience
        /\ \A q \in Procs : Written(q)
  BY DEF TrialInv
<1>same. UNCHANGED <<build, running, trial, session, issued, trace, listeners, flushing,
                     own, snap, seen, found, stored, rows, remote, reloads, switches, patient, rejections,
                     cutShort>>
  BY DEF MarkIncomplete, page, server, bounds, faults
<1>1. /\ Counted' /\ StoredInOrder' /\ RowWhileClosing' /\ Subscribed' /\ EndingsKept'
      /\ RowsAreWholeTrials' /\ own[p] \in Sessions
      /\ patient => Alone' /\ OneTrial' /\ own[p] = session /\ \A t \in Trials : Marked(t)'
      /\ patient => \A q \in Procs : pc'[q] \notin {"starting", "found"}
      /\ pc' \in [Procs -> Stages] /\ \A q \in Procs : pc'[q] = IF q = p THEN "begin" ELSE pc[q]
  <2>1. /\ pc[p] \in {"found", "begin"} /\ pc' = [pc EXCEPT ![p] = "begin"]
        /\ UNCHANGED <<build, page, own, snap, found, stored, server, bounds, faults>>
    BY DEF MarkIncomplete, Goto
  <2> QED
    BY <2>1, RegisteringStep
<1>types. status \in [Sessions -> Statuses] /\ found[p] \in Sessions \cup {0}
  BY <1>inv DEF TypeOK, ProcTypeOK
<1>2. \/ UNCHANGED status /\ (found[p] \in {0, own[p]} \/ status[found[p]] = "none")
      \/ /\ found[p] \in Sessions /\ status[found[p]] # "none"
         /\ status' = [status EXCEPT ![found[p]] = "incomplete"]
  BY <1>types DEF MarkIncomplete, Mark, Put
<1>3. TypeOK'
  <2>1. status' \in [Sessions -> Statuses]
    BY <1>2, <1>types DEF Statuses
  <2> QED
    BY <2>1, <1>1, <1>same, <1>inv DEF TypeOK, ProcTypeOK
<1>4. \A q \in Procs : Written(q)'
  <2>1. Written(p)'
    BY <1>1, StagesOfAClosing, BoundsAssumption, <1>same DEF Written, Closes, Sessions
  <2> QED
    BY <2>1, <1>1, <1>same, <1>inv DEF Written, Closes
<1>5. UploadedMeansStored' /\ NothingKept'
  BY <1>2, <1>types, <1>same, <1>inv DEF UploadedMeansStored, NothingKept
<1>6. Patience'
  <2> SUFFICES ASSUME patient
               PROVE  Alone' /\ OneTrial' /\ OnlyActiveOpen' /\ \A t \in Trials : Marked(t)'
    BY <1>same DEF Patience
  <2>1. Open \subseteq {found[p]} /\ session \in Sessions
    BY <1>inv DEF Patience, OnlyActiveOpen, MarkIncomplete, TypeOK
  <2>2. Open' \subseteq {session}
    <3>1. CASE UNCHANGED status /\ (found[p] \in {0, own[p]} \/ status[found[p]] = "none")
      <4>1. Open' = Open /\ 0 \notin Sessions
        BY <3>1 DEF Open, Sessions
      <4> QED
        BY <4>1, <3>1, <2>1, <1>1 DEF Open
    <3>2. CASE status' = [status EXCEPT ![found[p]] = "incomplete"]
      BY <3>2, <2>1, <1>types DEF Open
    <3> QED
      BY <3>1, <3>2, <1>2
  <2>3. OnlyActiveOpen'
    <3>1. \A t \in Trials : pc'[t] # "found"
      BY <1>1 DEF Procs
    <3> QED
      BY <3>1, <2>1, <2>2, <1>1, <1>same DEF OnlyActiveOpen
  <2> QED
    BY <2>3, <1>1
<1> QED
  BY <1>1, <1>3, <1>4, <1>5, <1>6 DEF TrialInv

(* The own record is read before it is written.                             *)
LEMMA ReadOwnRecordKeepsInv ==
  ASSUME TrialInv, NEW p \in Procs, ReadOwnRecord(p)
  PROVE  TrialInv'
<1>inv. /\ TypeOK /\ UploadedMeansStored /\ NothingKept /\ Patience
        /\ \A q \in Procs : Written(q)
  BY DEF TrialInv
<1>same. UNCHANGED <<build, running, trial, session, issued, trace, listeners, flushing,
                     own, snap, found, status, stored, rows, remote, reloads, switches, patient, rejections,
                     cutShort>>
  BY DEF ReadOwnRecord, page, local, server, bounds, faults
<1>1. /\ Counted' /\ StoredInOrder' /\ RowWhileClosing' /\ Subscribed' /\ EndingsKept'
      /\ RowsAreWholeTrials' /\ own[p] \in Sessions
      /\ patient => Alone' /\ OneTrial' /\ own[p] = session /\ \A t \in Trials : Marked(t)'
      /\ patient => \A q \in Procs : pc'[q] \notin {"starting", "found"}
      /\ pc' \in [Procs -> Stages]
      /\ \A q \in Procs : pc'[q] = IF q = p THEN "register" ELSE pc[q]
  <2>1. /\ pc[p] \in {"found", "begin"} /\ pc' = [pc EXCEPT ![p] = "register"]
        /\ UNCHANGED <<build, page, own, snap, found, stored, server, bounds, faults>>
    BY DEF ReadOwnRecord, Goto, local
  <2> QED
    BY <2>1, RegisteringStep
<1>2. seen' = [seen EXCEPT ![p] = status[own[p]]] /\ seen \in [Procs -> Statuses]
      /\ status[own[p]] \in Statuses
  BY <1>inv, <1>1 DEF ReadOwnRecord, GetSession, TypeOK, ProcTypeOK
<1>3. TypeOK'
  <2>1. seen' \in [Procs -> Statuses]
    BY <1>2
  <2> QED
    BY <2>1, <1>1, <1>same, <1>inv DEF TypeOK, ProcTypeOK
<1>4. \A q \in Procs : Written(q)'
  <2>1. \A q \in Procs : seen'[q] = IF q = p THEN status[own[p]] ELSE seen[q]
    BY <1>2
  <2>2. Written(p)'
    BY <2>1, <1>1, <1>same, <1>inv, StagesOfAClosing
    DEF Written, Closes, UploadedMeansStored, ReadOwnRecord
  <2> QED
    BY <2>1, <2>2, <1>1, <1>same, <1>inv DEF Written, Closes
<1>5. UploadedMeansStored' /\ NothingKept'
  BY <1>same, <1>inv DEF UploadedMeansStored, NothingKept
<1>6. Patience'
  <2> SUFFICES ASSUME patient
               PROVE  Alone' /\ OneTrial' /\ OnlyActiveOpen' /\ \A t \in Trials : Marked(t)'
    BY <1>same DEF Patience
  <2>1. \A q \in Procs : pc[q] \notin {"starting", "found"}
    BY <1>1, <1>inv DEF ReadOwnRecord
  <2>2. ~Unbooted
    <3>1. p = Boot \/ p \in Trials
      BY DEF Procs
    <3> QED
      BY <3>1, <1>inv DEF ReadOwnRecord, Patience, Alone, Unbooted
  <2>3. Open' = Open /\ Open \subseteq {session} /\ session \in Sessions
    BY <2>1, <2>2, <1>same, <1>inv DEF Patience, OnlyActiveOpen, Open, TypeOK
  <2>4. OnlyActiveOpen'
    <3>1. \A t \in Trials : pc'[t] # "found"
      BY <1>1 DEF Procs
    <3> QED
      BY <3>1, <2>3, <1>1, <1>same DEF OnlyActiveOpen
  <2> QED
    BY <2>4, <1>1
<1> QED
  BY <1>1, <1>3, <1>4, <1>5, <1>6 DEF TrialInv

(* The closer is subscribed behind the recorder's listener.                 *)
LEMMA SubscriptionOrder ==
  Append(<<"record">>, "close") = <<"record", "close">> /\ Append(<< >>, "record") = <<"record">>
<1> DEFINE Names == {"record", "close"}
<1>1. /\ << >> \in Seq(Names) /\ <<"record">> \in Seq(Names)
      /\ <<"record", "close">> \in Seq(Names)
      /\ "record" \in Names /\ "close" \in Names
  OBVIOUS
<1>2. ASSUME NEW s \in Seq(Names), NEW t \in Seq(Names), NEW e \in Names,
             Len(t) = Len(s) + 1, \A i \in 1..Len(s) : t[i] = s[i], t[Len(s) + 1] = e
      PROVE  Append(s, e) = t
  <2> DEFINE a == Append(s, e)
  <2>1. /\ a \in Seq(Names) /\ Len(a) = Len(t) /\ Len(s) \in Nat
        /\ \A i \in 1..Len(s) : a[i] = s[i]
        /\ a[Len(s) + 1] = e
    BY <1>2, AppendProperties, LenProperties
  <2>2. \A i \in 1..Len(a) : i \in 1..Len(s) \/ i = Len(s) + 1
    BY <2>1, <1>2
  <2>3. \A i \in 1..Len(a) : a[i] = t[i]
    BY <2>1, <2>2, <1>2
  <2> HIDE DEF a
  <2>4. a = t
    BY <2>1, <2>3, SeqEqual
  <2> QED
    BY <2>4 DEF a
<1>3. /\ Len(<<"record", "close">>) = Len(<<"record">>) + 1 /\ Len(<<"record">>) = 1
      /\ Len(<<"record">>) = Len(<< >>) + 1 /\ Len(<< >>) = 0
      /\ <<"record", "close">>[1] = <<"record">>[1] /\ <<"record", "close">>[2] = "close"
      /\ <<"record">>[1] = "record"
  OBVIOUS
<1>4. 1..1 = {1} /\ 1..0 = {}
  OBVIOUS
<1> HIDE DEF Names
<1>5. Append(<<"record">>, "close") = <<"record", "close">>
  <2>1. /\ \A i \in 1..Len(<<"record">>) : <<"record", "close">>[i] = <<"record">>[i]
        /\ <<"record", "close">>[Len(<<"record">>) + 1] = "close"
    BY <1>3, <1>4
  <2> QED
    BY <2>1, <1>1, <1>2, <1>3
<1>6. Append(<< >>, "record") = <<"record">>
  <2>1. /\ \A i \in 1..Len(<< >>) : <<"record">>[i] = << >>[i]
        /\ <<"record">>[Len(<< >>) + 1] = "record"
    BY <1>3, <1>4
  <2> QED
    BY <2>1, <1>1, <1>2, <1>3
<1> QED
  BY <1>5, <1>6

(* The session is registered with the status its record had; after the      *)
(* page's own registration the closer is subscribed.                        *)
LEMMA RegisterKeepsInv ==
  ASSUME TrialInv, NEW p \in Procs, Register(p)
  PROVE  TrialInv'
<1> USE BoundsAssumption
<1>inv. /\ TypeOK /\ Counted /\ StoredInOrder /\ UploadedMeansStored /\ RowWhileClosing
        /\ NothingKept /\ Subscribed /\ EndingsKept /\ Patience /\ RowsAreWholeTrials
        /\ \A q \in Procs : Written(q)
  BY DEF TrialInv
<1>same. UNCHANGED <<build, running, trial, session, issued, trace, stored, rows, remote,
                     reloads, switches, patient, rejections,
                     cutShort>>
  BY DEF Register, server, bounds, faults
<1>types. /\ pc \in [Procs -> Stages] /\ own \in [Procs -> Sessions \cup {0}]
          /\ snap \in [Procs -> SUBSET Records] /\ seen \in [Procs -> Statuses]
          /\ found \in [Procs -> Sessions \cup {0}] /\ status \in [Sessions -> Statuses]
          /\ trial \in 0..MaxTrials /\ session \in Sessions /\ issued \in Nat
  BY <1>inv DEF TypeOK, ProcTypeOK, Sessions
<1>reg. pc[p] = "register" /\ own[p] \in Sessions
  BY <1>inv, <1>types DEF Register, Written
<1>new. /\ pc' = [pc EXCEPT ![p] = "idle"] /\ own' = [own EXCEPT ![p] = 0]
        /\ snap' = [q \in Procs |-> IF q = p THEN {} ELSE snap[q]]
        /\ seen' = [q \in Procs |-> IF q = p THEN "none" ELSE seen[q]]
        /\ found' = [q \in Procs |-> IF q = p THEN 0 ELSE found[q]]
        /\ listeners' = IF p = Boot THEN Append(listeners, "close") ELSE listeners
        /\ flushing' = (flushing \/ p = Boot)
  BY DEF Register, Goto, Forget
<1>stage. /\ \A q \in Procs : pc'[q] = IF q = p THEN "idle" ELSE pc[q]
          /\ \A q \in Procs : own'[q] = IF q = p THEN 0 ELSE own[q]
  BY <1>new, <1>types
<1>closes. \A q \in Procs : Closes(q)' <=> Closes(q)
  BY <1>stage, <1>reg, StagesOfAClosing DEF Closes
<1>procs. Boot \in Procs /\ Trials \subseteq Procs
  BY DEF Procs
<1>status. PICK v \in Statuses \ {"none"} :
             /\ \/ UNCHANGED status
                \/ build.durable /\ status' = [status EXCEPT ![own[p]] = v]
             /\ v = "uploaded" => remote[own[p]] # NoTrace
  <2>1. seen[p] \in Statuses /\ "in_progress" \in Statuses /\ "in_progress" # "none"
        /\ "in_progress" # "uploaded"
    BY <1>types DEF Statuses
  <2>2. seen[p] = "uploaded" => remote[own[p]] # NoTrace
    BY <1>reg, <1>inv DEF Written
  <2> QED
    BY <2>1, <2>2 DEF Register, Put
<1>1. TypeOK'
  <2>1. pc' \in [Procs -> Stages] /\ own' \in [Procs -> Sessions \cup {0}]
    BY <1>types, <1>new DEF Stages
  <2>2. /\ snap' \in [Procs -> SUBSET Records] /\ seen' \in [Procs -> Statuses]
        /\ found' \in [Procs -> Sessions \cup {0}]
    BY <1>types, <1>new DEF Statuses
  <2>3. status' \in [Sessions -> Statuses]
    BY <1>types, <1>status
  <2>4. listeners' \in Seq({"record", "close"})
    BY <1>new, <1>inv, AppendProperties DEF TypeOK
  <2>5. flushing' \in BOOLEAN
    BY <1>new, <1>inv DEF TypeOK
  <2> QED
    BY <2>1, <2>2, <2>3, <2>4, <2>5, <1>same, <1>inv DEF TypeOK, ProcTypeOK
<1>2. Counted'
  <2>1. 1..trial \subseteq Procs
    BY <1>types DEF Procs, Trials
  <2>2. Spent' = {t \in 1..trial : ~Closes(t)' /\ ~(running /\ t = trial)}
    BY <1>same DEF Spent
  <2>3. Spent' = Spent
    BY <2>1, <2>2, <1>closes DEF Spent
  <2>4. ~Closes(Boot)' /\ \A t \in Trials : Closes(t)' => t <= trial /\ ~(running /\ t = trial)
    BY <1>closes, <1>procs, <1>inv DEF Counted
  <2>5. \A q \in Procs : own'[q] <= issued
    BY <1>stage, <1>types, <1>inv DEF Counted
  <2> QED
    BY <2>3, <2>4, <2>5, <1>same, <1>inv DEF Counted
<1>3. \A q \in Procs : Written(q)'
  <2>1. Written(p)'
    BY <1>stage, StagesOfAClosing DEF Written, Closes
  <2>2. \A q \in Procs : q # p => seen'[q] = seen[q]
    BY <1>new
  <2> QED
    BY <2>1, <2>2, <1>stage, <1>same, <1>inv DEF Written, Closes
<1>4. StoredInOrder' /\ RowsAreWholeTrials'
  BY <1>same, <1>inv DEF StoredInOrder, RowsAreWholeTrials
<1>5. UploadedMeansStored' /\ NothingKept'
  BY <1>same, <1>types, <1>reg, <1>status, <1>inv DEF UploadedMeansStored, NothingKept
<1>6. RowWhileClosing'
  <2>1. \A t \in Trials : Closes(t) => own'[t] = own[t]
    BY <1>stage, <1>reg, <1>procs, StagesOfAClosing DEF Closes
  <2> QED
    BY <2>1, <1>same, <1>closes, <1>procs, <1>inv DEF RowWhileClosing
<1>7. EndingsKept'
  <2>1. \A t \in Trials : Closes(t) => t # p
    BY <1>reg, StagesOfAClosing DEF Closes
  <2> QED
    BY <2>1, <1>same, <1>stage, <1>closes, <1>procs, <1>inv DEF EndingsKept, EndingKept
<1>8. Subscribed'
  <2> SUFFICES ASSUME switches = 0
               PROVE  IF pc'[Boot] = "idle"
                      THEN listeners' \in {<<"record", "close">>, <<"record">>}
                      ELSE listeners' = IF pc'[Boot] = "starting" THEN << >> ELSE <<"record">>
    BY <1>same DEF Subscribed
  <2>1. CASE p = Boot
    <3>1. listeners = <<"record">> /\ pc'[Boot] = "idle"
      BY <2>1, <1>reg, <1>stage, <1>inv DEF Subscribed
    <3>2. Append(<<"record">>, "close") = <<"record", "close">>
      BY SubscriptionOrder
    <3> QED
      BY <2>1, <3>1, <3>2, <1>new
  <2>2. CASE p # Boot
    BY <2>2, <1>new, <1>stage, <1>procs, <1>inv DEF Subscribed
  <2> QED
    BY <2>1, <2>2
<1>9. Patience'
  <2> SUFFICES ASSUME patient
               PROVE  Alone' /\ OneTrial' /\ OnlyActiveOpen' /\ \A t \in Trials : Marked(t)'
    BY <1>same DEF Patience
  <2>1. Alone /\ OneTrial /\ OnlyActiveOpen
    BY <1>inv DEF Patience
  <2>2. /\ \A q \in Procs : q # p => pc[q] = "idle"
        /\ ~running /\ own[p] = session
    BY <2>1, <1>reg DEF Alone
  <2>3. \A q \in Procs : pc'[q] = "idle"
    BY <2>2, <1>stage
  <2>4. Alone'
    BY <2>1, <2>3, <1>same, <1>procs DEF Alone
  <2>5. \A q \in Procs : ~Closes(q) /\ ~Closes(q)'
    BY <2>3, <1>closes, StagesOfAClosing DEF Closes
  <2>6. OneTrial'
    <3>1. CASE p = Boot
      BY <3>1, <2>1, <2>2, <2>5, <1>reg, <1>same, <1>procs, EmptyIsResting DEF OneTrial
    <3>2. CASE p # Boot
      <4>1. Unbooted' <=> Unbooted
        BY <3>2, <1>stage, <1>new, <1>procs DEF Unbooted
      <4>2. \A T : Resting(T)' <=> Resting(T)
        BY <4>1, <1>same, SameTrials
      <4>3. \E T \in SUBSET Trials : Resting(T)'
        BY <4>2, <2>1, <2>2, <2>5, <1>procs DEF OneTrial
      <4> QED
        BY <4>3, <2>2, <2>3, <2>5, <1>same, <1>procs DEF OneTrial
    <3> QED
      BY <3>1, <3>2
  <2>7. Open' \subseteq {session}
    <3>0. p = Boot \/ p \in Trials
      BY DEF Procs
    <3>1. Open \subseteq {session}
      BY <3>0, <2>1, <2>2, <1>reg DEF OnlyActiveOpen, Alone, Unbooted
    <3>2. Open' \subseteq Open \cup {own[p]}
      BY <1>status, <1>types DEF Open
    <3> QED
      BY <3>1, <3>2, <2>2
  <2>8. OnlyActiveOpen'
    BY <2>3, <2>7, <1>same, <1>types, <1>procs DEF OnlyActiveOpen
  <2>9. \A t \in Trials : Marked(t)'
    BY <2>3, <1>procs DEF Marked, Settled
  <2> QED
    BY <2>4, <2>6, <2>8, <2>9
<1> QED
  BY <1>1, <1>2, <1>3, <1>4, <1>5, <1>6, <1>7, <1>8, <1>9 DEF TrialInv

(* The runtime is up: its listener records, and a session left open is      *)
(* looked for.                                                              *)
LEMMA RuntimeUpKeepsInv == TrialInv /\ RuntimeUp => TrialInv'
<1> SUFFICES ASSUME TrialInv, RuntimeUp PROVE TrialInv'
  OBVIOUS
<1> USE BoundsAssumption
<1>inv. /\ TypeOK /\ Counted /\ StoredInOrder /\ UploadedMeansStored /\ RowWhileClosing
        /\ NothingKept /\ Subscribed /\ EndingsKept /\ Patience /\ RowsAreWholeTrials
        /\ \A q \in Procs : Written(q)
  BY DEF TrialInv
<1>same. UNCHANGED <<build, running, trial, session, issued, trace, flushing, own, snap, seen, status,
                     stored, rows, remote, reloads, switches, patient, rejections,
                     cutShort>>
  BY DEF RuntimeUp, local, server, bounds, faults
<1>types. /\ pc \in [Procs -> Stages] /\ found \in [Procs -> Sessions \cup {0}]
          /\ trial \in 0..MaxTrials /\ session \in Sessions
  BY <1>inv DEF TypeOK, ProcTypeOK
<1>procs. Boot \in Procs /\ Trials \subseteq Procs
  BY DEF Procs
<1>new. pc[Boot] = "starting" /\ pc' = [pc EXCEPT ![Boot] = "found"]
        /\ listeners' = Append(listeners, "record")
  BY DEF RuntimeUp
<1>found. PICK f \in Sessions \cup {0} :
            /\ found' = [found EXCEPT ![Boot] = f] /\ f \in Recoverable
  BY DEF RuntimeUp, Recoverable
<1>stage. \A q \in Procs : pc'[q] = IF q = Boot THEN "found" ELSE pc[q]
  BY <1>new, <1>types
<1>closes. \A q \in Procs : Closes(q)' <=> Closes(q)
  BY <1>stage, <1>new, StagesOfAClosing DEF Closes
<1>1. TypeOK'
  <2>1. pc' \in [Procs -> Stages] /\ found' \in [Procs -> Sessions \cup {0}]
    BY <1>types, <1>new, <1>found DEF Stages
  <2>2. listeners' \in Seq({"record", "close"})
    BY <1>new, <1>inv, AppendProperties DEF TypeOK
  <2> QED
    BY <2>1, <2>2, <1>same, <1>inv DEF TypeOK, ProcTypeOK
<1>2. Counted'
  <2>1. 1..trial \subseteq Procs
    BY <1>types DEF Procs, Trials
  <2>2. Spent' = {t \in 1..trial : ~Closes(t)' /\ ~(running /\ t = trial)}
    BY <1>same DEF Spent
  <2>3. Spent' = Spent
    BY <2>1, <2>2, <1>closes DEF Spent
  <2>4. ~Closes(Boot)' /\ \A t \in Trials : Closes(t)' => t <= trial /\ ~(running /\ t = trial)
    BY <1>closes, <1>procs, <1>inv DEF Counted
  <2> QED
    BY <2>3, <2>4, <1>same, <1>inv DEF Counted
<1>3. \A q \in Procs : Written(q)'
  <2>1. Written(Boot)'
    BY <1>stage, <1>new, <1>same, <1>procs, <1>inv, StagesOfAClosing DEF Written, Closes
  <2> QED
    BY <2>1, <1>stage, <1>same, <1>inv DEF Written, Closes
<1>4. /\ StoredInOrder' /\ RowsAreWholeTrials' /\ UploadedMeansStored' /\ NothingKept'
  BY <1>same, <1>inv DEF StoredInOrder, RowsAreWholeTrials, UploadedMeansStored, NothingKept
<1>5. RowWhileClosing' /\ EndingsKept'
  BY <1>same, <1>closes, <1>procs, <1>inv DEF RowWhileClosing, EndingsKept, EndingKept
<1>6. Subscribed'
  BY <1>new, <1>same, <1>stage, <1>procs, <1>inv, SubscriptionOrder DEF Subscribed
<1>7. Patience'
  <2> SUFFICES ASSUME patient
               PROVE  Alone' /\ OneTrial' /\ OnlyActiveOpen' /\ \A t \in Trials : Marked(t)'
    BY <1>same DEF Patience
  <2>1. Alone /\ OneTrial /\ OnlyActiveOpen
    BY <1>inv DEF Patience
  <2>2. \A q \in Procs : pc'[q] # "idle" <=> pc[q] # "idle"
    BY <1>stage, <1>new
  <2>3. Alone'
    <3>1. ~Unbooted'
      BY <1>stage, <1>procs DEF Unbooted
    <3> QED
      BY <2>1, <2>2, <3>1, <1>same DEF Alone
  <2>5. \A q \in Procs : q # Boot => pc[q] = "idle"
    BY <2>1, <1>new, <1>procs DEF Alone
  <2>4. OneTrial'
    <3>1. trace = {} /\ ~running
      BY <2>1, <1>new, <1>procs DEF OneTrial, Alone
    <3>2. \A t \in Trials : ~Closes(t)'
      BY <2>5, <1>closes, <1>procs, <1>inv, StagesOfAClosing DEF Closes, Counted
    <3> QED
      BY <3>1, <3>2, <1>same, EmptyIsResting
  <2>6. Open' = Open /\ pc'[Boot] = "found"
    BY <1>same, <1>stage, <1>procs DEF Open
  <2>7. Open \subseteq {f}
    BY <2>1, <1>found, <1>inv DEF OnlyActiveOpen, Recoverable, Open, NothingKept
  <2>8. \A q \in Procs : pc'[q] = "found" => found'[q] = f
    BY <2>5, <1>stage, <1>found, <1>types
  <2>9. OnlyActiveOpen'
    <3>1. \A t \in Trials : pc'[t] # "found"
      BY <2>5, <1>stage, <1>procs DEF Boot, Trials
    <3> QED
      BY <2>1, <2>6, <2>7, <2>8, <3>1, <1>procs DEF OnlyActiveOpen
  <2>10. \A t \in Trials : Marked(t)'
    BY <2>5, <1>stage, <1>procs DEF Marked, Settled
  <2> QED
    BY <2>3, <2>4, <2>9, <2>10
<1> QED
  BY <1>1, <1>2, <1>3, <1>4, <1>5, <1>6, <1>7 DEF TrialInv

(* A reload ends every process: the stores keep what they have, and the     *)
(* page boots under an id of its own.                                       *)
LEMMA ReloadKeepsInv == TrialInv /\ Reload => TrialInv'
<1> SUFFICES ASSUME TrialInv, Reload PROVE TrialInv'
  OBVIOUS
<1> USE BoundsAssumption
<1>inv. /\ TypeOK /\ Counted /\ StoredInOrder /\ UploadedMeansStored /\ RowWhileClosing
        /\ NothingKept /\ Subscribed /\ EndingsKept /\ Patience /\ RowsAreWholeTrials
  BY DEF TrialInv
<1>same. UNCHANGED <<build, trial, status, stored, rows, remote, switches, patient, rejections,
                     cutShort>>
  BY DEF Reload, local, server, faults
<1>new. /\ reloads < MaxReloads /\ reloads' = reloads + 1
        /\ running' = FALSE /\ session' = issued + 1 /\ issued' = issued + 1
        /\ trace' = {} /\ listeners' = << >> /\ flushing' = FALSE
        /\ pc' = [p \in Procs |-> IF p = Boot THEN "starting" ELSE "idle"]
        /\ own' = [p \in Procs |-> IF p = Boot THEN issued + 1 ELSE 0]
        /\ snap' = [p \in Procs |-> {}]
        /\ seen' = [p \in Procs |-> "none"]
        /\ found' = [p \in Procs |-> 0]
  BY DEF Reload, PageLoaded, Fresh, Forget
<1>types. /\ issued \in Nat /\ trial \in 0..MaxTrials /\ reloads \in 0..MaxReloads
          /\ rows \subseteq 1..issued
  BY <1>inv DEF TypeOK, Counted, Sessions
<1>procs. Boot \in Procs /\ Trials \subseteq Procs /\ Boot \notin Trials
  BY DEF Procs, Boot, Trials
<1>stage. /\ \A q \in Procs : pc'[q] = IF q = Boot THEN "starting" ELSE "idle"
          /\ \A q \in Procs : own'[q] = IF q = Boot THEN issued + 1 ELSE 0
  BY <1>new
<1>closes. \A q \in Procs : ~Closes(q)'
  BY <1>stage, StagesOfAClosing DEF Closes
<1>count. Cardinality(Spent) \in 0..MaxTrials /\ issued <= 1 + reloads + Cardinality(Spent)
  BY <1>inv, SpentIsFinite DEF Counted
<1>fresh. issued + 1 \in Sessions
  BY <1>count, <1>new, <1>types DEF Sessions
<1>1. TypeOK'
  <2>1. /\ pc' \in [Procs -> Stages] /\ own' \in [Procs -> Sessions \cup {0}]
        /\ snap' \in [Procs -> SUBSET Records] /\ seen' \in [Procs -> Statuses]
        /\ found' \in [Procs -> Sessions \cup {0}]
    BY <1>new, <1>fresh DEF Stages, Statuses
  <2>2. listeners' \in Seq({"record", "close"})
    BY <1>new, EmptySeq
  <2>3. reloads' \in 0..MaxReloads
    BY <1>new, <1>types
  <2>4. running' \in BOOLEAN /\ trace' \subseteq Records /\ session' \in Sessions
        /\ issued' \in Sessions /\ flushing' \in BOOLEAN
    BY <1>new, <1>fresh
  <2>5. ProcTypeOK'
    BY <2>1 DEF ProcTypeOK
  <2> QED
    BY <2>2, <2>3, <2>4, <2>5, <1>same, <1>inv DEF TypeOK
<1>2. Counted'
  <2>1. 1..trial \subseteq Trials
    BY <1>types DEF Trials
  <2>2. Spent' = {t \in 1..trial : ~Closes(t)' /\ ~(running' /\ t = trial)}
    BY <1>same DEF Spent
  <2>3. Spent \subseteq Spent' /\ Spent' \in SUBSET Trials
    BY <2>1, <2>2, <1>closes, <1>procs, <1>new DEF Spent
  <2>4. Cardinality(Spent) <= Cardinality(Spent')
    BY <2>3, <1>inv, SpentIsFinite
  <2>5. Cardinality(Spent') \in Nat
    BY <2>3, <1>inv, SpentIsFinite
  <2>6. issued + 1 <= 1 + (reloads + 1) + Cardinality(Spent')
    BY <2>4, <2>5, <1>count, <1>types
  <2>7. rows \subseteq 1..(issued + 1) /\ \A q \in Procs : own'[q] <= issued + 1
    BY <1>types, <1>stage
  <2> QED
    BY <2>6, <2>7, <1>closes, <1>procs, <1>new, <1>same DEF Counted
<1>3. \A q \in Procs : Written(q)'
  BY <1>stage, <1>closes, <1>types DEF Written
<1>4. StoredInOrder' /\ RowsAreWholeTrials' /\ UploadedMeansStored' /\ NothingKept'
  BY <1>same, <1>inv DEF StoredInOrder, RowsAreWholeTrials, UploadedMeansStored, NothingKept
<1>5. RowWhileClosing' /\ EndingsKept'
  BY <1>new, <1>same, <1>types, <1>closes, <1>procs DEF RowWhileClosing, EndingsKept
<1>6. Subscribed'
  BY <1>new, <1>stage, <1>procs DEF Subscribed
<1>7. Patience'
  <2> SUFFICES ASSUME patient
               PROVE  Alone' /\ OneTrial' /\ OnlyActiveOpen' /\ \A t \in Trials : Marked(t)'
    BY <1>same DEF Patience
  <2>1. Alone /\ OnlyActiveOpen
    BY <1>inv DEF Patience
  <2>2. Alone'
    BY <2>1, <1>stage, <1>new, <1>same, <1>procs DEF Alone
  <2>3. OneTrial'
    BY <1>new, <1>closes, <1>procs, EmptyIsResting
  <2>4. Open' = Open
    BY <1>same DEF Open
  <2>5. pc'[Boot] = "starting" /\ \A q \in Procs : pc'[q] # "found"
    BY <1>stage, <1>procs
  <2>6. OnlyActiveOpen'
    BY <2>1, <2>4, <2>5, <1>procs DEF OnlyActiveOpen
  <2>7. \A t \in Trials : Marked(t)'
    BY <1>stage, <1>procs DEF Marked, Settled
  <2> QED
    BY <2>2, <2>3, <2>6, <2>7
<1> QED
  BY <1>1, <1>2, <1>3, <1>4, <1>5, <1>6, <1>7 DEF TrialInv

(* A task starts, over whatever task was running.                           *)
LEMMA StartTaskKeepsInv == TrialInv /\ StartTask => TrialInv'
<1> SUFFICES ASSUME TrialInv, StartTask PROVE TrialInv'
  OBVIOUS
<1> USE BoundsAssumption
<1>inv. /\ TypeOK /\ Counted /\ StoredInOrder /\ UploadedMeansStored /\ RowWhileClosing
        /\ NothingKept /\ Subscribed /\ EndingsKept /\ Patience /\ RowsAreWholeTrials
        /\ \A q \in Procs : Written(q)
  BY DEF TrialInv
<1>same. UNCHANGED <<build, session, issued, listeners, flushing, pc, own, snap, seen, found, status,
                     stored, rows, remote, reloads, switches, rejections, cutShort>>
  BY DEF StartTask, procs, local, server, faults
<1>types. /\ trial \in 0..MaxTrials /\ session \in Sessions /\ trace \subseteq Records
  BY <1>inv DEF TypeOK
<1>new. /\ trial' = trial + 1 /\ running' = TRUE /\ trial + 1 \in Trials
        /\ trace' = IF "record" \in {listeners[i] : i \in DOMAIN listeners}
                    THEN trace \cup {<<trial + 1, "start">>} ELSE trace
        /\ patient' = (patient /\ ~running /\ AtRest)
  BY <1>types DEF StartTask, Record, Trials
<1>trace. trace \subseteq trace' /\ trace' \subseteq Records
  BY <1>new, <1>types DEF Records
<1>procs. Boot \in Procs /\ Trials \subseteq Procs
  BY DEF Procs
<1>closes. \A q \in Procs : Closes(q)' <=> Closes(q)
  BY <1>same DEF Closes
<1>1. TypeOK'
  <2>1. ProcTypeOK' /\ trial' \in 0..MaxTrials /\ running' \in BOOLEAN /\ patient' \in BOOLEAN
    BY <1>same, <1>new, <1>inv DEF TypeOK, ProcTypeOK, Trials
  <2> QED
    BY <2>1, <1>trace, <1>same, <1>inv DEF TypeOK
<1>2. Counted'
  <2>1. Spent' = {t \in 1..(trial + 1) : ~Closes(t)' /\ ~(t = trial + 1)}
    BY <1>new DEF Spent
  <2>2. Spent \subseteq Spent' /\ Spent' \in SUBSET Trials
    BY <2>1, <1>closes, <1>procs, <1>new, <1>types DEF Spent, Trials
  <2>3. issued' <= 1 + reloads' + Cardinality(Spent')
    BY <2>2, <1>same, <1>inv, CountStays
  <2>4. ~Closes(Boot)'
    BY <1>closes, <1>procs, <1>inv DEF Counted
  <2>5. \A t \in Trials : Closes(t)' => t <= trial + 1 /\ t # trial + 1
    BY <1>closes, <1>procs, <1>types, <1>inv DEF Counted, Trials
  <2> QED
    BY <2>3, <2>4, <2>5, <1>new, <1>types, <1>same, <1>inv DEF Counted
<1>3. \A q \in Procs : Written(q)'
  BY <1>same, <1>inv DEF Written, Closes
<1>4. /\ StoredInOrder' /\ UploadedMeansStored' /\ NothingKept' /\ RowsAreWholeTrials'
      /\ Subscribed'
  BY <1>same, <1>new, <1>inv
  DEF StoredInOrder, UploadedMeansStored, NothingKept, RowsAreWholeTrials, Subscribed
<1>5. RowWhileClosing' /\ EndingsKept'
  BY <1>same, <1>trace, <1>closes, <1>procs, <1>inv DEF RowWhileClosing, EndingsKept, EndingKept
<1>6. Patience'
  <2> SUFFICES ASSUME patient'
               PROVE  Alone' /\ OneTrial' /\ OnlyActiveOpen' /\ \A t \in Trials : Marked(t)'
    BY DEF Patience
  <2>1. /\ patient /\ Alone /\ OneTrial /\ OnlyActiveOpen /\ ~running
        /\ \A q \in Procs : pc[q] = "idle"
    BY <1>new, <1>inv DEF Patience, AtRest
  <2>2. Alone'
    BY <2>1, <1>same, <1>procs DEF Alone
  <2>3. \A q \in Procs : ~Closes(q)
    BY <2>1, StagesOfAClosing DEF Closes
  <2>4. "record" \in {listeners[i] : i \in DOMAIN listeners}
    <3>1. listeners \in {<<"record", "close">>, <<"record">>}
      BY <2>1, <1>procs, <1>inv DEF Subscribed, Alone
    <3>2. CASE listeners = <<"record", "close">>
      <4>1. 1 \in DOMAIN listeners /\ listeners[1] = "record"
        BY <3>2
      <4> QED
        BY <4>1
    <3>3. CASE listeners = <<"record">>
      <4>1. 1 \in DOMAIN listeners /\ listeners[1] = "record"
        BY <3>3
      <4> QED
        BY <4>1
    <3> QED
      BY <3>1, <3>2, <3>3
  <2>5. PICK T \in SUBSET Trials : Resting(T)
    BY <2>1, <2>3, <1>procs DEF OneTrial
  <2>6. OneTrial'
    <3>1. trace' = Whole(T) \cup {<<trial', "start">>}
      BY <2>4, <2>5, <1>new DEF Resting
    <3>2. T # {} => Unrotated'
      BY <2>5, <1>same DEF Resting, Unrotated, Unbooted
    <3>3. Running(T)'
      BY <3>1, <3>2 DEF Running, Whole
    <3>4. trial' > 0 /\ running'
      BY <1>new, <1>types
    <3>5. \A t \in Trials : ~Closes(t)'
      BY <2>3, <1>closes, <1>procs
    <3>6. pc'[Boot] = "idle"
      BY <2>1, <1>same, <1>procs
    <3> QED
      BY <3>3, <3>4, <3>5, <3>6 DEF OneTrial
  <2>7. OnlyActiveOpen'
    BY <2>1, <1>same DEF OnlyActiveOpen, Open, Unbooted
  <2>8. \A t \in Trials : Marked(t)'
    BY <2>1, <1>same, <1>procs DEF Marked, Settled
  <2> QED
    BY <2>2, <2>6, <2>7, <2>8
<1> QED
  BY <1>1, <1>2, <1>3, <1>4, <1>5, <1>6 DEF TrialInv

(* The periodic flush stores the recorder's trace under the active session. *)
LEMMA FlushLocalKeepsInv == TrialInv /\ FlushLocal => TrialInv'
<1> SUFFICES ASSUME TrialInv, FlushLocal PROVE TrialInv'
  OBVIOUS
<1>inv. /\ TypeOK /\ Counted /\ StoredInOrder /\ UploadedMeansStored /\ RowWhileClosing
        /\ NothingKept /\ Subscribed /\ EndingsKept /\ Patience /\ RowsAreWholeTrials
        /\ \A q \in Procs : Written(q)
  BY DEF TrialInv
<1>same. UNCHANGED <<build, running, trial, session, issued, trace, listeners, flushing, pc, own, snap,
                     seen, found, status, rows, remote, reloads, switches, patient, rejections,
                     cutShort>>
  BY DEF FlushLocal, page, procs, server, bounds, faults
<1>new. /\ stored' = [stored EXCEPT ![session] = trace] /\ stored \in [Sessions -> Traces]
        /\ trace \in Traces /\ trace # NoTrace /\ session \in Sessions
        /\ \A q \in Procs : own[q] \in Sessions \cup {0}
  BY <1>inv, SnapshotIsATrace DEF FlushLocal, SaveTrace, TypeOK, ProcTypeOK
<1>kept. /\ stored' \in [Sessions -> Traces]
         /\ \A s \in Sessions : stored'[s] = IF s = session THEN trace ELSE stored[s]
  BY <1>new
<1>closes. \A q \in Procs : Closes(q)' <=> Closes(q)
  BY <1>same DEF Closes
<1>procs. Trials \subseteq Procs
  BY DEF Procs
<1>1. TypeOK'
  BY <1>kept, <1>same, <1>inv DEF TypeOK, ProcTypeOK
<1>2. Counted'
  BY <1>same, <1>inv DEF Counted, Spent, Closes
<1>3. \A q \in Procs : Written(q)'
  <2> TAKE q \in Procs
  <2>1. Written(q) /\ own[q] \in Sessions \cup {0}
    BY <1>inv, <1>new
  <2>2. Closes(q) => own[q] \in Sessions
    BY <2>1, StagesOfAClosing DEF Written, Closes
  <2> QED
    BY <2>1, <2>2, <1>kept, <1>new, <1>same DEF Written, Closes
<1>4. StoredInOrder'
  BY <1>kept, <1>new, <1>same, <1>inv DEF StoredInOrder
<1>5. UploadedMeansStored' /\ NothingKept' /\ RowsAreWholeTrials' /\ Subscribed'
  BY <1>same, <1>inv DEF UploadedMeansStored, NothingKept, RowsAreWholeTrials, Subscribed
<1>6. RowWhileClosing'
  BY <1>same, <1>inv DEF RowWhileClosing, Closes
<1>7. EndingsKept'
  <2> SUFFICES ASSUME switches = 0, NEW t \in Trials, Closes(t)' PROVE EndingKept(t)'
    BY <1>same DEF EndingsKept
  <2>1. EndingKept(t) /\ Closes(t)
    BY <1>closes, <1>procs, <1>inv DEF EndingsKept
  <2>2. own[t] \in Sessions
    BY <2>1, <1>procs, <1>new, <1>inv, StagesOfAClosing DEF Written, Closes
  <2> QED
    BY <2>1, <2>2, <1>kept, <1>same DEF EndingKept
<1>8. Patience'
  <2> SUFFICES ASSUME patient
               PROVE  Alone' /\ OneTrial' /\ OnlyActiveOpen' /\ \A t \in Trials : Marked(t)'
    BY <1>same DEF Patience
  <2>1. Alone /\ OneTrial /\ OnlyActiveOpen /\ \A t \in Trials : Marked(t)
    BY <1>inv DEF Patience
  <2>2. Unbooted' <=> Unbooted
    BY <1>same DEF Unbooted
  <2>3. \A T : /\ Running(T)' <=> Running(T)
               /\ Resting(T)' <=> Resting(T)
               /\ Ended(T)' <=> Ended(T)
    BY <2>2, <1>same, SameTrials
  <2>4. Alone' /\ OnlyActiveOpen'
    BY <2>1, <2>2, <1>same DEF Alone, OnlyActiveOpen, Open
  <2>5. OneTrial'
    BY <2>1, <2>3, <1>same, <1>closes, <1>procs DEF OneTrial
  <2>6. \A t \in Trials : Marked(t)'
    BY <2>1, <1>same DEF Marked
  <2> QED
    BY <2>4, <2>5, <2>6
<1> QED
  BY <1>1, <1>2, <1>3, <1>4, <1>5, <1>6, <1>7, <1>8 DEF TrialInv

(* Another condition: the recorder is emptied and its listener may now come *)
(* behind the closer, so nothing is promised of waiting or kept endings.    *)
LEMMA SwitchConditionKeepsInv == TrialInv /\ SwitchCondition => TrialInv'
<1> SUFFICES ASSUME TrialInv, SwitchCondition PROVE TrialInv'
  OBVIOUS
<1>inv. /\ TypeOK /\ Counted /\ StoredInOrder /\ UploadedMeansStored /\ RowWhileClosing
        /\ NothingKept /\ \A q \in Procs : Written(q)
  BY DEF TrialInv
<1>same. UNCHANGED <<build, running, trial, session, issued, flushing, pc, own, snap, seen, found, status,
                     stored, rows, remote, reloads, rejections, cutShort>>
  BY DEF SwitchCondition, procs, local, server, faults
<1>new. /\ switches' = switches + 1 /\ switches < MaxSwitches /\ switches \in 0..MaxSwitches
        /\ trace' = {} /\ listeners' \in {<<"close", "record">>, <<"record", "close">>}
        /\ patient' = FALSE
  BY <1>inv DEF SwitchCondition, TypeOK
<1>1. TypeOK'
  <2>1. /\ <<"close", "record">> \in Seq({"record", "close"})
        /\ <<"record", "close">> \in Seq({"record", "close"})
    OBVIOUS
  <2>2. switches' \in 0..MaxSwitches /\ switches' # 0
    BY <1>new, BoundsAssumption
  <2> QED
    BY <2>1, <2>2, <1>new, <1>same, <1>inv DEF TypeOK, ProcTypeOK
<1>2. Counted' /\ RowWhileClosing'
  BY <1>same, <1>inv DEF Counted, Spent, Closes, RowWhileClosing
<1>3. \A q \in Procs : Written(q)'
  BY <1>same, <1>inv DEF Written, Closes
<1>4. StoredInOrder' /\ UploadedMeansStored' /\ NothingKept'
  BY <1>same, <1>inv DEF StoredInOrder, UploadedMeansStored, NothingKept
<1>5. Subscribed' /\ EndingsKept'
  <2>1. switches' # 0
    BY <1>new, BoundsAssumption
  <2> QED
    BY <2>1 DEF Subscribed, EndingsKept
<1>6. Patience' /\ RowsAreWholeTrials'
  BY <1>new DEF Patience, RowsAreWholeTrials
<1> QED
  BY <1>1, <1>2, <1>3, <1>4, <1>5, <1>6 DEF TrialInv

(* What a listener finds in the recorder: the events of before, and the     *)
(* task's ending once the recorder's own listener has run.                  *)
LEMMA TraceFound ==
  ASSUME TypeOK, running, trial > 0, NEW i \in Nat
  PROVE  /\ trace \subseteq TraceAt(i) /\ TraceAt(i) \subseteq Records
         /\ TraceAt(i) \subseteq trace \cup {<<trial, "end">>}
         /\ listeners \in {<<"record", "close">>, <<"record">>} /\ i \in {2, 3} =>
              TraceAt(i) = trace \cup {<<trial, "end">>}
<1>1. trace \subseteq Records /\ <<trial, "end">> \in Records
  BY BoundsAssumption DEF TypeOK, Records, Trials
<1>2. ASSUME listeners \in {<<"record", "close">>, <<"record">>}, i \in {2, 3}
      PROVE  \E j \in 1..(i - 1) : listeners[j] = "record"
  <2>1. 1 \in 1..(i - 1) /\ listeners[1] = "record"
    BY <1>2
  <2> QED
    BY <2>1
<1> QED
  BY <1>1, <1>2 DEF TraceAt, Record

(* A task ends: the recorder gets its ending and, when the page has booted, *)
(* its closing begins with the snapshot the closer finds.                   *)
LEMMA EndTaskKeepsInv == TrialInv /\ EndTask => TrialInv'
<1> SUFFICES ASSUME TrialInv, EndTask PROVE TrialInv'
  OBVIOUS
<1> USE BoundsAssumption
<1> DEFINE closer == \E i \in DOMAIN listeners : listeners[i] = "close"
<1>inv. /\ TypeOK /\ Counted /\ StoredInOrder /\ UploadedMeansStored /\ RowWhileClosing
        /\ NothingKept /\ Subscribed /\ EndingsKept /\ Patience /\ RowsAreWholeTrials
        /\ \A q \in Procs : Written(q)
  BY DEF TrialInv
<1>same. UNCHANGED <<build, trial, session, issued, listeners, flushing, seen, found, status, rows, remote,
                     reloads, switches, patient>>
  BY DEF EndTask, server, bounds
<1>types. /\ trial \in 0..MaxTrials /\ session \in Sessions /\ trace \subseteq Records
          /\ listeners \in Seq({"record", "close"}) /\ Len(listeners) \in Nat
          /\ pc \in [Procs -> Stages] /\ own \in [Procs -> Sessions \cup {0}]
          /\ snap \in [Procs -> SUBSET Records] /\ stored \in [Sessions -> Traces]
  BY <1>inv, LenProperties DEF TypeOK, ProcTypeOK
<1>new. /\ running /\ running' = FALSE /\ trace' = TraceAt(Len(listeners) + 1)
        /\ trial > 0 /\ trial \in Trials
  BY <1>inv, <1>types DEF EndTask, Counted, Trials
<1>trace. /\ trace \subseteq trace' /\ trace' \subseteq Records
          /\ listeners \in {<<"record", "close">>, <<"record">>} =>
               trace' = trace \cup {<<trial, "end">>}
  <2>1. Len(listeners) + 1 \in Nat
    BY <1>types
  <2>2. listeners \in {<<"record", "close">>, <<"record">>} => Len(listeners) + 1 \in {2, 3}
    <3>1. listeners = <<"record", "close">> => Len(listeners) + 1 = 3
      OBVIOUS
    <3>2. listeners = <<"record">> => Len(listeners) + 1 = 2
      OBVIOUS
    <3> QED
      BY <3>1, <3>2
  <2> QED
    BY <2>1, <2>2, <1>inv, <1>new, TraceFound
<1>procs. Boot \in Procs /\ Trials \subseteq Procs /\ trial # Boot
  BY <1>new DEF Procs, Boot
<1>whole. patient => \E T \in SUBSET Trials :
            /\ trace' = Whole(T) /\ T # {}
            /\ ~Unrotated => Cardinality(T) = 1
  <2> SUFFICES ASSUME patient
               PROVE  \E T \in SUBSET Trials :
                        /\ trace' = Whole(T) /\ T # {}
                        /\ ~Unrotated => Cardinality(T) = 1
    OBVIOUS
  <2>1. Alone /\ OneTrial
    BY <1>inv DEF Patience
  <2>2. PICK T \in SUBSET Trials : Running(T)
    BY <2>1, <1>new DEF OneTrial
  <2>3. listeners \in {<<"record", "close">>, <<"record">>}
    BY <2>1, <1>new, <1>procs, <1>inv DEF Alone, Subscribed
  <2>4. trace' = Whole(T) \cup {<<trial, "start">>} \cup {<<trial, "end">>}
    BY <2>2, <2>3, <1>trace DEF Running
  <2>5. trace' = Whole(T \cup {trial}) /\ T \cup {trial} \in SUBSET Trials
    BY <2>4, <1>new, WholeTrials
  <2>6. T = {} => Cardinality(T \cup {trial}) = 1
    <3>1. Cardinality({trial}) = 1
      BY FS_Singleton
    <3>2. {} \cup {trial} = {trial}
      OBVIOUS
    <3> QED
      BY <3>1, <3>2
  <2>7. T # {} => Unrotated
    BY <2>2 DEF Running
  <2>8. T \cup {trial} # {}
    OBVIOUS
  <2> QED
    BY <2>5, <2>6, <2>7, <2>8
<1>ways. \/ ~closer /\ UNCHANGED <<pc, own, snap, stored, rejections, cutShort>>
         \/ UNCHANGED <<pc, own, snap, stored>> /\ Rejection({session})
         \/ closer /\ \E i \in DOMAIN listeners : listeners[i] = "close" /\ BeginClose(i)
  BY DEF EndTask, SaveRejected, faults
<1>begun. ASSUME NEW k \in DOMAIN listeners, listeners[k] = "close", BeginClose(k)
          PROVE  \E stage \in {"saved", "gate"}, snapshot \in SUBSET Records :
                   /\ pc' = [pc EXCEPT ![trial] = stage]
                   /\ own' = [own EXCEPT ![trial] = session]
                   /\ snap' = [snap EXCEPT ![trial] = snapshot]
                   /\ stored' = IF build.durable THEN [stored EXCEPT ![session] = snapshot]
                                ELSE stored
                   /\ stage = "saved" => build.durable
                   /\ trace \subseteq snapshot
                   /\ switches = 0 => snapshot = trace \cup {<<trial, "end">>}
  <2>1. PICK i \in DOMAIN listeners : listeners[i] = "close" /\ BeginClose(i)
    BY <1>begun
  <2>2. i \in 1..Len(listeners) /\ i \in Nat
    BY <2>1, <1>types, LenProperties
  <2>3. switches = 0 => listeners = <<"record", "close">> /\ i = 2
    <3> SUFFICES ASSUME switches = 0 PROVE listeners = <<"record", "close">> /\ i = 2
      OBVIOUS
    <3>1. listeners \in {<<"record", "close">>, << >>, <<"record">>}
      BY <1>inv DEF Subscribed
    <3>2. CASE listeners = << >>
      BY <3>2, <2>1
    <3>3. CASE listeners = <<"record">>
      BY <3>3, <2>1
    <3>4. CASE listeners = <<"record", "close">>
      BY <3>4, <2>1
    <3> QED
      BY <3>1, <3>2, <3>3, <3>4
  <2>4. /\ trace \subseteq TraceAt(i) /\ TraceAt(i) \in SUBSET Records
        /\ switches = 0 => TraceAt(i) = trace \cup {<<trial, "end">>}
    BY <2>2, <2>3, <1>inv, <1>new, TraceFound
  <2>5. PICK stage \in {"saved", "gate"} :
          /\ pc' = [pc EXCEPT ![trial] = stage] /\ (stage = "saved" <=> build.durable)
    BY <2>1 DEF BeginClose
  <2>6. /\ own' = [own EXCEPT ![trial] = session]
        /\ snap' = [snap EXCEPT ![trial] = TraceAt(i)]
        /\ stored' = IF build.durable THEN [stored EXCEPT ![session] = TraceAt(i)] ELSE stored
    BY <2>1 DEF BeginClose, SaveTrace
  <2> QED
    BY <2>4, <2>5, <2>6
<1>left. ~closer /\ patient => Unbooted
  <2> SUFFICES ASSUME ~closer, patient PROVE Unbooted
    OBVIOUS
  <2>1. pc[Boot] = "idle" /\ switches = 0
    BY <1>new, <1>procs, <1>inv DEF Patience, Alone
  <2>2. listeners # <<"record", "close">>
    <3>1. ASSUME listeners = <<"record", "close">> PROVE FALSE
      <4>1. 2 \in DOMAIN listeners /\ listeners[2] = "close"
        BY <3>1
      <4> QED
        BY <4>1
    <3> QED
      BY <3>1
  <2> QED
    BY <2>1, <2>2, <1>inv DEF Subscribed, Unbooted
<1>spent. Spent' = {t \in 1..trial : ~Closes(t)'}
  BY <1>new, <1>same DEF Spent
<1>fits. 1..trial \subseteq Trials
  BY <1>types DEF Trials
<1> HIDE DEF closer
<1>A. ASSUME UNCHANGED <<pc, own, snap, stored>>, rejections' \in 0..MaxRejections,
             cutShort \subseteq cutShort', cutShort' \subseteq Sessions,
             patient => Unbooted \/ session \in cutShort'
      PROVE  TrialInv'
  <2>closes. \A q \in Procs : Closes(q)' <=> Closes(q)
    BY <1>A DEF Closes
  <2>1. TypeOK'
    BY <1>A, <1>same, <1>trace, <1>new, <1>inv DEF TypeOK, ProcTypeOK
  <2>2. Counted'
    <3>1. Spent \subseteq Spent' /\ Spent' \in SUBSET Trials
      BY <1>spent, <1>fits, <1>procs, <2>closes DEF Spent
    <3>2. issued' <= 1 + reloads' + Cardinality(Spent')
      BY <3>1, <1>same, <1>inv, CountStays
    <3> QED
      BY <3>2, <1>A, <2>closes, <1>procs, <1>same, <1>new, <1>inv DEF Counted
  <2>3. \A q \in Procs : Written(q)'
    BY <1>A, <1>same, <1>inv DEF Written, Closes
  <2>4. StoredInOrder' /\ UploadedMeansStored' /\ NothingKept' /\ Subscribed'
    BY <1>A, <1>same, <1>inv DEF StoredInOrder, UploadedMeansStored, NothingKept, Subscribed
  <2>5. RowWhileClosing' /\ EndingsKept'
    BY <1>A, <2>closes, <1>same, <1>trace, <1>procs, <1>inv
    DEF RowWhileClosing, EndingsKept, EndingKept
  <2>6. RowsAreWholeTrials'
    BY <1>A, <1>same, <1>inv DEF RowsAreWholeTrials
  <2>7. Patience'
    <3> SUFFICES ASSUME patient
                 PROVE  Alone' /\ OneTrial' /\ OnlyActiveOpen' /\ \A t \in Trials : Marked(t)'
      BY <1>same DEF Patience
    <3>1. Alone /\ OnlyActiveOpen
      BY <1>inv DEF Patience
    <3>2. \A q \in Procs : pc[q] = "idle"
      BY <3>1, <1>new DEF Alone
    <3>3. Alone' /\ \A t \in Trials : Marked(t)'
      BY <3>1, <3>2, <1>A, <1>same, <1>procs DEF Alone, Marked, Settled
    <3>4. OnlyActiveOpen'
      BY <3>1, <1>A, <1>same DEF OnlyActiveOpen, Open, Unbooted
    <3>5. PICK T \in SUBSET Trials : trace' = Whole(T)
      BY <1>whole
    <3>6. Unrotated'
      BY <1>A, <1>same DEF Unrotated, Unbooted
    <3>7. Resting(T)'
      BY <3>5, <3>6 DEF Resting, Whole
    <3>8. \A t \in Trials : ~Closes(t)'
      BY <3>2, <2>closes, <1>procs, StagesOfAClosing DEF Closes
    <3>9. pc'[Boot] = "idle"
      BY <3>2, <1>A, <1>procs
    <3> QED
      BY <3>3, <3>4, <3>7, <3>8, <3>9, <1>new DEF OneTrial
  <2> QED
    BY <2>1, <2>2, <2>3, <2>4, <2>5, <2>6, <2>7 DEF TrialInv
<1>B. ASSUME closer, UNCHANGED <<rejections, cutShort>>,
             NEW i \in DOMAIN listeners, listeners[i] = "close", BeginClose(i)
      PROVE  TrialInv'
  <2>faults. UNCHANGED <<rejections, cutShort>>
    BY <1>B
  <2>begun. PICK stage \in {"saved", "gate"}, snapshot \in SUBSET Records :
              /\ pc' = [pc EXCEPT ![trial] = stage]
              /\ own' = [own EXCEPT ![trial] = session]
              /\ snap' = [snap EXCEPT ![trial] = snapshot]
              /\ stored' = IF build.durable THEN [stored EXCEPT ![session] = snapshot]
                           ELSE stored
              /\ stage = "saved" => build.durable
              /\ trace \subseteq snapshot
              /\ switches = 0 => snapshot = trace \cup {<<trial, "end">>}
    BY <1>B, <1>begun
  <2>stage. /\ \A q \in Procs : pc'[q] = IF q = trial THEN stage ELSE pc[q]
            /\ \A q \in Procs : own'[q] = IF q = trial THEN session ELSE own[q]
            /\ \A q \in Procs : snap'[q] = IF q = trial THEN snapshot ELSE snap[q]
    BY <2>begun, <1>types
  <2>saves. stage \in Closing /\ stage \in Stages
    BY StagesOfAClosing DEF Closing
  <2>closes. \A q \in Procs : Closes(q)' <=> Closes(q) \/ q = trial
    BY <2>stage, <2>saves, <1>new, <1>procs DEF Closes
  <2>snapshot. snapshot \in Traces /\ snapshot # NoTrace
    BY SnapshotIsATrace
  <2>kept. /\ stored' \in [Sessions -> Traces]
           /\ \A s \in Sessions : stored'[s] = IF build.durable /\ s = session
                                               THEN snapshot ELSE stored[s]
    BY <2>begun, <2>snapshot, <1>types
  <2>own. \A q \in Procs : Closes(q) => own[q] \in Sessions
    BY <1>types, <1>inv, StagesOfAClosing DEF Written, Closes
  <2>1. TypeOK'
    <3>1. /\ pc' \in [Procs -> Stages] /\ own' \in [Procs -> Sessions \cup {0}]
          /\ snap' \in [Procs -> SUBSET Records]
      BY <2>begun, <2>saves, <1>types
    <3> QED
      BY <3>1, <2>kept, <2>faults, <1>same, <1>trace, <1>new, <1>inv DEF TypeOK, ProcTypeOK
  <2>2. Counted'
    <3>1. Spent \subseteq Spent' /\ Spent' \in SUBSET Trials
      BY <1>spent, <1>fits, <1>procs, <1>new, <2>closes DEF Spent
    <3>2. issued' <= 1 + reloads' + Cardinality(Spent')
      BY <3>1, <1>same, <1>inv, CountStays
    <3>3. \A q \in Procs : own'[q] <= issued
      BY <2>stage, <1>inv, <1>types DEF Counted, Sessions
    <3>4. ~Closes(Boot)' /\ \A t \in Trials : Closes(t)' => t <= trial
      BY <2>closes, <1>procs, <1>inv, <1>types DEF Counted, Trials
    <3> QED
      BY <3>2, <3>3, <3>4, <1>same, <1>new, <1>inv DEF Counted
  <2>3. \A q \in Procs : Written(q)'
    <3> TAKE q \in Procs
    <3>1. CASE q = trial
      <4>1. /\ pc'[q] \in {"saved", "gate"} /\ own'[q] = session /\ session # 0
            /\ build.durable => stored'[session] # NoTrace
            /\ pc'[q] = "saved" => build.durable
        BY <3>1, <2>stage, <2>begun, <2>kept, <2>snapshot, <1>types DEF Sessions
      <4> QED
        BY <4>1, <1>same DEF Written
    <3>2. CASE q # trial
      <4>1. Written(q) /\ pc'[q] = pc[q] /\ own'[q] = own[q]
        BY <3>2, <2>stage, <1>inv
      <4> QED
        BY <4>1, <2>own, <2>kept, <2>snapshot, <1>same DEF Written, Closes
    <3> QED
      BY <3>1, <3>2
  <2>4. StoredInOrder'
    BY <2>kept, <2>snapshot, <1>same, <1>inv DEF StoredInOrder
  <2>5. UploadedMeansStored' /\ NothingKept' /\ RowsAreWholeTrials'
    BY <1>B, <1>same, <1>inv DEF UploadedMeansStored, NothingKept, RowsAreWholeTrials
  <2>6. Subscribed'
    BY <2>stage, <1>same, <1>procs, <1>inv DEF Subscribed
  <2>7. RowWhileClosing'
    BY <2>closes, <2>stage, <1>same, <1>new, <1>procs DEF RowWhileClosing
  <2>8. EndingsKept'
    <3> SUFFICES ASSUME switches = 0, NEW t \in Trials, Closes(t)' PROVE EndingKept(t)'
      BY <1>same DEF EndingsKept
    <3>0. listeners = <<"record", "close">> /\ snapshot = trace \cup {<<trial, "end">>}
      <4>1. listeners \in {<<"record", "close">>, << >>, <<"record">>}
        BY <1>inv DEF Subscribed
      <4> QED
        BY <4>1, <1>B, <2>begun DEF closer
    <3>1. CASE t = trial
      BY <3>1, <3>0, <2>stage, <2>kept, <1>trace, <1>procs, <1>same, <1>types DEF EndingKept
    <3>2. CASE t # trial
      <4>1. Closes(t) /\ EndingKept(t) /\ own'[t] = own[t] /\ own[t] \in Sessions
        BY <3>2, <2>closes, <2>stage, <2>own, <1>procs, <1>inv DEF EndingsKept
      <4> QED
        BY <4>1, <3>0, <2>kept, <1>trace, <1>same DEF EndingKept
    <3> QED
      BY <3>1, <3>2
  <2>9. Patience'
    <3> SUFFICES ASSUME patient
                 PROVE  Alone' /\ OneTrial' /\ OnlyActiveOpen' /\ \A t \in Trials : Marked(t)'
      BY <1>same DEF Patience
    <3>1. Alone /\ OnlyActiveOpen /\ switches = 0
      BY <1>inv DEF Patience, Alone
    <3>2. \A q \in Procs : pc[q] = "idle"
      BY <3>1, <1>new DEF Alone
    <3>3. \A q \in Procs : pc'[q] # "idle" => q = trial
      BY <3>2, <2>stage
    <3>booted. listeners = <<"record", "close">> /\ ~Unbooted
      <4>1. listeners \in {<<"record", "close">>, <<"record">>}
        BY <3>1, <3>2, <1>procs, <1>inv DEF Subscribed
      <4>2. CASE listeners = <<"record">>
        BY <4>2, <1>B
      <4>3. CASE listeners = <<"record", "close">>
        <5>1. Len(<<"record", "close">>) # Len(<<"record">>)
          OBVIOUS
        <5> QED
          BY <4>3, <5>1 DEF Unbooted
      <4> QED
        BY <4>1, <4>2, <4>3
    <3>unbooted. Unbooted' <=> Unbooted
      BY <2>stage, <1>same, <1>procs DEF Unbooted
    <3>4. Alone'
      BY <3>1, <3>3, <3>booted, <3>unbooted, <2>stage, <1>same, <1>new, <1>procs DEF Alone
    <3>5. snapshot = trace'
      BY <3>1, <3>booted, <2>begun, <1>trace
    <3>6. \A q \in Procs : ~Closes(q)
      BY <3>2, StagesOfAClosing DEF Closes
    <3>7. OneTrial'
      <4>1. PICK T \in SUBSET Trials :
              /\ trace' = Whole(T) /\ T # {}
              /\ ~Unrotated => Cardinality(T) = 1
        BY <1>whole
      <4>2. Ended(T)'
        <5>1. session \notin cutShort => Cardinality(T) = 1
          BY <4>1, <3>booted DEF Unrotated
        <5> QED
          BY <4>1, <5>1, <2>faults, <1>same DEF Ended, Whole
      <4>3. \A t \in Trials : Closes(t)' => snap'[t] = trace'
        BY <3>5, <3>6, <2>closes, <2>stage, <1>procs
      <4>4. \E t \in Trials : Closes(t)'
        <5>1. PICK t \in Trials : t = trial
          BY <1>new
        <5> QED
          BY <5>1, <2>closes, <1>procs
      <4>5. ~running' /\ pc'[Boot] = "idle"
        BY <3>2, <2>stage, <1>new, <1>procs
      <4>6. \E R \in SUBSET Trials : Ended(R)'
        BY <4>2
      <4> QED
        BY <4>3, <4>4, <4>5, <4>6 DEF OneTrial
    <3>8. Open' = Open /\ Open \subseteq {session}
      BY <3>1, <3>2, <3>booted, <1>same DEF Open, OnlyActiveOpen
    <3>9. \A q \in Procs : pc'[q] # "found"
      BY <3>3, <3>2, <2>stage
    <3>10. OnlyActiveOpen'
      BY <3>8, <3>9, <1>same, <1>types, <1>procs DEF OnlyActiveOpen
    <3>11. \A t \in Trials : Marked(t)'
      <4>1. \A t \in Trials : t # trial => pc'[t] = "idle"
        BY <3>3, <1>procs
      <4>2. stage = "gate" => status'[own'[trial]] # "in_progress"
        <5>0. build.durable => pc' = [pc EXCEPT ![trial] = "saved"]
          BY <1>B DEF BeginClose
        <5>1. stage = "gate" => ~build.durable
          BY <5>0, <2>stage, <1>types, <1>procs, <1>new
        <5> QED
          BY <5>1, <2>stage, <1>same, <1>types, <1>inv, <1>procs, <1>new DEF NothingKept
      <4> QED
        BY <4>1, <4>2, <2>stage, <1>procs, <1>new DEF Marked, Settled
    <3> QED
      BY <3>4, <3>7, <3>10, <3>11
  <2> QED
    BY <2>1, <2>2, <2>3, <2>4, <2>5, <2>6, <2>7, <2>8, <2>9 DEF TrialInv
<1>1. CASE ~closer /\ UNCHANGED <<pc, own, snap, stored, rejections, cutShort>>
  <2>1. rejections \in 0..MaxRejections /\ cutShort \subseteq Sessions
    BY <1>inv DEF TypeOK
  <2> QED
    BY <1>1, <1>A, <1>left, <2>1
<1>2. CASE UNCHANGED <<pc, own, snap, stored>> /\ Rejection({session})
  <2>1. rejections' \in 0..MaxRejections /\ cutShort' = cutShort \cup {session}
    BY <1>2, <1>inv DEF Rejection, TypeOK
  <2>2. cutShort' \subseteq Sessions
    BY <2>1, <1>types, <1>inv DEF TypeOK
  <2> QED
    BY <1>2, <1>A, <2>1, <2>2
<1>3. CASE closer /\ \E i \in DOMAIN listeners : listeners[i] = "close" /\ BeginClose(i)
  <2>1. PICK i \in DOMAIN listeners : listeners[i] = "close" /\ BeginClose(i)
    BY <1>3
  <2>2. UNCHANGED <<rejections, cutShort>>
    BY <2>1 DEF BeginClose, faults
  <2> QED
    BY <1>3, <1>B, <2>1, <2>2
<1> QED
  BY <1>ways, <1>1, <1>2, <1>3

(* A request is rejected: the process that awaited it ends where it stood,  *)
(* and the session whose closing it was is known not to have rotated.       *)
LEMMA RejectKeepsInv ==
  ASSUME TrialInv, NEW p \in Procs, Reject(p)
  PROVE  TrialInv'
<1> USE BoundsAssumption
<1>inv. /\ TypeOK /\ Counted /\ StoredInOrder /\ UploadedMeansStored /\ RowWhileClosing
        /\ NothingKept /\ Subscribed /\ EndingsKept /\ Patience /\ RowsAreWholeTrials
        /\ \A q \in Procs : Written(q)
  BY DEF TrialInv
<1>same. UNCHANGED <<build, running, trial, session, issued, trace, listeners, flushing, status,
                     stored, rows, remote, reloads, switches, patient>>
  BY DEF Reject, page, local, server, bounds
<1>types. /\ pc \in [Procs -> Stages] /\ own \in [Procs -> Sessions \cup {0}]
          /\ snap \in [Procs -> SUBSET Records] /\ seen \in [Procs -> Statuses]
          /\ found \in [Procs -> Sessions \cup {0}]
          /\ trial \in 0..MaxTrials /\ session \in Sessions /\ issued \in Nat
  BY <1>inv DEF TypeOK, ProcTypeOK, Sessions
<1>rej. pc[p] \notin {"idle", "starting"} /\ own[p] \in Sessions
  BY <1>inv, <1>types DEF Reject, Awaiting, Written
<1>new. /\ pc' = [pc EXCEPT ![p] = "idle"] /\ own' = [own EXCEPT ![p] = 0]
        /\ snap' = [q \in Procs |-> IF q = p THEN {} ELSE snap[q]]
        /\ seen' = [q \in Procs |-> IF q = p THEN "none" ELSE seen[q]]
        /\ found' = [q \in Procs |-> IF q = p THEN 0 ELSE found[q]]
  BY DEF Reject, Goto, Forget
<1>cut. /\ rejections < MaxRejections /\ rejections' = rejections + 1
        /\ cutShort' = cutShort \cup (IF Closes(p) THEN {own[p]} ELSE {})
  BY DEF Reject, Rejection, Closes
<1>stage. /\ \A q \in Procs : pc'[q] = IF q = p THEN "idle" ELSE pc[q]
          /\ \A q \in Procs : own'[q] = IF q = p THEN 0 ELSE own[q]
          /\ \A q \in Procs : snap'[q] = IF q = p THEN {} ELSE snap[q]
          /\ \A q \in Procs : seen'[q] = IF q = p THEN "none" ELSE seen[q]
  BY <1>new, <1>types
<1>closes. \A q \in Procs : Closes(q)' <=> Closes(q) /\ q # p
  BY <1>stage, StagesOfAClosing DEF Closes
<1>procs. Boot \in Procs /\ Trials \subseteq Procs
  BY DEF Procs
<1>1. TypeOK'
  <2>1. pc' \in [Procs -> Stages] /\ own' \in [Procs -> Sessions \cup {0}]
    BY <1>types, <1>new DEF Stages
  <2>2. /\ snap' \in [Procs -> SUBSET Records] /\ seen' \in [Procs -> Statuses]
        /\ found' \in [Procs -> Sessions \cup {0}]
    BY <1>types, <1>new DEF Statuses
  <2>3. rejections' \in 0..MaxRejections /\ cutShort' \subseteq Sessions
    BY <1>cut, <1>rej, <1>inv DEF TypeOK
  <2> QED
    BY <2>1, <2>2, <2>3, <1>same, <1>inv DEF TypeOK, ProcTypeOK
<1>2. Counted'
  <2>1. 1..trial \subseteq Procs /\ 1..trial \subseteq Trials
    BY <1>types DEF Procs, Trials
  <2>2. Spent' = {t \in 1..trial : ~Closes(t)' /\ ~(running /\ t = trial)}
    BY <1>same DEF Spent
  <2>3. Spent \subseteq Spent' /\ Spent' \in SUBSET Trials
    BY <2>1, <2>2, <1>closes DEF Spent
  <2>4. issued' <= 1 + reloads' + Cardinality(Spent')
    BY <2>3, <1>same, <1>inv, CountStays
  <2>5. ~Closes(Boot)' /\ \A t \in Trials : Closes(t)' => t <= trial /\ ~(running /\ t = trial)
    BY <1>closes, <1>procs, <1>inv DEF Counted
  <2>6. \A q \in Procs : own'[q] <= issued
    BY <1>stage, <1>types, <1>inv DEF Counted
  <2> QED
    BY <2>4, <2>5, <2>6, <1>same, <1>inv DEF Counted
<1>3. \A q \in Procs : Written(q)'
  <2>1. Written(p)'
    BY <1>stage, StagesOfAClosing DEF Written, Closes
  <2> QED
    BY <2>1, <1>stage, <1>same, <1>inv DEF Written, Closes
<1>4. StoredInOrder' /\ UploadedMeansStored' /\ NothingKept'
  BY <1>same, <1>inv DEF StoredInOrder, UploadedMeansStored, NothingKept
<1>5. RowsAreWholeTrials'
  BY <1>cut, <1>same, <1>inv DEF RowsAreWholeTrials
<1>6. RowWhileClosing'
  <2> SUFFICES ASSUME session \in rows, session \notin cutShort'
               PROVE  \E t \in Trials : Closes(t)' /\ own'[t] = session
    BY <1>same DEF RowWhileClosing
  <2>1. PICK t \in Trials : Closes(t) /\ own[t] = session
    BY <1>cut, <1>inv DEF RowWhileClosing
  <2>2. t # p
    BY <2>1, <1>cut
  <2> QED
    BY <2>1, <2>2, <1>closes, <1>stage, <1>procs
<1>7. EndingsKept'
  <2>1. \A t \in Trials : Closes(t)' => Closes(t) /\ own'[t] = own[t]
    BY <1>closes, <1>stage, <1>procs
  <2> QED
    BY <2>1, <1>same, <1>inv DEF EndingsKept, EndingKept
<1>8. Subscribed'
  BY <1>rej, <1>same, <1>stage, <1>procs, <1>inv DEF Subscribed
<1>9. Patience'
  <2> SUFFICES ASSUME patient
               PROVE  Alone' /\ OneTrial' /\ OnlyActiveOpen' /\ \A t \in Trials : Marked(t)'
    BY <1>same DEF Patience
  <2>1. Alone /\ OneTrial /\ OnlyActiveOpen
    BY <1>inv DEF Patience
  <2>2. /\ \A q \in Procs : q # p => pc[q] = "idle"
        /\ ~running /\ own[p] = session
    BY <2>1, <1>rej DEF Alone
  <2>3. \A q \in Procs : pc'[q] = "idle"
    BY <2>2, <1>stage
  <2>4. Alone' /\ \A t \in Trials : Marked(t)'
    BY <2>1, <2>3, <1>same, <1>procs DEF Alone, Marked, Settled
  <2>5. \A q \in Procs : ~Closes(q)'
    BY <2>3, StagesOfAClosing DEF Closes
  <2>6. OneTrial'
    <3>1. CASE p = Boot
      BY <3>1, <2>1, <2>2, <2>5, <1>rej, <1>same, <1>procs, EmptyIsResting DEF OneTrial
    <3>2. CASE p \in Trials
      <4>0. Unbooted' <=> Unbooted
        BY <3>2, <1>stage, <1>same, <1>procs DEF Unbooted, Boot, Trials
      <4>1. \E T \in SUBSET Trials : trace = Whole(T) /\ (T # {} => Unrotated')
        <5>1. CASE Closes(p)
          <6>1. session \in cutShort'
            BY <5>1, <2>2, <1>cut
          <6>2. PICK T \in SUBSET Trials : Ended(T)
            BY <5>1, <3>2, <2>1 DEF OneTrial
          <6> QED
            BY <6>1, <6>2, <1>same DEF Ended, Unrotated
        <5>2. CASE ~Closes(p)
          <6>1. \A t \in Trials : ~Closes(t)
            BY <5>2, <2>2, <1>procs, StagesOfAClosing DEF Closes
          <6>2. PICK T \in SUBSET Trials : Resting(T)
            BY <6>1, <2>1, <2>2 DEF OneTrial
          <6> QED
            BY <6>2, <4>0, <1>cut, <1>same DEF Resting, Unrotated
        <5> QED
          BY <5>1, <5>2
      <4>2. \E T \in SUBSET Trials : Resting(T)'
        BY <4>1, <1>same DEF Resting, Whole
      <4> QED
        BY <4>2, <2>2, <2>3, <2>5, <1>same, <1>procs DEF OneTrial
    <3> QED
      BY <3>1, <3>2 DEF Procs
  <2>7. OnlyActiveOpen'
    <3>1. Open' = Open
      BY <1>same DEF Open
    <3>2. ~Unbooted' => Open \subseteq {session}
      <4>1. CASE p = Boot
        <5>1. pc'[Boot] = "idle" /\ listeners = <<"record">>
          BY <4>1, <2>1, <2>3, <1>rej, <1>procs, <1>inv DEF Subscribed, Alone
        <5> QED
          BY <5>1, <1>same DEF Unbooted
      <4>2. CASE p \in Trials /\ pc[p] = "found"
        BY <4>2, <2>1 DEF OnlyActiveOpen
      <4>3. CASE p \in Trials /\ pc[p] # "found"
        <5>1. ~Unbooted
          BY <4>3, <2>1, <1>rej DEF Alone
        <5>2. \A q \in Procs : pc[q] \notin {"starting", "found"}
          BY <4>3, <2>2, <1>rej
        <5> QED
          BY <5>1, <5>2, <2>1 DEF OnlyActiveOpen
      <4> QED
        BY <4>1, <4>2, <4>3 DEF Procs
    <3> QED
      BY <3>1, <3>2, <2>1, <2>3, <1>same, <1>procs DEF OnlyActiveOpen
  <2> QED
    BY <2>4, <2>6, <2>7
<1> QED
  BY <1>1, <1>2, <1>3, <1>4, <1>5, <1>6, <1>7, <1>8, <1>9 DEF TrialInv

(* Every step keeps the inductive invariant.                                *)
LEMMA NextTrialInv == TrialInv /\ [Next]_vars => TrialInv'
<1> SUFFICES ASSUME TrialInv, [Next]_vars PROVE TrialInv'
  OBVIOUS
<1>1. CASE RuntimeUp
  BY <1>1, RuntimeUpKeepsInv
<1>2. CASE Reload
  BY <1>2, ReloadKeepsInv
<1>3. CASE StartTask
  BY <1>3, StartTaskKeepsInv
<1>4. CASE EndTask
  BY <1>4, EndTaskKeepsInv
<1>5. CASE SwitchCondition
  BY <1>5, SwitchConditionKeepsInv
<1>6. CASE FlushLocal
  BY <1>6, FlushLocalKeepsInv
<1>7. ASSUME NEW p \in Procs, Step(p) PROVE TrialInv'
  <2>1. CASE ReadRecord(p) \/ MarkCompleted(p) \/ Gate(p) \/ AdoptRecord(p)
    BY <2>1, ReadRecordKeepsInv, MarkCompletedKeepsInv, GateKeepsInv, AdoptRecordKeepsInv
  <2>2. CASE InsertRow(p) \/ InsertTrace(p) \/ MarkUploadFailed(p) \/ MarkUploaded(p)
    BY <2>2, InsertRowKeepsInv, InsertTraceKeepsInv, MarkUploadFailedKeepsInv,
       MarkUploadedKeepsInv
  <2>3. CASE Rotate(p) \/ MarkIncomplete(p) \/ ReadOwnRecord(p) \/ Register(p)
    BY <2>3, RotateKeepsInv, MarkIncompleteKeepsInv, ReadOwnRecordKeepsInv, RegisterKeepsInv
  <2>4. CASE Reject(p)
    BY <2>4, RejectKeepsInv
  <2> QED
    BY <1>7, <2>1, <2>2, <2>3, <2>4 DEF Step
<1>8. CASE UNCHANGED vars
  <2>same. /\ UNCHANGED <<build, running, trial, session, issued, trace, listeners, flushing>>
           /\ UNCHANGED <<pc, own, snap, seen, found, status, stored, rows, remote>>
           /\ UNCHANGED <<reloads, switches, rejections, cutShort, patient>>
    BY <1>8 DEF vars, page, procs, local, server, bounds, faults
  <2>1. TypeOK' /\ Counted' /\ \A p \in Procs : Written(p)'
    BY <2>same DEF TrialInv, TypeOK, ProcTypeOK, Counted, Spent, Closes, Written
  <2>2. /\ StoredInOrder' /\ UploadedMeansStored' /\ RowWhileClosing' /\ NothingKept'
        /\ RowsAreWholeTrials'
    BY <2>same DEF TrialInv, StoredInOrder, UploadedMeansStored, RowWhileClosing, NothingKept,
                   RowsAreWholeTrials, Closes
  <2>3. Subscribed' /\ EndingsKept'
    BY <2>same DEF TrialInv, Subscribed, EndingsKept, EndingKept, Closes
  <2>4. Patience'
    <3>1. Unbooted' <=> Unbooted
      BY <2>same DEF Unbooted
    <3>2. \A T : /\ Running(T)' <=> Running(T)
                 /\ Resting(T)' <=> Resting(T)
                 /\ Ended(T)' <=> Ended(T)
      BY <2>same, <3>1, SameTrials
    <3>3. OneTrial' <=> OneTrial
      BY <2>same, <3>2 DEF OneTrial, Closes
    <3> QED
      BY <2>same, <3>1, <3>3
      DEF TrialInv, Patience, Alone, OnlyActiveOpen, Open, Marked
  <2> QED
    BY <2>1, <2>2, <2>3, <2>4 DEF TrialInv
<1> QED
  BY <1>1, <1>2, <1>3, <1>4, <1>5, <1>6, <1>7, <1>8 DEF Next

-----------------------------------------------------------------------------
(* The inductive invariant holds in every reachable state.                  *)
THEOREM TrialInvariant == Spec => []TrialInv
  BY InitTrialInv, NextTrialInv, PTL DEF Spec

(* Every variable stays in its domain; in particular the session ids a page *)
(* load or a rotation generates never run out (session/sessionManager.ts).  *)
THEOREM TrialTypeOK == Spec => []TypeOK
<1>1. TrialInv => TypeOK
  BY DEF TrialInv
<1> QED
  BY <1>1, TrialInvariant, PTL

(* Whatever the network, the races and the reloads do, a trace on the       *)
(* server has its row there and was in the local store first                *)
(* (collection.ts completeSession and upload).                              *)
THEOREM TracesAreStoredInOrder == Spec => []StoredInOrder
<1>1. TrialInv => StoredInOrder
  BY DEF TrialInv
<1> QED
  BY <1>1, TrialInvariant, PTL

(* No race between two closings, nor between a closing and a registration,  *)
(* makes the local store call a session uploaded that is not.               *)
THEOREM UploadedTracesAreStored == Spec => []UploadedMeansStored
<1>1. TrialInv => UploadedMeansStored
  BY DEF TrialInv
<1> QED
  BY <1>1, TrialInvariant, PTL

(* Once every closing has ended, the active session has no row yet          *)
(* (boot.ts closeTrial): a closing that sent one has rotated since, unless  *)
(* a rejected request of the local store cut it short before it could.      *)
THEOREM NextTrialStartsFresh == Spec => []NextTrialIsFresh
<1>1. TrialInv => NextTrialIsFresh
  <2>1. (\A p \in Procs : pc[p] = "idle") => \A t \in Trials : ~Closes(t)
    BY StagesOfAClosing DEF Closes, Procs
  <2> QED
    BY <2>1 DEF TrialInv, NextTrialIsFresh, AtRest, RowWhileClosing
<1> QED
  BY <1>1, TrialInvariant, PTL

(* While the participant waits, a trace on the server holds whole trials,   *)
(* and a single one where no rejected request cut a closing short.          *)
THEOREM WaitingStoresWholeTrials == Spec => []RowsAreWholeTrials
<1>1. TrialInv => RowsAreWholeTrials
  BY DEF TrialInv
<1> QED
  BY <1>1, TrialInvariant, PTL

(* While the participant waits, at most one local session is open, reloads  *)
(* included (collection.ts beginSession).                                   *)
THEOREM WaitingKeepsOneOpenSession == Spec => []OneOpenSession
<1>1. TrialInv => OneOpenSession
  <2> SUFFICES ASSUME TrialInv, patient
               PROVE  Cardinality({s \in Sessions : status[s] = "in_progress"}) <= 1
    BY DEF OneOpenSession
  <2>1. PICK o \in Sessions : Open \subseteq {o}
    BY DEF TrialInv, Patience, OnlyActiveOpen
  <2>2. IsFiniteSet({o}) /\ Cardinality({o}) = 1
    BY FS_Singleton
  <2>3. Cardinality(Open) <= 1
    BY <2>1, <2>2, FS_Subset
  <2> QED
    BY <2>3 DEF Open
<1> QED
  BY <1>1, TrialInvariant, PTL

(* Without a condition switch, a trial whose upload failed is still in the  *)
(* local store with its ending, however many trials were closed since       *)
(* (boot.ts:211-212).                                                       *)
THEOREM FailedUploadsAreKept == Spec => []FailedUploadIsKept
<1>1. TrialInv => FailedUploadIsKept
  <2>1. \A t \in Trials : pc[t] = "failed" => Closes(t)
    BY DEF Closes, Closing, Settled
  <2> QED
    BY <2>1 DEF TrialInv, EndingsKept, EndingKept, FailedUploadIsKept
<1> QED
  BY <1>1, TrialInvariant, PTL

=============================================================================
