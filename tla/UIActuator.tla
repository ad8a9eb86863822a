------------------------------ MODULE UIActuator ------------------------------
(***************************************************************************)
(* The lifecycle of adaptations in the actuator                            *)
(* (src/src/intervention/actuator.ts, class UIActuator): the map of active *)
(* adaptations, their TTL timers, the dismissal handlers they install, and *)
(* the applied / reverted / dismissed events they emit. What apply and     *)
(* cleanup do to the DOM is in DomRestoration.                             *)
(*                                                                         *)
(* The runtime gives every apply() a fresh episode id, so an episode is    *)
(* the ordinal of the apply() call; the arbitration never hands a no_op to *)
(* the actuator.                                                           *)
(***************************************************************************)
EXTENDS Naturals

CONSTANTS
  Types,        \* intervention types the actuator is asked to apply
  NoType,
  HasTtl,       \* command.ttlMs is declared and positive
  MaxEpisodes   \* bound: the number of apply() calls

None == 0
Episodes == 1..MaxEpisodes
(* The adaptations that install an Escape handler, and the one whose banner *)
(* has a dismiss button.                                                    *)
Dismissible == {"expand_tooltip", "offer_assistance"} \cap Types
WithButton == {"offer_assistance"} \cap Types

ASSUME ActuatorAssumption ==
  /\ NoType \notin Types /\ HasTtl \in BOOLEAN /\ MaxEpisodes \in Nat

VARIABLES
  begun,      \* episodes begun so far
  active,     \* activeAdaptations: the episode adapting each type, or None
  timers,     \* pending TTL timers, <<type, episode>>
  handlers,   \* installed dismissal handlers, <<type, episode>>
  kind,       \* per episode, the type of its 'applied' event
  reverted,   \* per episode, how many 'reverted' events were emitted
  dismissed   \* per episode, how many 'dismissed' events were emitted

actuatorVars == <<begun, active, timers, handlers, kind, reverted, dismissed>>

TypeOK ==
  /\ begun \in 0..MaxEpisodes
  /\ active \in [Types -> 0..MaxEpisodes]
  /\ timers \in SUBSET (Types \X Episodes)
  /\ handlers \in SUBSET (Types \X Episodes)
  /\ kind \in [Episodes -> Types \cup {NoType}]
  /\ reverted \in [Episodes -> Nat]
  /\ dismissed \in [Episodes -> Nat]

Init ==
  /\ begun = 0
  /\ active = [t \in Types |-> None]
  /\ timers = {} /\ handlers = {}
  /\ kind = [e \in Episodes |-> NoType]
  /\ reverted = [e \in Episodes |-> 0]
  /\ dismissed = [e \in Episodes |-> 0]
-----------------------------------------------------------------------------
(* clear(command) for the types in S, and reset() when S is all of Types:   *)
(* each active record has its timer cancelled, its handlers removed by the  *)
(* cleanup, and one 'reverted' event emitted for its own episode.           *)
ActiveIn(S) == {active[t] : t \in S} \ {None}
ActiveDeleted(S) == [t \in Types \ S |-> active[t]]   \* a mutant of ActiveAfter
ActiveAfter(S) == [t \in Types |-> IF t \in S THEN None ELSE active[t]]
TimersKept(S) == timers         \* a mutant of TimersAfter: no clearTimeout
TimersAfter(S) == timers \ {<<t, active[t]>> : t \in S}
HandlersKept(S) == handlers     \* a mutant of HandlersAfter: no removeEventListener
HandlersAfter(S) == handlers \ {<<t, active[t]>> : t \in S}
RevertedAfter(S) ==
  [e \in Episodes |-> IF e \in ActiveIn(S) THEN reverted[e] + 1 ELSE reverted[e]]

Clear(S) ==
  /\ active' = ActiveAfter(S)
  /\ timers' = TimersAfter(S)
  /\ handlers' = HandlersAfter(S)
  /\ reverted' = RevertedAfter(S)

(* Mutants of Apply: the record is overwritten without being cleared, and   *)
(* the TTL timer is never set.                                              *)
ApplyOver(type, found) ==
  /\ begun < MaxEpisodes
  /\ begun' = begun + 1
  /\ active' = IF found THEN [active EXCEPT ![type] = begun + 1] ELSE active
  /\ timers' = IF found /\ HasTtl THEN timers \cup {<<type, begun + 1>>} ELSE timers
  /\ handlers' = IF found /\ type \in Dismissible
                 THEN handlers \cup {<<type, begun + 1>>} ELSE handlers
  /\ kind' = IF found THEN [kind EXCEPT ![begun + 1] = type] ELSE kind
  /\ UNCHANGED <<reverted, dismissed>>

ApplyForever(type, found) ==
  /\ begun < MaxEpisodes
  /\ begun' = begun + 1
  /\ active' = IF found THEN [active EXCEPT ![type] = begun + 1] ELSE ActiveAfter({type})
  /\ timers' = TimersAfter({type})
  /\ handlers' = HandlersAfter({type})
                   \cup (IF found /\ type \in Dismissible THEN {<<type, begun + 1>>} ELSE {})
  /\ kind' = IF found THEN [kind EXCEPT ![begun + 1] = type] ELSE kind
  /\ reverted' = RevertedAfter({type})
  /\ UNCHANGED dismissed

(* apply(command): an active adaptation of the same type is cleared first,  *)
(* also when no target is then found and nothing is adapted in its place.   *)
(* offer_assistance builds its own banner and always finds a place for it.  *)
Apply(type, found) ==
  /\ begun < MaxEpisodes
  /\ type = "offer_assistance" => found
  /\ begun' = begun + 1
  /\ active' = IF found THEN [active EXCEPT ![type] = begun + 1] ELSE ActiveAfter({type})
  /\ timers' = TimersAfter({type})
                 \cup (IF found /\ HasTtl THEN {<<type, begun + 1>>} ELSE {})
  /\ handlers' = HandlersAfter({type})
                   \cup (IF found /\ type \in Dismissible THEN {<<type, begun + 1>>} ELSE {})
  /\ kind' = IF found THEN [kind EXCEPT ![begun + 1] = type] ELSE kind
  /\ reverted' = RevertedAfter({type})
  /\ UNCHANGED dismissed

(* A TTL timer fires: clear(command, 'ttl') clears by TYPE, so it ends      *)
(* whichever episode the map holds for it.                                  *)
Expire(type, episode) ==
  /\ <<type, episode>> \in timers
  /\ active' = ActiveAfter({type})
  /\ timers' = TimersAfter({type}) \ {<<type, episode>>}
  /\ handlers' = HandlersAfter({type})
  /\ reverted' = RevertedAfter({type})
  /\ UNCHANGED <<begun, kind, dismissed>>

(* Some installed handlers run, each clearing its type and then emitting    *)
(* 'dismissed' for the episode it was installed for.                        *)
Dismiss(fired) ==
  /\ fired # {}
  /\ Clear({h[1] : h \in fired})
  /\ dismissed' = [e \in Episodes |->
                     IF \E h \in fired : h[2] = e THEN dismissed[e] + 1 ELSE dismissed[e]]
  /\ UNCHANGED <<begun, kind>>

(* The Escape key reaches every handler on the document in one dispatch;    *)
(* the button is the assistance banner's own.                               *)
PressEscape == Dismiss(handlers)
ClickDismiss == \E h \in handlers : h[1] \in WithButton /\ Dismiss({h})

(* reset(reason)                                                            *)
Reset ==
  /\ Clear(Types)
  /\ UNCHANGED <<begun, kind, dismissed>>

Next ==
  \/ \E type \in Types, found \in BOOLEAN : Apply(type, found)
  \/ \E type \in Types, episode \in Episodes : Expire(type, episode)
  \/ PressEscape
  \/ ClickDismiss
  \/ Reset

Spec == Init /\ [][Next]_actuatorVars
(* A timer that setTimeout registered and nobody cancels does fire.         *)
FairSpec ==
  Spec /\ \A type \in Types, episode \in Episodes : WF_actuatorVars(Expire(type, episode))
-----------------------------------------------------------------------------
(* Every applied episode has exactly one reversion or is the live one of    *)
(* its type, never both; a dismissal is recorded at most once and only of   *)
(* an episode that was reverted (one terminal event per episode, clear(),   *)
(* reset() and the onDismiss handlers).                                     *)
EpisodeAccounting ==
  \A e \in Episodes :
    /\ dismissed[e] <= reverted[e]
    /\ reverted[e] <= IF kind[e] = NoType THEN 0 ELSE 1
    /\ \A t \in Types : active[t] = e <=> kind[e] = t /\ reverted[e] = 0

(* A TTL timer never outlives its adaptation, so it cannot cut short a      *)
(* later adaptation of the same type; and with a TTL no live adaptation is  *)
(* without its timer (clear() and apply()).                                 *)
TimersOfLiveEpisodes ==
  timers = IF HasTtl THEN {<<t, active[t]>> : t \in {u \in Types : active[u] # None}}
           ELSE {}

(* A dismissal handler never outlives its adaptation, so one key press      *)
(* cannot be recorded against an episode that already ended.                *)
HandlersOfLiveEpisodes ==
  handlers = {<<t, active[t]>> : t \in {u \in Dismissible : active[u] # None}}

(* An applied adaptation does not stay on the page for ever: its TTL ends   *)
(* it if nothing else does (setTimeout in apply()).                         *)
EveryEpisodeEnds ==
  \A e \in Episodes : (kind[e] # NoType) ~> (reverted[e] > 0)

(* The strengthening the proofs use.                                        *)
BegunOnly == \A e \in Episodes : e > begun => kind[e] = NoType
ActuatorInv ==
  /\ TypeOK /\ EpisodeAccounting /\ BegunOnly
  /\ TimersOfLiveEpisodes /\ HandlersOfLiveEpisodes

(* The record of episodes this component leaves is a run of the lifecycle.  *)
StatusOf(e) ==
  IF e > begun THEN "unused"
  ELSE IF kind[e] = NoType THEN "failed"
  ELSE IF reverted[e] = 0 THEN "live"
  ELSE IF dismissed[e] = 0 THEN "reverted"
  ELSE "dismissed"
Lifecycle == INSTANCE EpisodeLifecycle WITH
  status <- [e \in Episodes |-> StatusOf(e)]
ImplementsLifecycle == Lifecycle!Spec
=============================================================================
