--------------------------- MODULE EpisodeLifecycle ---------------------------
(***************************************************************************)
(* What the actuation layer promises of intervention episodes, whoever     *)
(* ends them and in whatever order. An episode is begun once, and either   *)
(* fails at once or is live until it is reverted; a dismissal is the       *)
(* reversion of a live episode that the user asked for. No two live        *)
(* episodes ever have the same type.                                       *)
(***************************************************************************)
EXTENDS Naturals

CONSTANTS Types, NoType, MaxEpisodes

Episodes == 1..MaxEpisodes
Statuses == {"unused", "failed", "live", "reverted", "dismissed"}
Moves == {<<"unused", "failed">>, <<"unused", "live">>,
          <<"live", "reverted">>, <<"live", "dismissed">>}

VARIABLES status, kind   \* per episode: where it is, and the type it adapts

Exclusive(s, k) ==
  \A e, f \in Episodes : s[e] = "live" /\ s[f] = "live" /\ k[e] = k[f] => e = f

Init ==
  /\ status = [e \in Episodes |-> "unused"]
  /\ kind = [e \in Episodes |-> NoType]

(* Any number of live episodes may end in one step (a reset ends them all), *)
(* and a replacement ends one as it begins the next.                        *)
Next ==
  /\ status' \in [Episodes -> Statuses] /\ kind' \in [Episodes -> Types \cup {NoType}]
  /\ \A e \in Episodes :
       /\ status'[e] # status[e] => <<status[e], status'[e]>> \in Moves
       /\ kind'[e] # kind[e] => status[e] = "unused" /\ status'[e] = "live"
       /\ status'[e] = "live" => kind'[e] \in Types
  /\ Exclusive(status', kind')

Spec == Init /\ [][Next]_<<status, kind>>
=============================================================================
