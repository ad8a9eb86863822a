------------------------- MODULE MCInterventionPolicy -------------------------
(* Inputs of accept() for TLC: two recommendable types, one of which names   *)
(* no component half of the time, confident or not; contexts of either task  *)
(* or of none, with every affordance or with none.                           *)
EXTENDS InterventionPolicy

CONSTANTS filter, T1, T2

MCCommands ==
  [type: {"highlight_primary_action"}, target: {filter}, confident: BOOLEAN]
    \cup [type: {"expand_tooltip"}, target: {NoTarget}, confident: {TRUE}]
    \cup [type: {"no_op"}, target: {NoTarget}, confident: {TRUE}]

MCContexts ==
  { [taskId |-> task, primaryActionAvailable |-> present, expandable |-> FALSE,
     helpAvailable |-> present] : task \in {T1, T2, NoTask}, present \in BOOLEAN }
=============================================================================
