--------------------------- MODULE MCDecisionTrace ---------------------------
(***************************************************************************)
(* Two symbols and three declared patterns, one of them for no command, of *)
(* which two are considered; a learned adaptive runtime and a baseline one *)
(* without patterns; trace buffers that a trial can just overflow.         *)
(***************************************************************************)
EXTENDS DecisionTrace

MCSymbols == <<"APPLY_FILTER", "OPEN_FILTERS">>
MCTypes == {"highlight_primary_action", "simplify_options", "expand_tooltip", "offer_assistance"}
MCDeclaredOrder == <<<<"OPEN_FILTERS", "APPLY_FILTER">>, <<"APPLY_FILTER">>, <<"OPEN_FILTERS">>>>
MCDeclared ==
  [p \in Range(MCDeclaredOrder) |->
     CASE p = <<"OPEN_FILTERS", "APPLY_FILTER">> -> "highlight_primary_action"
       [] p = <<"APPLY_FILTER">> -> "no_op"
       [] OTHER -> "simplify_options"]
MCConfigs ==
  {[condition |-> "adaptive", patterns |-> MCDeclaredOrder, slow |-> "onnx",
    models |-> {"foundation", "intervention"}, deterministic |-> FALSE],
   [condition |-> "baseline", patterns |-> << >>, slow |-> "onnx",
    models |-> {"foundation"}, deterministic |-> FALSE]}
MCHeadInputs ==
  {[outcome |-> "BACKTRACK", outcomeSure |-> TRUE,
    intervention |-> "highlight_primary_action", interventionSure |-> TRUE],
   [outcome |-> "CLICK", outcomeSure |-> TRUE, intervention |-> "no_op", interventionSure |-> TRUE],
   [outcome |-> "HOVER_DWELL", outcomeSure |-> FALSE,
    intervention |-> "simplify_options", interventionSure |-> FALSE]}
=============================================================================
