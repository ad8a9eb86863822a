--------------------------- MODULE MCAdaptationLoop ---------------------------
(***************************************************************************)
(* The loop with the two interventions that differ most for it: one whose  *)
(* application and reversion click the page themselves, and one the user   *)
(* can dismiss, and with two tasks one after the other: an answer asked    *)
(* for under the first may come during the second.                         *)
(***************************************************************************)
EXTENDS AdaptationLoop

MCTypes == {"simplify_options", "offer_assistance"}
MCPlan == <<{"T1"}, {"T2"}>>
MCSections == {"Region"}

(* What the task manager calls the task ground truth: only an act of the    *)
(* user completes a step of the task. The clicks with which a               *)
(* simplification closes and reopens sections are observed like any other,  *)
(* so the code does not keep this.                                          *)
StepsAreTheUsers ==
  [][task'.id = task.id /\ task'.step > task.step =>
       \E gesture \in Gestures(page, open) : Interact(gesture)]_vars
=============================================================================
