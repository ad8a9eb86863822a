--------------------------- MODULE MCWindowOutcomes ---------------------------
(***************************************************************************)
(* Slots of two instants held open for one, a horizon of one to four       *)
(* instants after the window, and a clock that a new session may set back  *)
(* or forth. The capacity and the deriver's limit are below the number of  *)
(* events.                                                                 *)
(***************************************************************************)
EXTENDS WindowOutcomes

MCClockSteps == {-2, 0, 2}
MCKindsAt ==
  [n \in 0..2 |-> CASE n = 0 -> {"scroll"} [] n = 1 -> {"scroll", "click"}
                    [] OTHER -> {"submit", "lifecycle"}]
=============================================================================
