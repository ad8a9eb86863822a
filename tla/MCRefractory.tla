----------------------------- MODULE MCRefractory -----------------------------
(***************************************************************************)
(* The loop with one more history variable: when the last adaptation of    *)
(* the current trial was accepted.                                         *)
(***************************************************************************)
EXTENDS MCAdaptationLoop

CONSTANT Never
VARIABLE acceptedLast

refractoryVars == <<vars, acceptedLast>>

RefractoryInit == Init /\ acceptedLast = Never
RefractoryNext ==
  /\ Next
  /\ acceptedLast' = IF begun' # begun THEN now
                     ELSE IF HandleReset \/ starting # NoTask THEN Never
                     ELSE acceptedLast
RefractorySpec == RefractoryInit /\ [][RefractoryNext]_refractoryVars

(* What the architecture document says of the cooldown: within one trial no *)
(* intervention is accepted during the refractory period that follows an    *)
(* accepted one. Every step and every error of the task is published, and   *)
(* every publication resets the policy, so the code does not keep this.     *)
RefractoryPeriod ==
  [][begun' # begun /\ acceptedLast # Never => now - acceptedLast >= CooldownMs]_refractoryVars
=============================================================================
