------------------------- MODULE MCEvaluationPipeline -------------------------
(***************************************************************************)
(* A sequence of two windows and enough windows that the sequence slides,  *)
(* evaluations are superseded and a reset falls between any two messages.  *)
(***************************************************************************)
EXTENDS EvaluationPipeline
=============================================================================
