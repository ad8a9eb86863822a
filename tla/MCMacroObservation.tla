-------------------------- MODULE MCMacroObservation --------------------------
(***************************************************************************)
(* The macro stream over two sections of the drawer.                       *)
(***************************************************************************)
EXTENDS MacroObservation
=============================================================================
