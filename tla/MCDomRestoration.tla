--------------------------- MODULE MCDomRestoration ---------------------------
(***************************************************************************)
(* One filter section, the drawer and one navigation button, under the     *)
(* three adaptations that rewrite host elements.                           *)
(***************************************************************************)
EXTENDS UserSections

CONSTANT S1

MCTypes == {"highlight_primary_action", "simplify_options", "expand_tooltip",
            "offer_assistance"}
=============================================================================
