----------------------------- MODULE UserSections -----------------------------
(***************************************************************************)
(* The page of DomRestoration beside what the user last chose for each     *)
(* section of the filter drawer: wanted is that choice; tipped holds the   *)
(* sections whose aria-expanded a tooltip made disagree with their state.  *)
(***************************************************************************)
EXTENDS DomRestoration

VARIABLES wanted, tipped

WantedInit == DomInit /\ wanted = open /\ tipped = {}
WantedNext ==
  /\ \/ \E s \in Sections : Toggle(s) /\ wanted' = [wanted EXCEPT ![s] = ~open[s]]
     \/ Navigate /\ wanted' = [s \in Sections |-> FALSE]
     \/ Adaptation /\ UNCHANGED wanted
  /\ tipped' = tipped \cup {s \in Sections : dom'[s].expanded # Attr(open'[s])}
WantedSpec == WantedInit /\ [][WantedNext]_<<vars, wanted, tipped>> /\ TimersFire

(* Sections follow the user: unless the user toggled it during a            *)
(* simplification or a tooltip rewrote its aria-expanded, a section is as   *)
(* the user left it whenever no simplification is live, however many were   *)
(* applied and replaced (applySimplifyOptions and its cleanup).             *)
SectionsFollowUser ==
  ~Simplified => \A s \in Sections \ (disturbed \cup tipped) : open[s] = wanted[s]
=============================================================================
