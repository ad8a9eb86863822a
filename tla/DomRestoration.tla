---------------------------- MODULE DomRestoration ----------------------------
(***************************************************************************)
(* What the adaptations do to the page and what their cleanup closures put *)
(* back (src/src/intervention/actuator.ts, apply* and markAdaptation),     *)
(* composed with the actuator's lifecycle and with the host application:   *)
(* React re-renders a navigation button's class on every navigation,       *)
(* unmounts the Analytics page with its filter accordions, and owns each   *)
(* accordion's open state.                                                 *)
(*                                                                         *)
(* A node's class attribute is the class the host rendered and the edge-aui*)
(* tokens added to it; its mark is the episode its data-aui-adaptation-    *)
(* episode attribute names, None when there is no such attribute. The      *)
(* assistance banner is a node of its own, removed whole, and the tooltip  *)
(* bubble likewise: neither shares state with the host, so both are left   *)
(* out here.                                                               *)
(***************************************************************************)
EXTENDS UIActuator

CONSTANTS
  Nav,             \* the navigation button of the Analytics page
  Drawer,          \* the filter drawer
  Sections,        \* its accordion buttons
  FirstSection     \* the first of them in document order

OnPage == Sections \cup {Drawer}   \* mounted with the Analytics page only
Elements == OnPage \cup {Nav}

ASSUME PageAssumption ==
  /\ FirstSection \in Sections /\ Drawer \notin Sections /\ Nav \notin OnPage

VARIABLES
  mounted,    \* the Analytics page is shown
  dom,        \* per element: [host, tokens, mark, expanded]
  open,       \* per section: the host's state
  saved,      \* per type: what its cleanup closure captured
  disturbed,  \* history: sections the user toggled, and elements two live
              \* adaptations shared or the host rewrote, during an adaptation
  described   \* history: elements a tooltip was put on since they were mounted

domVars == <<mounted, dom, open, saved, disturbed, described>>
vars == <<actuatorVars, domVars>>

NavClass(shown) == IF shown THEN "active" ELSE "plain"
Attr(b) == IF b THEN "true" ELSE "false"
Rendered(el, shown) ==
  [host |-> IF el = Nav THEN NavClass(shown) ELSE "plain", tokens |-> {}, mark |-> None,
   expanded |-> IF el \in Sections THEN "false" ELSE "absent"]
(* aria-expanded as the host renders it now.                                *)
HostAria(el) == IF el \in Sections THEN Attr(open[el]) ELSE "absent"
NoRecord == [el |-> Nav, class |-> <<"plain", {}>>, markEl |-> Nav, mark |-> None,
             folded |-> {}, detached |-> TRUE]

DomTypeOK ==
  /\ mounted \in BOOLEAN
  /\ \A el \in Elements :
       /\ dom[el].host \in {"plain", "active"} /\ dom[el].tokens \subseteq Types
       /\ dom[el].mark \in 0..MaxEpisodes /\ dom[el].expanded \in {"absent", "true", "false"}
  /\ open \in [Sections -> BOOLEAN]
  /\ disturbed \subseteq Elements /\ described \subseteq Elements

DomInit ==
  /\ Init
  /\ mounted = TRUE
  /\ dom = [el \in Elements |-> Rendered(el, TRUE)]
  /\ open = [s \in Sections |-> FALSE]
  /\ saved = [t \in Types |-> NoRecord]
  /\ disturbed = {} /\ described = {}
-----------------------------------------------------------------------------
(* A page is the part of the state adaptations and cleanups rewrite.        *)
Page == [dom |-> dom, open |-> open]

(* A click on an accordion button flips the state the host keeps for the    *)
(* section. React renders it in a microtask, so that the code of a step     *)
(* still reads the attributes of before its clicks.                         *)
Click(p, s) == [p EXCEPT !.open[s] = ~@]
ClickAll(p, S) == [p EXCEPT !.open = [s \in Sections |-> IF s \in S THEN ~p.open[s] ELSE p.open[s]]]

SetClass(p, el, class) ==
  [p EXCEPT !.dom[el] = [@ EXCEPT !.host = class[1], !.tokens = class[2]]]
SetMark(p, el, mark) == [p EXCEPT !.dom[el].mark = mark]

(* The cleanup of the type's record, then its unmark(). A record whose      *)
(* nodes were unmounted rewrites detached nodes, and its clicks never reach *)
(* the host. The tooltip's cleanup removes aria-expanded unconditionally.   *)
CleanupKeepsFolded(p, type) ==     \* a mutant of Cleanup: nothing is re-expanded
  LET r == saved[type] IN
  IF r.detached THEN p ELSE SetMark(SetClass(p, r.el, r.class), r.markEl, r.mark)
CleanupWithoutUnmark(p, type) ==   \* a mutant of Cleanup: the mark stays
  LET r == saved[type] IN IF r.detached THEN p ELSE SetClass(p, r.el, r.class)
CleanupBlanksAria(p, type) ==      \* a mutant of Cleanup: the attribute is emptied
  LET r == saved[type] IN
  IF r.detached THEN p ELSE [SetClass(p, r.el, r.class) EXCEPT !.dom[r.el].expanded = ""]
Cleanup(p, type) ==
  LET r == saved[type]
      classed == SetClass(p, r.el, r.class)
      shut == {s \in r.folded : p.dom[s].expanded # "true"}
      undone == IF type = "simplify_options" THEN ClickAll(classed, shut)
                   ELSE IF type = "expand_tooltip"
                     THEN [classed EXCEPT !.dom[r.el].expanded = "absent"]
                   ELSE classed
  IN IF r.detached THEN p ELSE SetMark(undone, r.markEl, r.mark)

(* clear(command) runs the cleanup of its type when it is active; reset()   *)
(* runs them all in the order the map holds them, which is that of their    *)
(* episodes: the page after those of the first e episodes.                  *)
AdaptedIn(S, e) == {t \in S : active[t] = e}
CleanupOf(S, e, p) ==
  IF AdaptedIn(S, e) = {} THEN p ELSE Cleanup(p, CHOOSE t \in AdaptedIn(S, e) : TRUE)
CleanedUpTo(S) ==
  LET after[e \in 0..MaxEpisodes] ==
        IF e = 0 THEN Page ELSE CleanupOf(S, e, after[e - 1])
  IN  after
Cleaned(S) == CleanedUpTo(S)[MaxEpisodes]

(* What a step leaves: React sets the attribute of a section whose state    *)
(* changed and leaves the others as the code wrote them.                    *)
SetPage(p) ==
  /\ open' = p.open
  /\ dom' = [el \in Elements |->
               IF el \in Sections /\ p.open[el] # open[el]
               THEN [p.dom[el] EXCEPT !.expanded = Attr(p.open[el])] ELSE p.dom[el]]

(* The live adaptations that hold an element of the page, and those other   *)
(* than type that hold one of E.                                            *)
Holds(type) == {saved[type].el, saved[type].markEl}
LiveHolders(el) == {t \in Types : active[t] # None /\ ~saved[t].detached /\ el \in Holds(t)}
SharedWith(type, E) == {el \in E : LiveHolders(el) \ {type} # {}}

Record(p, el, markEl, folded) ==
  [el |-> el, class |-> <<p.dom[el].host, p.dom[el].tokens>>, markEl |-> markEl,
   mark |-> p.dom[markEl].mark, folded |-> folded, detached |-> FALSE]
Tokened(p, el, type) == [p EXCEPT !.dom[el].tokens = @ \cup {type}]

Install(type, p, record) ==
  /\ SetPage(SetMark(p, record.markEl, begun + 1))
  /\ saved' = [saved EXCEPT ![type] = record]
  /\ disturbed' = disturbed \cup SharedWith(type, {record.el, record.markEl})
  /\ described' = IF type = "expand_tooltip" THEN described \cup {record.el} ELSE described
  /\ UNCHANGED mounted

(* applyHighlightPrimaryAction and applyExpandTooltip on the element the    *)
(* command names or the fallback selector finds.                            *)
AdaptElement(type, el) ==
  LET p == Cleaned({type})
      tokened == Tokened(p, el, type)
      shown == IF type = "expand_tooltip"
               THEN [tokened EXCEPT !.dom[el].expanded = "true"] ELSE tokened
  IN  /\ type \in {"highlight_primary_action", "expand_tooltip"}
      /\ el \in OnPage => mounted
      /\ Apply(type, TRUE)
      /\ Install(type, shown, Record(p, el, el, {}))

(* applySimplifyOptions: every section that reads as expanded is clicked,   *)
(* but the one that holds the focus; the drawer gets the class and the      *)
(* first accordion button the mark.                                         *)
Simplify(focused) ==
  LET p == Cleaned({"simplify_options"})
      folded == {s \in Sections \ focused : p.dom[s].expanded = "true"}
  IN  /\ "simplify_options" \in Types /\ mounted
      /\ Apply("simplify_options", TRUE)
      /\ Install("simplify_options", ClickAll(Tokened(p, Drawer, "simplify_options"), folded),
                 Record(p, Drawer, FirstSection, folded))

(* No element to adapt: the previous adaptation of the type is gone anyway. *)
AdaptNothing(type) ==
  /\ type \in {"highlight_primary_action", "expand_tooltip", "simplify_options"} /\ ~mounted
  /\ Apply(type, FALSE)
  /\ SetPage(Cleaned({type}))
  /\ UNCHANGED <<mounted, saved, disturbed, described>>

(* applyOfferAssistance: a banner of its own, so only the previous banner   *)
(* goes and no host node changes.                                           *)
OfferAssistance ==
  /\ "offer_assistance" \in Types
  /\ Apply("offer_assistance", TRUE)
  /\ UNCHANGED domVars

(* The other ways an adaptation ends, each with the cleanups it runs.       *)
End(S) == SetPage(Cleaned(S)) /\ UNCHANGED <<mounted, saved, disturbed, described>>
ExpireAndClean(type, episode) == Expire(type, episode) /\ End({type})
EscapeAndClean == PressEscape /\ End({h[1] : h \in handlers})
ClickAndClean == ClickDismiss /\ UNCHANGED domVars   \* the banner's own button
ResetAndClean == Reset /\ End(Types)

(* The host: the user opens or closes a section, or navigates.              *)
Simplified == "simplify_options" \in Types /\ active["simplify_options"] # None
Toggle(s) ==
  /\ mounted
  /\ SetPage(Click(Page, s))
  /\ disturbed' = IF Simplified THEN disturbed \cup {s} ELSE disturbed
  /\ UNCHANGED <<actuatorVars, mounted, saved, described>>

Navigate ==
  /\ mounted' = ~mounted
  /\ dom' = [el \in Elements |->
               IF el = Nav THEN [dom[Nav] EXCEPT !.host = NavClass(~mounted), !.tokens = {}]
               ELSE Rendered(el, ~mounted)]
  /\ open' = [s \in Sections |-> FALSE]
  /\ saved' = [t \in Types |-> IF saved[t].el \in OnPage
                               THEN [saved[t] EXCEPT !.detached = TRUE] ELSE saved[t]]
  /\ disturbed' = (disturbed \cap {Nav}) \cup (IF LiveHolders(Nav) # {} THEN {Nav} ELSE {})
  /\ described' = described \cap {Nav}
  /\ UNCHANGED actuatorVars

Adaptation ==
  \/ \E type \in Types, el \in Elements : AdaptElement(type, el)
  \/ \E focused \in {{}} \cup {{s} : s \in Sections} : Simplify(focused)
  \/ \E type \in Types : AdaptNothing(type)
  \/ OfferAssistance
  \/ \E type \in Types, episode \in Episodes : ExpireAndClean(type, episode)
  \/ EscapeAndClean
  \/ ClickAndClean
  \/ ResetAndClean

DomNext ==
  \/ Adaptation
  \/ \E s \in Sections : Toggle(s)
  \/ Navigate

DomSpec == DomInit /\ [][DomNext]_vars

(* A timer that setTimeout registered and nobody cancels does fire.         *)
TimersFire ==
  \A type \in Types, episode \in Episodes : WF_actuatorVars(Expire(type, episode))
-----------------------------------------------------------------------------
(* An element that no two live adaptations ever shared and that the host    *)
(* did not rewrite meanwhile has the class it was rendered with and no      *)
(* correlation attribute once no adaptation holds it, whatever ended the    *)
(* adaptation and in whatever order (the cleanup closures, unmark()); and   *)
(* its aria-expanded is the host's, save that a tooltip's cleanup removes   *)
(* the attribute from its element, and does not put back what it had        *)
(* overwritten (actuator.ts:469, :536), until the host next changes it. So  *)
(* the exception is a loss the code does cause, against "100% deterministic *)
(* restoration" (:12) and "restores attributes" (docs/architecture.md:235). *)
RestoredWhenUndisturbed ==
  \A el \in Elements \ disturbed :
    LiveHolders(el) = {} =>
      /\ dom[el].host = Rendered(el, mounted).host
      /\ dom[el].tokens = {} /\ dom[el].mark = None
      /\ \/ dom[el].expanded = HostAria(el)
         \/ el \in described /\ dom[el].expanded = "absent"
=============================================================================
