--------------------------- MODULE MacroObservation ---------------------------
(***************************************************************************)
(* From a pointer or form event on the page to a macro symbol: the         *)
(* observer (src/src/telemetry/observer.ts) reads the annotations of the   *)
(* element, deriveMacroSymbol (src/src/macro/symbols.ts) classifies the    *)
(* event and the stream (src/src/macro/sequence.ts) keeps the latest.      *)
(*                                                                         *)
(* The page is the filter drawer: the accordion button and the control of  *)
(* each section, and the submit button. Every element declares a           *)
(* data-aui-action, which the observer prefers to the type of the event.   *)
(***************************************************************************)
EXTENDS Naturals, Sequences

CONSTANTS
  Sections,     \* the sections of the drawer
  MaxCapacity,  \* maxCapacity of the stream
  MaxEvents     \* bound: the number of events observed

VARIABLES
  expanded,  \* the sections whose button shows aria-expanded="true"
  buffer,    \* MacroInteractionStream.buffer
  observed   \* how many events were observed

vars == <<expanded, buffer, observed>>

Accordion(s) == [role |-> "accordion", section |-> s, action |-> "click"]
Field(s) == [role |-> "filter", section |-> s, action |-> "change"]
ApplyButton == [role |-> "submit-action", section |-> "none", action |-> "click"]
Elements ==
  {Accordion(s) : s \in Sections} \cup {Field(s) : s \in expanded} \cup {ApplyButton}

(* The event the observer emits for one that reaches an element: the        *)
(* listeners are registered for the capture phase, so the attributes are    *)
(* read before the element's own handlers run. A control inherits nothing:  *)
(* aria-expanded is looked up on the element and below it.                  *)
AriaExpanded(element) ==
  IF element.role # "accordion" THEN "undefined"
  ELSE IF element.section \in expanded THEN "true" ELSE "false"
Emitted(type, element) ==
  [type |-> type, on |-> element, ariaExpanded |-> AriaExpanded(element)]

(* deriveMacroSymbol for these elements; "none" is null.                    *)
SelectOf(s) ==
  CASE s = "Region" -> "SELECT_REGION"
    [] s = "Date Range" -> "SELECT_DATE"
    [] s = "Product Category" -> "SELECT_CATEGORY"
    [] OTHER -> "SELECT_SEGMENT"
DeriveMacroSymbol(event) ==
  CASE event.on.role = "submit-action" -> "APPLY_FILTER"
    [] event.on.role = "accordion" ->
         \* action === 'click' holds for every event on an accordion button.
         IF event.ariaExpanded = "true" THEN "OPEN_FILTERS"
         ELSE IF event.ariaExpanded = "false" THEN "CLOSE_FILTERS" ELSE "none"
    [] OTHER -> SelectOf(event.on.section)

(* record(): append, then drop the oldest beyond the capacity.              *)
Interaction(event) ==
  [symbol |-> DeriveMacroSymbol(event), section |-> event.on.section, type |-> event.type]
Record(event) ==
  LET longer == Append(buffer, Interaction(event)) IN
  buffer' = IF DeriveMacroSymbol(event) = "none" THEN buffer
            ELSE IF Len(longer) > MaxCapacity THEN Tail(longer) ELSE longer

Init == expanded = {} /\ buffer = << >> /\ observed = 0

Observe(type, element) ==
  /\ observed < MaxEvents
  /\ observed' = observed + 1
  /\ Record(Emitted(type, element))

(* The pointer moves over an element or leaves it.                          *)
PointerMoves(element) ==
  /\ Observe("mousemove", element)
  /\ UNCHANGED expanded

(* A click: the observer, then the handler; toggleSection() is committed    *)
(* before the next event.                                                   *)
Click(element) ==
  /\ Observe("click", element)
  /\ expanded' = IF element.role # "accordion" THEN expanded
                 ELSE (expanded \ {element.section}) \cup ({element.section} \ expanded)

ChangeField(element) ==
  /\ element.role = "filter"
  /\ Observe("change", element)
  /\ UNCHANGED expanded

(* clear(), from resetTrial() and stop()                                    *)
Clear ==
  /\ buffer' = << >>
  /\ UNCHANGED <<expanded, observed>>

Next ==
  \/ \E element \in Elements :
       PointerMoves(element) \/ Click(element) \/ ChangeField(element)
  \/ Clear

Spec == Init /\ [][Next]_vars
-----------------------------------------------------------------------------
(* What the comment in extractElementMetadata says: a click on an accordion *)
(* is recorded with the state the section became, OPEN_FILTERS when it was  *)
(* opened and CLOSE_FILTERS when it was closed. The listeners capture, so   *)
(* the code records the state it was.                                       *)
DisclosureObserved ==
  [][\A s \in Sections : Click(Accordion(s)) =>
       buffer'[Len(buffer')].symbol =
         (IF s \in expanded' THEN "OPEN_FILTERS" ELSE "CLOSE_FILTERS")]_vars
=============================================================================
