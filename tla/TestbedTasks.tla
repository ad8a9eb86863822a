----------------------------- MODULE TestbedTasks -----------------------------
(***************************************************************************)
(* The experimental tasks of the testbed and what an observed interaction  *)
(* does to them (src/src/testbed/tasks/taskModel.ts, taskManager.ts), and  *)
(* the controls the page renders for them (src/src/app/App.tsx,            *)
(* src/src/testbed/components/FilterDrawer.tsx). Operators only: the       *)
(* modules that keep the state apply them.                                 *)
(*                                                                         *)
(* A component is named by its family and its name: <<"filter", s>> is the *)
(* accordion button of section s, <<"field", s>> the control inside it.    *)
(* The count of errors is left out: an error is a lifecycle event.         *)
(***************************************************************************)
EXTENDS Naturals, Sequences

CONSTANTS
  Sections,   \* the sections of the filter drawer that are modelled
  NoTask

SectionOrder == <<"Date Range", "Region", "Product Category", "Advanced Options">>
Pages == {"Overview", "Analytics"}

ASSUME TasksAssumption == Sections \subseteq {SectionOrder[k] : k \in 1..4}
-----------------------------------------------------------------------------
Click(component) == [on |-> component, action |-> "click"]
Change(component) == [on |-> component, action |-> "change"]
Submit == [on |-> <<"filter", "drawer">>, action |-> "submit"]

NavClick(page) == Click(<<"nav", page>>)
ApplyClick == Click(<<"btn", "apply-filters">>)
ExportClick == Click(<<"btn", "export">>)
ControlClick == Click(<<"btn", "trial-control">>)

(* EXPERIMENTAL_TASKS                                                       *)
TaskIds == {"T1", "T2", "T3"}
ASSUME NoTaskAssumption == NoTask \notin TaskIds   \* currentTask null has no id
ExpectedSteps ==
  [T1 |-> <<NavClick("Analytics"), Click(<<"filter", "Region">>),
            Change(<<"field", "Region">>), ApplyClick>>,
   T2 |-> <<NavClick("Analytics"), ExportClick>>,
   T3 |-> <<NavClick("Analytics"), Click(<<"filter", "Product Category">>),
            Change(<<"field", "Advanced Options">>), ApplyClick>>]

Statuses == {"Idle", "In Progress", "Completed", "Abandoned"}
Idle == [id |-> NoTask, status |-> "Idle", step |-> 0]
Started(id) == [id |-> id, status |-> "In Progress", step |-> 0]
InProgress(s) == s.status = "In Progress"

(* resetTask(): Idle whatever the task was; a task in progress is published *)
(* as abandoned first, the one ending a reset can publish.                  *)
ResetTask(s) == [task |-> Idle, endings |-> IF InProgress(s) THEN 1 ELSE 0]
Terminal(s) == s.status \in {"Completed", "Abandoned"}
TaskOK(s) ==
  /\ s.status \in Statuses
  /\ IF s.status = "Idle" THEN s = Idle
     ELSE s.id \in TaskIds /\ s.step \in 0..Len(ExpectedSteps[s.id])
  /\ s.status = "Completed" <=> s.id # NoTask /\ s.step = Len(ExpectedSteps[s.id])

(* recordInteraction: the current step is completed or, for an action that  *)
(* is a click, a change or a submit, a task error is published.             *)
Matches(s, i) == InProgress(s) /\ i = ExpectedSteps[s.id][s.step + 1]
Publishes(s, i) ==
  InProgress(s) /\ (Matches(s, i) \/ i.action \in {"click", "change", "submit"})
CompleteStep(s) ==
  [s EXCEPT !.step = @ + 1,
            !.status = IF s.step + 1 = Len(ExpectedSteps[s.id]) THEN "Completed" ELSE @]
Recorded(s, i) == IF Matches(s, i) THEN CompleteStep(s) ELSE s

(* The same for the interactions one gesture dispatches, in order.          *)
TaskAlong(s, gesture) ==
  LET after[k \in 0..Len(gesture)] ==
        IF k = 0 THEN s ELSE Recorded(after[k - 1], gesture[k])
  IN  after
RecordedAll(s, gesture) ==
  IF InProgress(s) THEN TaskAlong(s, gesture)[Len(gesture)] ELSE s
PublishesAny(s, gesture) ==
  /\ InProgress(s)
  /\ \E k \in DOMAIN gesture : Publishes(TaskAlong(s, gesture)[k - 1], gesture[k])
-----------------------------------------------------------------------------
(* What the page renders: the drawer and the results only on Analytics, a   *)
(* section's control only while the section is open. A gesture is the       *)
(* sequence of interactions one act of the user dispatches; Apply is the    *)
(* submit button of the drawer's form.                                      *)
ApplyGesture == <<ApplyClick, Submit>>
Gestures(page, open) ==
  {<<NavClick(p)>> : p \in Pages} \cup
  (IF page # "Analytics" THEN {}
   ELSE {<<ExportClick>>, ApplyGesture}
          \cup {<<Click(<<"filter", s>>)>> : s \in Sections}
          \cup {<<Change(<<"field", s>>)>> : s \in open})

PageAfter(page, gesture) ==
  IF \E p \in Pages : gesture = <<NavClick(p)>>
  THEN CHOOSE p \in Pages : gesture = <<NavClick(p)>> ELSE page

(* A mutant of OpenAfter: the drawer's state survives another page.         *)
OpenRemembered(page, open, gesture) ==
  LET toggled == {s \in Sections : gesture = <<Click(<<"filter", s>>)>>}
  IN  (open \ toggled) \cup (toggled \ open)

(* setOpenSections; leaving Analytics unmounts the drawer and its state.    *)
Toggled(gesture) == {s \in Sections : gesture = <<Click(<<"filter", s>>)>>}
OpenAfter(page, open, gesture) ==
  IF PageAfter(page, gesture) # "Analytics" THEN {}
  ELSE (open \ Toggled(gesture)) \cup (Toggled(gesture) \ open)

(* The clicks on the accordion buttons of a set of sections, in page order. *)
SectionClick(k, S) ==
  IF SectionOrder[k] \in S THEN <<Click(<<"filter", SectionOrder[k]>>)>> ELSE << >>
SectionClicks(S) ==
  SectionClick(1, S) \o SectionClick(2, S) \o SectionClick(3, S) \o SectionClick(4, S)
=============================================================================
