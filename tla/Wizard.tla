------------------------------- MODULE Wizard -------------------------------
(***************************************************************************)
(* The plan wizard in a browser: six steps over one draft, kept in local   *)
(* storage by the store's persist middleware and rehydrated by whatever    *)
(* tab opens the wizard next, the gate of each step, the acknowledgement   *)
(* and the request that creates the plan                                   *)
(* (web features/campaign-architect: store, pages/new-plan, wizard steps). *)
(***************************************************************************)
EXTENDS Naturals, Sequences

CONSTANTS WIZARD_STEPS,  \* basics, platforms, audience, schedule, creative, review; or some of them
          WizardTabs,    \* open tabs
          MaxPlans       \* plans created from the wizard (bound)

Final == Len(WIZARD_STEPS)  \* review

ASSUME WizardAssumption ==
  /\ WIZARD_STEPS \in Seq({WIZARD_STEPS[i] : i \in 1..Final}) /\ Final >= 1 /\ MaxPlans \in Nat
  /\ \A i, j \in 1..Final : WIZARD_STEPS[i] = WIZARD_STEPS[j] => i = j

StepForms == {WIZARD_STEPS[i] : i \in 1..Final - 1}

VARIABLES kept,    \* local storage: the step and the draft
          wizard,  \* per tab: its copy of them, the page's own state, the request
          plans    \* the plans created: what was asked for, and whether anybody had asked before

wizardVars == <<kept, wizard, plans>>

\* Of each step's part of the draft: is it "open" (the gate refuses it), "fine", or "odd":
\* taken by the gate and refused by the route (a country of one letter, a target of 0)?
Content == [StepForms -> {"open", "fine", "odd"}]
\* INITIAL_DRAFT: no name, no goal and no platform, and defaults for the rest.
INITIAL_DRAFT == [f \in StepForms |-> IF f \in {"basics", "platforms"} THEN "open" ELSE "fine"]

Fresh == [step |-> 1, draft |-> INITIAL_DRAFT]
ClosedTab == [pc |-> "closed", step |-> 1, draft |-> INITIAL_DRAFT, acknowledged |-> FALSE]

WizardTypeOK ==
  /\ kept \in [step : 1..Final, draft : Content]
  /\ wizard \in [WizardTabs -> [pc : {"closed", "open", "pending"}, step : 1..Final, draft : Content, acknowledged : BOOLEAN]]
  /\ plans \in Seq([draft : Content]) /\ Len(plans) <= MaxPlans

WizardInit == kept = Fresh /\ wizard = [t \in WizardTabs |-> ClosedTab] /\ plans = <<>>

\* A change of the store, in an open tab, is written to local storage, whole.
Stored(t, step, draft, ack) ==
  /\ wizard' = [wizard EXCEPT ![t] = [pc |-> "open", step |-> step, draft |-> draft, acknowledged |-> ack]]
  /\ kept' = [step |-> step, draft |-> draft]

\* The page mounts in this tab, or is reloaded: the store is what storage has.
OpenWizard(t) ==
  /\ wizard' = [wizard EXCEPT ![t] = [pc |-> "open", step |-> kept.step, draft |-> kept.draft, acknowledged |-> FALSE]]
  /\ UNCHANGED <<kept, plans>>

StepValid(t) ==
  IF wizard[t].step = Final THEN wizard[t].acknowledged ELSE wizard[t].draft[WIZARD_STEPS[wizard[t].step]] # "open"

\* patch, patchPlatformSelection: the form on the page is filled in.
PatchForm(t, value) ==
  /\ wizard[t].pc = "open" /\ wizard[t].step < Final
  /\ Stored(t, wizard[t].step, [wizard[t].draft EXCEPT ![WIZARD_STEPS[wizard[t].step]] = value], wizard[t].acknowledged)
  /\ UNCHANGED plans

Acknowledge(t) ==
  /\ wizard[t].pc = "open" /\ wizard[t].step = Final
  /\ wizard' = [wizard EXCEPT ![t].acknowledged = ~@]
  /\ UNCHANGED <<kept, plans>>

GoNextUnchecked(t) ==  \* mutant: the button does not look at the step
  /\ wizard[t].pc = "open" /\ wizard[t].step < Final
  /\ Stored(t, wizard[t].step + 1, wizard[t].draft, wizard[t].acknowledged)
  /\ UNCHANGED plans

GoNext(t) ==
  /\ wizard[t].pc = "open" /\ StepValid(t) /\ wizard[t].step < Final
  /\ Stored(t, wizard[t].step + 1, wizard[t].draft, wizard[t].acknowledged)
  /\ UNCHANGED plans

GoBack(t) ==
  /\ wizard[t].pc = "open" /\ wizard[t].step > 1
  /\ Stored(t, wizard[t].step - 1, wizard[t].draft, wizard[t].acknowledged)
  /\ UNCHANGED plans

\* On the last step the same button sends the draft; it is disabled while a request is out.
SubmitWizard(t) ==
  /\ wizard[t].pc = "open" /\ StepValid(t) /\ wizard[t].step = Final
  /\ wizard' = [wizard EXCEPT ![t].pc = "pending"]
  /\ UNCHANGED <<kept, plans>>

\* The route validates the draft and stores a plan.
Created(t) ==
  /\ Len(plans) < MaxPlans /\ \A f \in StepForms : wizard[t].draft[f] = "fine"
  /\ plans' = Append(plans, [draft |-> wizard[t].draft])

\* onSuccess: the store is reset, here and in storage.
WizardDone(t) ==
  /\ wizard[t].pc = "pending" /\ Created(t)
  /\ wizard' = [wizard EXCEPT ![t] = ClosedTab]
  /\ kept' = Fresh

\* onError: the page stays as it is, although the plan may have been created.
WizardFails(t) ==
  /\ wizard[t].pc = "pending"
  /\ wizard' = [wizard EXCEPT ![t].pc = "open"]
  /\ Created(t) \/ UNCHANGED plans
  /\ UNCHANGED kept

WizardNext ==
  \E t \in WizardTabs :
    \/ OpenWizard(t) \/ Acknowledge(t) \/ GoNext(t) \/ GoBack(t) \/ SubmitWizard(t)
    \/ WizardDone(t) \/ WizardFails(t)
    \/ \E value \in {"open", "fine", "odd"} : PatchForm(t, value)

WizardSpec == WizardInit /\ [][WizardNext]_wizardVars

-----------------------------------------------------------------------------
\* Whoever goes back, edits, reloads or continues in another tab: behind the step a draft
\* is at, every form has passed its gate, in the tabs and in storage; and so has every
\* form of a draft that is sent (new-plan.page.tsx 48-84, wizard.store.ts 65-100).
WhatIsBehindIsValid ==
  \A d \in {kept} \cup {wizard[t] : t \in WizardTabs} :
    \A i \in 1..Final - 1 : i < d.step => d.draft[WIZARD_STEPS[i]] # "open"
=============================================================================
