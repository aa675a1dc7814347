-------------------------- MODULE SetupWizardPage --------------------------
(***************************************************************************)
(* The setup wizard (SetupWizard.tsx): four steps to a backup job, which   *)
(* is validated by the Rust process before the context takes it.  Names    *)
(* and credentials are left out of the draft; of the retention numbers it  *)
(* has whether keep_last is at least 1.                                    *)
(***************************************************************************)
EXTENDS ClientContext

VARIABLE wizard

Steps == <<"source-folders", "peer-target", "retention", "summary">>

Wizard == [step : 1..Len(Steps), draft : SetupDraftConfig, saving : BOOLEAN,
           completed : BOOLEAN]

INITIAL_DRAFT == [dest |-> None, sources |-> "none", keep |-> TRUE]

NewWizard == [step |-> 1, draft |-> INITIAL_DRAFT, saving |-> FALSE, completed |-> FALSE]

\* safetyCheck, and what it asks of each step; what it finds is only shown.
ValidateStep(step, draft) ==
  CASE Steps[step] = "source-folders" -> draft.sources # "none"
    [] Steps[step] = "peer-target"    -> draft.dest # None /\ draft.sources # "remote"
    [] Steps[step] = "retention"      -> draft.keep
    [] OTHER                          -> TRUE

SafetyCheck(draft) == draft.dest # None /\ draft.sources = "some" /\ draft.keep

ShowsStep(name) == page = "setup" /\ ~wizard.completed /\ Steps[wizard.step] = name

CanGoBack == page = "setup" /\ ~wizard.completed /\ wizard.step > 1

CanContinue == page = "setup" /\ ~wizard.completed /\ ~wizard.saving

\* A folder is added, by its path or from the picker, or the last one removed; one may
\* be the remote path.
EditSourceFolders ==
  /\ ShowsStep("source-folders")
  /\ \E sources \in {"none", "some", "remote"} \ {wizard.draft.sources} :
       wizard' = [wizard EXCEPT !.draft.sources = sources]
  /\ UNCHANGED context

\* A peer is picked: its fields are filled in.
HandlePresetPeer ==
  /\ ShowsStep("peer-target")
  /\ \E t \in Targets \ {wizard.draft.dest} : wizard' = [wizard EXCEPT !.draft.dest = t]
  /\ UNCHANGED context

\* The fields are emptied, or filled in by hand with the same.
ClearPeerTarget ==
  /\ ShowsStep("peer-target")
  /\ wizard.draft.dest # None
  /\ wizard' = [wizard EXCEPT !.draft.dest = None]
  /\ UNCHANGED context

EditRetention ==
  /\ ShowsStep("retention")
  /\ wizard' = [wizard EXCEPT !.draft.keep = ~@]
  /\ UNCHANGED context

Prev ==
  /\ CanGoBack
  /\ Click
  /\ wizard' = [wizard EXCEPT !.step = @ - 1]
  /\ UNCHANGED <<page, calls, answer, timers, ui, secrets, repos, lab, raced>>

NextStep ==
  /\ CanContinue
  /\ wizard.step < Len(Steps)
  /\ ValidateStep(wizard.step, wizard.draft)
  /\ wizard' = [wizard EXCEPT !.step = @ + 1]
  /\ UNCHANGED context

\* The button of the last step, up to the validation.
Save ==
  /\ CanContinue
  /\ wizard.step = Len(Steps)
  /\ SafetyCheck(wizard.draft)
  /\ wizard' = [wizard EXCEPT !.saving = TRUE]
  /\ Request("validate_setup_config", wizard.draft)
  /\ UNCHANGED <<page, timers, ui, secrets, repos, lab, raced>>

Applied(draft) ==
  /\ ApplyWizardConfig(draft)
  /\ UNCHANGED <<page, flags, health, jobState, passwordSet, realLab, secrets, repos, lab,
                 clicks, raced>>

Rejected == UNCHANGED <<page, timers, ui, secrets, repos, lab, clicks, raced>>

\* Variant: the draft of the page as it is now.
Validated_CurrentDraft ==
  /\ Queried("validate_setup_config")
  /\ Finish
  /\ \/ /\ Applied(IF here THEN wizard.draft ELSE arg)
        /\ wizard' = IF here THEN [NewWizard EXCEPT !.completed = TRUE] ELSE wizard
     \/ /\ Rejected
        /\ wizard' = IF here THEN [wizard EXCEPT !.saving = FALSE] ELSE wizard

\* The rest of the handler, with the draft it was called for.  What the page still has
\* of the draft is only shown, until it is thrown away for another.
Validated ==
  /\ Queried("validate_setup_config")
  /\ Finish
  /\ \/ /\ Applied(arg)
        /\ wizard' = IF here THEN [NewWizard EXCEPT !.completed = TRUE] ELSE wizard
     \/ /\ Rejected
        /\ wizard' = IF here THEN [wizard EXCEPT !.saving = FALSE] ELSE wizard

AddAnother ==
  /\ page = "setup"
  /\ wizard.completed
  /\ wizard' = NewWizard
  /\ UNCHANGED context

WizardSteps ==
  \/ EditSourceFolders
  \/ HandlePresetPeer
  \/ ClearPeerTarget
  \/ EditRetention
  \/ Prev
  \/ NextStep
  \/ Save
  \/ Validated
  \/ AddAnother
=============================================================================
