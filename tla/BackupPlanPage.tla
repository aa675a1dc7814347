--------------------------- MODULE BackupPlanPage ---------------------------
(***************************************************************************)
(* The backup plan (BackupPlan.tsx): a card with a button for each job,    *)
(* and a form that backs up to a local repository without making it a job. *)
(* Filling in its folders and its path is one step.                        *)
(***************************************************************************)
EXTENDS ClientContext

VARIABLE plan

\* A result is that of the repository it was asked for.
Plan == [path : Folders \cup {None}, running : BOOLEAN, result : Folders \cup {None},
         error : BOOLEAN]

NewPlan == [path |-> None, running |-> FALSE, result |-> None, error |-> FALSE]

IsRunning(d) == jobState[d] \in {"init", "backup"}

CanRunBackup(d) ==
  page = "backup" /\ d \in JobDests /\ ~IsRunning(d) /\ passwordSet

CanRunJob == page = "backup" /\ ~plan.running /\ passwordSet /\ plan.path # None

RunBackup(d) ==
  /\ CanRunBackup(d)
  /\ Request(Triggered(d), d)
  /\ TriggerRepoBackup(d)
  /\ UNCHANGED <<page, timers, setup, flags, asked, health, jobs, passwordSet, realLab,
                 secrets, repoKey, connected, lab, raced, plan>>

EditForm ==
  /\ page = "backup"
  /\ \E path \in (Folders \cup {None}) \ {plan.path} : plan' = [plan EXCEPT !.path = path]
  /\ UNCHANGED context

RunJob ==
  /\ CanRunJob
  /\ Request("form_init", plan.path)
  /\ plan' = [plan EXCEPT !.running = TRUE, !.result = None, !.error = FALSE]
  /\ fresh' = fresh \ {plan.path}
  /\ UNCHANGED <<page, timers, ui, secrets, repoKey, connected, lab, raced>>

\* Variant: the button is only given back after a success.
JobFailed_StaysRunning ==
  plan' = IF here THEN [plan EXCEPT !.error = TRUE] ELSE plan

JobFailed ==
  plan' = IF here THEN [plan EXCEPT !.running = FALSE, !.error = TRUE] ELSE plan

RunJobInitialised ==
  /\ \/ GoesOn("form_init", "ok") /\ Continue("form_backup", arg) /\ UNCHANGED plan
     \/ GoesOn("form_init", "error") /\ Finish /\ JobFailed
  /\ UNCHANGED <<page, timers, ui, secrets, repos, lab, clicks, raced>>

RunJobBackedUp ==
  /\ \/ /\ GoesOn("form_backup", "ok")
        /\ plan' = IF here THEN [plan EXCEPT !.running = FALSE, !.result = arg] ELSE plan
     \/ GoesOn("form_backup", "error") /\ JobFailed
  /\ Finish
  /\ UNCHANGED <<page, timers, ui, secrets, repos, lab, clicks, raced>>

\* Its buttons to other pages: the password gate's, and the one to the setup wizard,
\* with jobs or without.
PlanLinks == (IF passwordSet THEN {} ELSE {"recovery"}) \cup {"setup"}

PlanSteps ==
  \/ \E d \in Dests : RunBackup(d)
  \/ EditForm
  \/ RunJob
  \/ RunJobInitialised
  \/ RunJobBackedUp
=============================================================================
