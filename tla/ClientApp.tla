------------------------------ MODULE ClientApp ------------------------------
(***************************************************************************)
(* The desktop client of a data owner: the context and the pages over it,  *)
(* one of which is shown (App.tsx).  A page loses its state when it is     *)
(* left, not its calls.  The pages of the host and of the peers have       *)
(* modules of their own; logs and about keep nothing.                      *)
(***************************************************************************)
EXTENDS SetupWizardPage, BackupPlanPage, RecoveryKeyPage, LabPages, HealthPages

vars == <<context, wizard, plan, recovery, steps, drillPage, refreshing>>

Init ==
  /\ ContextInit
  /\ wizard = NewWizard
  /\ plan = NewPlan
  /\ recovery = NewRecovery
  /\ steps = InitialSteps
  /\ drillPage = [result |-> None, running |-> FALSE]
  /\ refreshing = FALSE

\* The pages that are not shown have their initial state.
Unmount ==
  /\ wizard' = NewWizard
  /\ plan' = NewPlan
  /\ recovery' = NewRecovery
  /\ steps' = InitialSteps
  /\ drillPage' = [result |-> realLab'.drill, running |-> FALSE]
  /\ refreshing' = FALSE

\* Links of the sidebar, and those of the page.
Links ==
  Pages \cup CASE page = "dashboard" -> UNION {DashboardLinks(t) : t \in TailscaleDetail}
               [] page = "backup"    -> PlanLinks
               [] page = "settings"  -> SettingsLinks
               [] OTHER              -> {}

\* The effect of a page that is shown: only the Recovery Key's matters here.
Mounted(path) ==
  IF path = "recovery" THEN <<NewCall("has_keychain", None)>> ELSE <<>>

Navigate(path) ==
  /\ page # Routed(path)
  /\ page' = Routed(path)
  /\ Len(calls) < MaxCalls
  /\ calls' = Left \o Mounted(Routed(path))
  /\ UNCHANGED <<answer, timers, ui, secrets, repos, lab, clicks, raced>>
  /\ Unmount

Context == ContextSteps /\ UNCHANGED <<wizard, plan, recovery, steps, drillPage, refreshing>>
SetupWizard  == WizardSteps /\ UNCHANGED <<plan, recovery, steps, drillPage, refreshing>>
BackupPlan   == PlanSteps /\ UNCHANGED <<wizard, recovery, steps, drillPage, refreshing>>
RecoveryKey  == RecoverySteps /\ UNCHANGED <<wizard, plan, steps, drillPage, refreshing>>
Labs         == LabSteps /\ UNCHANGED <<wizard, plan, recovery, refreshing>>
HealthChecks == HealthSteps /\ UNCHANGED <<wizard, plan, recovery, steps, drillPage>>

Next ==
  \/ \E path \in Links : Navigate(path)
  \/ Restart /\ Unmount
  \/ Context
  \/ SetupWizard
  \/ BackupPlan
  \/ RecoveryKey
  \/ Labs
  \/ HealthChecks

Spec == Init /\ [][Next]_vars
-----------------------------------------------------------------------------
\* The variables have their types.
TypeOK ==
  /\ page \in Pages \cup {None}
  /\ calls \in Seq(Call)
  /\ answer \in Answers
  /\ timers \subseteq Dests
  /\ setup \in ClientSetupState
  /\ flags \in Flags
  /\ asked \in [setup : ClientSetupState, flags : Flags]
  /\ health \in HealthReport
  /\ jobs \in Seq(SetupDraftConfig)
  /\ jobState \in [Dests -> JobState]
  /\ {passwordSet, refreshing, raced} \subseteq BOOLEAN
  /\ realLab \in RealLabState
  /\ {memory, keychain} \subseteq Passwords \cup {None}
  /\ repoKey \in [Dests -> Passwords \cup {None}]
  /\ connected \in Folders \cup {None}
  /\ fresh \subseteq Dests
  /\ lab \in AppTestLabState
  /\ clicks \in 0..MaxClicks
  /\ wizard \in Wizard
  /\ plan \in Plan
  /\ recovery \in Recovery
  /\ steps \in [LabCommands -> StepResult]
  /\ drillPage \in DrillPage

\* A backup job to a peer that is shown as done has a snapshot taken since it was last
\* started, by the card's button or by the timer, whatever else was running, changed
\* the password or replaced the job meanwhile; if not, it was started again before the
\* handler of a backup that had ended went on, and that start is still under way.
DoneJobIsStored ==
  \A t \in Targets : jobState[t] = "done" =>
    t \in fresh \/ \E i \in 1..Len(calls) : calls[i].cmd = "sftp_backup" /\ calls[i].arg = t

\* A job shown as running has a command under way that will end it: it is never stuck,
\* whether the page is left, the command fails, or two backups of it overlap.
RunningJobHasWork ==
  \A d \in Dests : jobState[d] \in {"init", "backup"} =>
    \E i \in 1..Len(calls) : calls[i].arg = d /\ calls[i].cmd \in
      {"init_repository", "local_backup", "sftp_backup"}

\* A page that waits has a call under way that it will be told of.
WaitingPageHasCall ==
  /\ wizard.saving => Waiting("validate_setup_config")
  /\ plan.running => Waiting("form_init") \/ Waiting("form_backup")
  /\ recovery.checking /\ page = "recovery" =>
       Waiting("has_keychain") \/ Waiting("load_keychain")
  /\ recovery.saving => Waiting("set_password") \/ Waiting("verify_password")
  /\ \A cmd \in LabCommands : steps[cmd] = "running" => Waiting(cmd)
  /\ drillPage.running => Waiting("drill_page") \/ Waiting("drill_health")
  /\ refreshing => Waiting("refresh")

\* "Master password set - all backup operations unlocked" is only said while the Rust
\* process holds one, whatever the keychain refuses and however handlers overlap, but
\* for the moment between clear_master_password and the handler that waits for it.
PasswordShownIsHeld ==
  passwordSet /\ memory = None => HasRun({"clear_password"})

\* The configuration of every job passed the wizard's safety check, even if the draft
\* on the page was changed, or the page left, while it was validated.
JobsAreSafe == \A i \in 1..Len(jobs) : SafetyCheck(jobs[i])

\* The readiness that is shown once all is quiet is that of the present state, unless a
\* flag was switched while the Health Checks page was refreshing: its handler then asks
\* with the flags of the render it was created in.
ReadinessIsCurrent == ~raced => Readiness = CheckReadiness(setup, flags)

\* The results of the test lab that the pages show are those of the lab there is, but
\* for what the command that has just been run has replaced: a page is told next.
LabShownIsTheLab ==
  /\ realLab.lab => lab.made
  /\ realLab.backup => lab.snapshot \/ HasRun({"create_test_lab"})
  /\ realLab.check \in {None, lab.check}
       \/ HasRun({"create_test_lab", "run_repository_check"})
  /\ realLab.drill \in {None, lab.drill}
       \/ HasRun({"create_test_lab", "run_restore_drill", "drill_page"})

\* "A mismatch or failure is marked Critical and blocks Protected status"
\* (RestoreDrill.tsx:46), in every step between the drill and its health report, and
\* whatever is reported of the host meanwhile.
FailedDrillBlocks ==
  realLab.drill = "failed" => DrillLevel = "critical" /\ ~Protected
=============================================================================
