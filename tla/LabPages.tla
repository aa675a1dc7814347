------------------------------ MODULE LabPages ------------------------------
(***************************************************************************)
(* The pages that work on the test lab: the Test Lab (TestLab.tsx), a      *)
(* button and a state for each step, and the Restore Drill                 *)
(* (RestoreDrill.tsx).  Both pass on what they learn to the context, then  *)
(* fetch the health report.  The lab lives in the Rust process, which      *)
(* forgets it when it ends.                                                *)
(***************************************************************************)
EXTENDS ClientContext

VARIABLES steps,       \* state of each step of the Test Lab
          drillPage    \* result and running of the Restore Drill

LabCommands == {"probe_tools", "create_test_lab", "run_test_backup",
                "prepare_transport", "run_repository_check", "run_restore_drill"}

\* Those that change the lab, of this page and of the other.
ChangesLab == (LabCommands \ {"probe_tools", "prepare_transport"}) \cup {"drill_page"}

StepResult == {"idle", "running", "done", "error"}

InitialSteps == [cmd \in LabCommands |-> "idle"]

DrillPage == [result : Results, running : BOOLEAN]

LabReady   == steps["create_test_lab"] = "done" \/ realLab.lab
BackupDone == steps["run_test_backup"] = "done" \/ realLab.backup

\* The buttons of the last two steps need a backup, those of the two before the lab.
NeedsBackup(cmd) == cmd \in {"run_repository_check", "run_restore_drill"}

CanStart(cmd) ==
  /\ page = "test-lab"
  /\ steps[cmd] # "running"
  /\ cmd \in {"run_test_backup", "prepare_transport"} => LabReady
  /\ NeedsBackup(cmd) => BackupDone

CanRunDrill == page = "drills" /\ ~drillPage.running /\ realLab.backup

\* A new lab puts all the steps that work on it back.
Started(cmd) ==
  steps' = [c \in LabCommands |->
              IF c = cmd THEN "running"
              ELSE IF cmd = "create_test_lab" /\ c # "probe_tools" THEN "idle"
              ELSE steps[c]]

StartStep(cmd) ==
  /\ CanStart(cmd)
  /\ Request(cmd, None)
  /\ Started(cmd)
  /\ UNCHANGED <<page, timers, ui, secrets, repos, lab, raced, drillPage>>

HandleRunDrill ==
  /\ CanRunDrill
  /\ Request("drill_page", None)
  /\ drillPage' = [drillPage EXCEPT !.running = TRUE]
  /\ UNCHANGED <<page, timers, ui, secrets, repos, lab, raced, steps>>

Ended(cmd, state) == steps' = IF here THEN [steps EXCEPT ![cmd] = state] ELSE steps

RestOfLab == UNCHANGED <<page, timers, flags, jobs, jobState, passwordSet, secrets, repos,
                         lab, clicks, raced>>

NoHealth == UNCHANGED <<setup, asked, health>>

\* A command that needs the lab fails without it; each may fail for its own reasons.
\* run_restore_drill: the restore is wrong, the canary missing or different, or the
\* drill is passed.  The process keeps the results of the snapshot before.
LabRun ==
  /\ \/ Run("create_test_lab", "ok") /\ lab' = FreshLab(TRUE)
     \/ Run("run_test_backup", "ok") /\ lab.made /\ lab' = [lab EXCEPT !.snapshot = TRUE]
     \/ \E result \in {"passed", "failed"} :
          \/ /\ Run("run_repository_check", result)
             /\ lab.made
             /\ lab' = [lab EXCEPT !.check = result]
          \/ /\ Run("run_restore_drill", result) \/ Run("drill_page", result)
             /\ lab.made /\ lab.snapshot
             /\ lab' = [lab EXCEPT !.drill = result]
     \/ \E cmd \in ChangesLab : Run(cmd, "error") /\ UNCHANGED lab
  /\ UNCHANGED <<page, timers, ui, secrets, repos, clicks, raced, steps, drillPage>>

StepFailed(cmd) ==
  /\ GoesOn(cmd, IF cmd \in ChangesLab THEN "error" ELSE None)
  /\ Finish
  /\ Ended(cmd, "error")
  /\ NoHealth
  /\ UNCHANGED <<realLab, drillPage>>
  /\ RestOfLab

ToolsProbed ==
  /\ Queried("probe_tools")
  /\ Finish
  /\ Ended("probe_tools", "done")
  /\ NoHealth
  /\ UNCHANGED <<realLab, drillPage>>
  /\ RestOfLab

\* Variant: only the lab itself is replaced.
LabCreated_KeepsResults ==
  /\ GoesOn("create_test_lab", "ok")
  /\ Finish
  /\ realLab' = [realLab EXCEPT !.lab = TRUE]
  /\ Ended("create_test_lab", "done")
  /\ NoHealth
  /\ UNCHANGED drillPage
  /\ RestOfLab

LabCreated ==
  /\ GoesOn("create_test_lab", "ok")
  /\ Finish
  /\ realLab' = [NoLab EXCEPT !.lab = TRUE]
  /\ Ended("create_test_lab", "done")
  /\ NoHealth
  /\ UNCHANGED drillPage
  /\ RestOfLab

\* The pages forget the results of the snapshot before.
LabBackedUp ==
  /\ GoesOn("run_test_backup", "ok")
  /\ realLab' = [realLab EXCEPT !.backup = TRUE, !.check = None, !.drill = None]
  /\ Ended("run_test_backup", "done")
  /\ Continue("health_report", None)
  /\ NoHealth
  /\ UNCHANGED drillPage
  /\ RestOfLab

TransportPrepared ==
  /\ Queried("prepare_transport")
  /\ lab.made
  /\ Finish
  /\ realLab' = [realLab EXCEPT !.transport = TRUE]
  /\ Ended("prepare_transport", "done")
  /\ NoHealth
  /\ UNCHANGED drillPage
  /\ RestOfLab

RepositoryChecked ==
  /\ \E result \in {"passed", "failed"} :
       /\ GoesOn("run_repository_check", result)
       /\ realLab' = [realLab EXCEPT !.check = result]
       /\ UpdateHealthFromCheckResult(result)
  /\ Ended("run_repository_check", "done")
  /\ Continue("health_report", None)
  /\ UNCHANGED drillPage
  /\ RestOfLab

Drilled(result) ==
  /\ realLab' = [realLab EXCEPT !.drill = result]
  /\ UpdateHealthFromDrillResult(result)
  /\ UNCHANGED <<setup, asked>>

RestoreDrilled ==
  /\ \E result \in {"passed", "failed"} :
       GoesOn("run_restore_drill", result) /\ Drilled(result)
  /\ Ended("run_restore_drill", "done")
  /\ Continue("health_report", None)
  /\ UNCHANGED drillPage
  /\ RestOfLab

\* The Restore Drill page waits for the health report before it has its button back.
DrillRun ==
  /\ \/ \E result \in {"passed", "failed"} :
          /\ GoesOn("drill_page", result)
          /\ Drilled(result)
          /\ drillPage' = IF here THEN [drillPage EXCEPT !.result = result] ELSE drillPage
          /\ Continue("drill_health", None)
     \/ /\ GoesOn("drill_page", "error")
        /\ drillPage' = IF here THEN [drillPage EXCEPT !.running = FALSE] ELSE drillPage
        /\ Finish
        /\ NoHealth
        /\ UNCHANGED realLab
  /\ UNCHANGED steps
  /\ RestOfLab

HealthReported ==
  /\ Queried("health_report") \/ Queried("drill_health")
  /\ Finish
  /\ RefreshRealHealth
  /\ drillPage' = IF here /\ Head(calls).cmd = "drill_health"
                  THEN [drillPage EXCEPT !.running = FALSE] ELSE drillPage
  /\ UNCHANGED <<setup, asked, realLab, steps>>
  /\ RestOfLab

LabSteps ==
  \/ \E cmd \in LabCommands : StartStep(cmd) \/ StepFailed(cmd)
  \/ HandleRunDrill
  \/ LabRun
  \/ ToolsProbed
  \/ LabCreated
  \/ LabBackedUp
  \/ TransportPrepared
  \/ RepositoryChecked
  \/ RestoreDrilled
  \/ DrillRun
  \/ HealthReported
=============================================================================
