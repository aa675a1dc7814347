----------------------------- MODULE AgentPanels -----------------------------
(***************************************************************************)
(* The sections for the agent's configuration (SettingsPanel.tsx) and for  *)
(* its health, events and verification (DiagnosticsPanel.tsx).             *)
(***************************************************************************)
EXTENDS HostContext

SettingsPanel == [config : Configs \cup {None}, draft : Configs \cup {None},
                  busy : {"save", None}, saved : BOOLEAN]

NewSettingsPanel == [config |-> None, draft |-> None, busy |-> None, saved |-> FALSE]

SettingsShown == host.section = "settings" /\ host.token # None /\ panel.config # None

DiagnosticsPanel == [known : BOOLEAN, verify : {"passed", "failed", None},
                     busy : {"load", "verify", None}]

NewDiagnosticsPanel(token) ==
  [known |-> FALSE, verify |-> None, busy |-> Loading("diagnostics", token)]

CanDiagnose == host.section = "diagnostics" /\ host.token # None /\ panel.busy = None

ConfigLoaded ==
  /\ Answered("get_config")
  /\ Done
  /\ \/ /\ Authed(arg)
        /\ Patch([panel EXCEPT !.config = agent.config, !.draft = agent.config])
     \/ UNCHANGED panel
  /\ UNCHANGED <<host, timers, world, clicks>>

EditSettings ==
  /\ Click
  /\ SettingsShown
  /\ \E c \in Configs \ {panel.draft} : panel' = [panel EXCEPT !.draft = c]
  /\ UNCHANGED <<host, calls, timers, world>>

SaveSettings ==
  /\ SettingsShown
  /\ panel.busy = None
  /\ Ask("patch_config", [token |-> host.token, draft |-> panel.draft])
  /\ panel' = [panel EXCEPT !.busy = "save", !.saved = FALSE]
  /\ UNCHANGED <<host, timers, world>>

\* "Saved" is shown for some time.
SettingsSaved ==
  /\ Answered("patch_config")
  /\ Done
  /\ \/ /\ Authed(arg.token)
        /\ agent' = [agent EXCEPT !.config = arg.draft]
        /\ Patch([panel EXCEPT !.config = arg.draft, !.busy = None, !.saved = TRUE])
     \/ Patch([panel EXCEPT !.busy = None]) /\ UNCHANGED agent
  /\ UNCHANGED <<host, timers, saved, running, clicks>>

SavedFades ==
  /\ host.section = "settings"
  /\ panel.saved
  /\ panel' = [panel EXCEPT !.saved = FALSE]
  /\ UNCHANGED <<host, calls, timers, world, clicks>>

RefreshDiagnostics ==
  /\ CanDiagnose
  /\ Ask("diag_refresh", host.token)
  /\ panel' = [panel EXCEPT !.busy = "load"]
  /\ UNCHANGED <<host, timers, world>>

DiagnosticsRefreshed ==
  /\ Answered("diag_refresh")
  /\ Done
  /\ \/ Authed(arg) /\ Patch([panel EXCEPT !.known = TRUE, !.busy = None])
     \/ Patch([panel EXCEPT !.busy = None])
  /\ UNCHANGED <<host, timers, world, clicks>>

RunVerify ==
  /\ CanDiagnose
  /\ Ask("verify", None)
  /\ panel' = [panel EXCEPT !.busy = "verify", !.verify = None]
  /\ UNCHANGED <<host, timers, world>>

\* The script passes or fails, or cannot be run.
Verified ==
  /\ Answered("verify")
  /\ Done
  /\ \E result \in {"passed", "failed", None} :
       Patch([panel EXCEPT !.verify = result, !.busy = None])
  /\ UNCHANGED <<host, timers, world, clicks>>

AgentPanelSteps ==
  \/ ConfigLoaded
  \/ EditSettings
  \/ SaveSettings
  \/ SettingsSaved
  \/ SavedFades
  \/ RefreshDiagnostics
  \/ DiagnosticsRefreshed
  \/ RunVerify
  \/ Verified
=============================================================================
