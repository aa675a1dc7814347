----------------------------- MODULE HealthPages -----------------------------
(***************************************************************************)
(* What the client says of its health: the Health Checks page              *)
(* (HealthChecks.tsx) with its gate to Protected status, the Dashboard     *)
(* (Dashboard.tsx), and the readiness that the Rust process works out from *)
(* what it is asked of (check_readiness of integration.rs).                *)
(***************************************************************************)
EXTENDS ClientContext

VARIABLE refreshing

Levels == {"ok", "warning", "critical"}

\* The levels of HealthChecks.tsx; those of quota and peer are always ok.
BackupLevel    == IF health.backup THEN "ok" ELSE "critical"
DrillLevel     == IF health.drill THEN "ok" ELSE "critical"
RepoCheckLevel == IF health.check THEN "ok" ELSE "critical"

\* Of a remote that is out of reach nobody says when it was last reached: a warning.
RemoteTargetLevel ==
  CASE health.remote \in {"not_configured", "reachable"}           -> "ok"
    [] health.remote \in {"auth_failed", "host_key_mismatch"}      -> "critical"
    [] health.remote \in {"unreachable", "quota_warning", "error"} -> "warning"

AllLevels == {BackupLevel, RemoteTargetLevel, DrillLevel, RepoCheckLevel}

OverallLevel ==
  CASE "critical" \in AllLevels -> "critical"
    [] "warning" \in AllLevels  -> "warning"
    [] OTHER                    -> "ok"

\* The gate: all its checks pass.
GateChecks ==
  [snapshot |-> setup.snapshots,
   remote   |-> health.remote = "reachable" \/ setup.remote = "reachable",
   drill    |-> health.drill,
   password |-> passwordSet,
   critical |-> OverallLevel # "critical"]

Protected == \A check \in DOMAIN GateChecks : GateChecks[check]
-----------------------------------------------------------------------------
\* check_readiness, of what it was last asked of.
Blocking(s, f) ==
  {reason \in {"tool", "not_configured", "check_failed", "recovery", "auth_failed",
               "host_key_mismatch"} :
     CASE reason = "tool"           -> ~f.offline /\ s.tool # "ready"
       [] reason = "not_configured" -> s.kopia = "not_configured"
       [] reason = "check_failed"   -> s.kopia = "check_failed"
       [] reason = "recovery"       -> ~f.confirmed
       [] OTHER                     -> s.remote = reason}

Warnings(s, f) ==
  {reason \in {"tool", "unreachable", "quota_warning"} :
     CASE reason = "tool" -> f.offline /\ s.tool # "ready"
       [] OTHER           -> s.remote = reason}

CheckReadiness(s, f) ==
  CASE Blocking(s, f) # {} -> "blocked"
    [] Blocking(s, f) = {} /\ Warnings(s, f) # {} -> "warning"
    [] Blocking(s, f) = {} /\ Warnings(s, f) = {} ->
         IF s.kopia = "check_passed" /\ s.remote = "reachable"
         THEN "ready_for_restore_drill" ELSE "ready_for_test_backup"

Readiness == CheckReadiness(asked.setup, asked.flags)
-----------------------------------------------------------------------------
\* The Health Checks page fetches the report, then has the readiness worked out anew.
HandleRefresh ==
  /\ page = "health"
  /\ ~refreshing
  /\ Request("refresh", Merged)
  /\ refreshing' = TRUE
  /\ UNCHANGED <<page, timers, ui, secrets, repos, lab, raced>>

Refreshed ==
  /\ Queried("refresh")
  /\ Finish
  /\ RefreshRealHealth
  /\ RefreshReadiness(arg)
  /\ refreshing' = (refreshing /\ ~here)
  /\ UNCHANGED <<page, timers, setup, flags, jobs, jobState, passwordSet, realLab, secrets,
                 repos, lab, clicks, raced>>

HealthSteps == HandleRefresh \/ Refreshed
-----------------------------------------------------------------------------
\* The Dashboard: what it derives ...
DrillPassed   == realLab.drill = "passed"
HasBackup     == realLab.backup \/ setup.snapshots
KopiaReady    == setup.tool \in {"ready", "present"}
RemoteOk      == setup.remote = "reachable"
HasSftpConfig == JobDests \cap Targets # {}

\* What the Tailscale command says, None before it has answered.
TailscaleDetail == {"connected", "needs_login", "disconnected", "missing", None}

OverlayConnected(tailscale) == tailscale = "connected" \/ RemoteOk

SetupChecks == [password |-> passwordSet, kopia |-> KopiaReady, remote |-> RemoteOk,
                backup |-> HasBackup, drill |-> DrillPassed]

\* ... and where its buttons lead: those of the password gate, of the reasons that
\* block, and of the four cards.  A reason is looked up by the first of some words in
\* its text: a failed authentication with the remote repository counts as one of the
\* repository.
RoutesOfReason(reason) ==
  CASE reason = "recovery"                       -> {"recovery"}
    [] reason = "not_configured"                 -> {"setup"}
    [] reason \in {"check_failed", "auth_failed", "host_key_mismatch"} -> {"backup"}
    [] reason = "tool"                           -> {}

DashboardLinks(tailscale) ==
  (IF SetupChecks.password THEN {} ELSE {"recovery"})
  \cup UNION {RoutesOfReason(r) : r \in Blocking(asked.setup, asked.flags)}
  \cup (IF OverlayConnected(tailscale) THEN {} ELSE {"overlay"})
  \cup (IF SetupChecks.backup THEN {} ELSE {"backup"})
  \cup (IF HasSftpConfig /\ ~RemoteOk THEN {"peer-storage"} ELSE {})
  \cup (IF SetupChecks.drill THEN {} ELSE {"restore"})
=============================================================================
