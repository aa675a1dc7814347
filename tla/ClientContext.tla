--------------------------- MODULE ClientContext ---------------------------
(***************************************************************************)
(* What the pages of the desktop client share (AppContext.tsx), the page   *)
(* that is shown (App.tsx), and the state the commands of the Rust process *)
(* work on.  The functions of the context work even when the page that     *)
(* called them is not shown any more.                                      *)
(***************************************************************************)
EXTENDS CommandQueue

CONSTANTS Targets,     \* SFTP targets of backup jobs
          Folders,     \* folders that can hold a local repository
          Passwords,
          Tools,       \* states in which the Kopia binary is found
          Reports,     \* states in which the host of a repository is found
          None

ASSUME ClientAssumption ==
  /\ Targets \cap Folders = {}
  /\ None \notin Targets \cup Folders \cup Passwords
  /\ None \notin {"ok", "error", "passed", "failed"}

VARIABLES
  page,        \* the page shown
  answer,      \* of the first command, once it was run, until its handler goes on
  timers,      \* jobs whose first backup a timer is about to start
  setup,       \* setupState: repository, whether it has a snapshot, remote, tool
  flags,       \* recoveryKeyConfirmed, offlineMode
  asked,       \* what readiness was last asked of
  health,      \* healthReport
  jobs,        \* wizardConfigs
  jobState,    \* repoJobStatuses, by the destination of the job
  passwordSet, \* masterPasswordSet
  realLab,     \* results of the test lab that the pages show
  memory,      \* Rust: the password in process memory
  keychain,    \* the password in the OS keychain
  repoKey,     \* password of each repository, None if there is none
  connected,   \* the folder that kopia/config.json points to
  fresh,       \* history: destinations with a snapshot since one was last asked for
  lab,         \* Rust: the test lab
  raced        \* history: a flag was switched while a refresh was under way

ui      == <<setup, flags, asked, health, jobs, jobState, passwordSet, realLab>>
secrets == <<memory, keychain>>
repos   == <<repoKey, connected, fresh>>
context == <<page, calls, answer, timers, ui, secrets, repos, lab, clicks, raced>>

Dests == Targets \cup Folders

RepoStatus   == {"not_configured", "configured", "initialized", "check_passed",
                 "check_failed"}
RemoteStatus == {"not_configured", "reachable", "unreachable", "auth_failed",
                 "host_key_mismatch", "quota_warning", "error"}
ToolStatus   == {"missing", "present", "ready"}

ASSUME StatesAssumption == Tools \subseteq ToolStatus /\ Reports \subseteq RemoteStatus

Results      == {"passed", "failed", None}
Answers      == {"ok", "error"} \cup Results

ClientSetupState ==
  [kopia : RepoStatus, snapshots : BOOLEAN, remote : RemoteStatus, tool : ToolStatus]

Flags == [confirmed : BOOLEAN, offline : BOOLEAN]

\* An age is recent or not; a failed drill has the age of one that was never run.
HealthReport == [backup : BOOLEAN, drill : BOOLEAN, check : BOOLEAN,
                 remote : RemoteStatus]

DefaultHealth == [backup |-> FALSE, drill |-> FALSE, check |-> FALSE,
                  remote |-> "not_configured"]

\* A backup job: where to, whether it has source folders, or has the remote path for
\* one, and whether it keeps any snapshots.
SetupDraftConfig == [dest : Dests \cup {None}, sources : {"none", "some", "remote"},
                     keep : BOOLEAN]

Job(d) == [dest |-> d, sources |-> "some", keep |-> TRUE]

\* init_state and backup_state of a job in one.
JobState == {"idle", "init", "backup", "done", "error"}

RealLabState == [lab : BOOLEAN, backup : BOOLEAN, transport : BOOLEAN,
                 check : Results, drill : Results]

NoLab == [lab |-> FALSE, backup |-> FALSE, transport |-> FALSE, check |-> None,
          drill |-> None]

AppTestLabState == [made : BOOLEAN, snapshot : BOOLEAN, check : Results,
                    drill : Results]

FreshLab(made) == [made |-> made, snapshot |-> FALSE, check |-> None, drill |-> None]

\* The routes of App.tsx; "other" stands for those of the pages that keep nothing here.
\* Those of pages that are no more lead to the Peer page, and some links nowhere.
Pages == {"dashboard", "setup", "backup", "drills", "health", "recovery", "test-lab",
          "settings", "other"}

Routed(path) ==
  CASE path \in Pages                       -> path
    [] path \in {"peer-storage", "overlay"} -> "other"
    [] OTHER                                -> None

Args == Dests \cup Passwords \cup SetupDraftConfig
          \cup [setup : ClientSetupState, flags : Flags] \cup {None}

\* The commands of the Rust process, by the handlers that go on from their answers.
Commands == {"get_tool_status", "init_repository", "local_backup", "sftp_backup",
             "form_init", "form_backup", "validate_setup_config", "has_keychain",
             "load_keychain", "set_password", "verify_password", "clear_password",
             "probe_tools", "create_test_lab", "run_test_backup", "prepare_transport",
             "run_repository_check", "run_restore_drill", "drill_page", "drill_health",
             "health_report", "refresh"}

Call == [cmd : Commands, arg : Args, here : BOOLEAN]
-----------------------------------------------------------------------------
\* A command that changes nothing in the process, and its handler.
Queried(cmd) == Answered(cmd) /\ answer = None

\* A command is run, ...
Run(cmd, result) ==
  /\ Answered(cmd)
  /\ answer = None
  /\ answer' = result
  /\ UNCHANGED calls

\* ... and the handler that waited for it has its answer.
GoesOn(cmd, result) == Answered(cmd) /\ answer = result

\* A handler asks its first command, has none left, or goes on to its next await.
Request(cmd, a)  == Ask(cmd, a) /\ UNCHANGED answer
Finish           == Done /\ answer' = None
Continue(cmd, a) == AndThen(cmd, a) /\ answer' = None

\* The first command has done its work, and the handler has not gone on.
HasRun(cmds) == calls # <<>> /\ Head(calls).cmd \in cmds /\ answer \notin {None, "error"}
-----------------------------------------------------------------------------
Merged == [setup |-> setup, flags |-> flags]

\* The effect that asks for the readiness whenever the state it is of has changed.
Recheck == asked' = [setup |-> setup', flags |-> flags']

\* Variant: the state of the render in which the handler was created.
RefreshReadiness_StaleSetup(closure) == asked' = closure

\* refreshReadiness: the setup state by its ref, the flags of that render.
RefreshReadiness(closure) == asked' = [closure EXCEPT !.setup = setup]

SetSetup(s) == setup' = s /\ asked' = [setup |-> s, flags |-> flags]

SetFlag(name, value) ==
  /\ flags' = [flags EXCEPT ![name] = value]
  /\ raced' = (raced \/ \E i \in 1..Len(calls) : calls[i].cmd = "refresh")

\* Variant: revoking the password leaves the flag.
SetMasterPasswordSet_OnlySets(v) ==
  /\ passwordSet' = (passwordSet \/ v)
  /\ IF v THEN SetFlag("confirmed", TRUE) /\ UNCHANGED setup /\ Recheck
     ELSE UNCHANGED <<flags, raced, setup, asked>>

\* setMasterPasswordSet: a password that is set counts as confirmed.
SetMasterPasswordSet(v) ==
  /\ passwordSet' = v
  /\ IF v THEN SetFlag("confirmed", TRUE) /\ UNCHANGED setup /\ Recheck
     ELSE UNCHANGED <<flags, raced, setup, asked>>

\* Variant: the status is the result itself.
UpdateHealthFromCheckResult_Raw(result) ==
  /\ health' = [health EXCEPT !.check = (result = "passed")]
  /\ SetSetup([setup EXCEPT !.kopia = result])

UpdateHealthFromCheckResult(result) ==
  /\ health' = [health EXCEPT !.check = (result = "passed")]
  /\ SetSetup([setup EXCEPT !.kopia =
                 IF result = "passed" THEN "check_passed" ELSE "check_failed"])

\* Variant: a drill counts whatever came out of it.
UpdateHealthFromDrillResult_Any(result) == health' = [health EXCEPT !.drill = TRUE]

UpdateHealthFromDrillResult(result) ==
  health' = [health EXCEPT !.drill = (result = "passed")]

\* After a backup of the Peer page, which reports the host reachable as well.
UpdateKopiaRepositoryFromBackup ==
  /\ SetSetup([kopia |-> "initialized", snapshots |-> TRUE, remote |-> "reachable",
               tool |-> setup.tool])
  /\ health' = [health EXCEPT !.remote = "reachable"]

UpdateRemoteRepositoryState(status) ==
  /\ SetSetup([setup EXCEPT !.remote = status])
  /\ health' = [health EXCEPT !.remote = status]

\* get_health_report knows of the test lab only.
HealthOfLab == [backup |-> lab.snapshot, drill |-> lab.drill = "passed",
                check |-> lab.check = "passed", remote |-> "not_configured"]

RefreshRealHealth == health' = HealthOfLab
-----------------------------------------------------------------------------
JobDests == {jobs[i].dest : i \in 1..Len(jobs)}

\* triggerRepoBackup: the repository of a peer is connected on the peer's page, a
\* local one is initialised first.
Triggered(d) == IF d \in Targets THEN "sftp_backup" ELSE "init_repository"

TriggerRepoBackup(d) ==
  /\ jobState' = [jobState EXCEPT ![d] = IF d \in Targets THEN "backup" ELSE "init"]
  /\ fresh' = fresh \ {d}

\* The 50 ms after which the first backup of a new job starts are over.
TimerFires ==
  \E d \in timers :
    /\ timers' = timers \ {d}
    /\ TriggerRepoBackup(d)
    /\ calls' = Append(calls, NewCall(Triggered(d), d))
    /\ UNCHANGED <<page, answer, setup, flags, asked, health, jobs, passwordSet, realLab,
                   secrets, repoKey, connected, lab, clicks, raced>>

\* applyWizardConfig: a job to the same destination is replaced where it is; a new
\* one is backed up at once if there is a password.
ApplyWizardConfig(draft) ==
  /\ jobs' = IF draft.dest \in JobDests
             THEN [i \in 1..Len(jobs) |-> IF jobs[i].dest = draft.dest THEN draft
                                          ELSE jobs[i]]
             ELSE Append(jobs, draft)
  /\ timers' = timers \cup {d \in {draft.dest} \ JobDests : passwordSet}
  /\ SetSetup([setup EXCEPT !.kopia = "configured"])
-----------------------------------------------------------------------------
\* user_kopia_runner has one configuration file for all local repositories:
\* initialize_kopia_repository does nothing when it is there.  If not, an empty folder
\* is made a repository, another is connected to if the password is right.
Opens(path) ==
  /\ memory # None
  /\ connected = None => repoKey[path] \in {None, memory}

Opened(path) == IF connected = None THEN path ELSE connected

Connect(path) ==
  /\ connected' = Opened(path)
  /\ repoKey' = [repoKey EXCEPT ![connected'] = IF @ = None THEN memory ELSE @]

\* run_real_backup_from_config takes a snapshot in the repository that is connected.
CanSnapshot(path) ==
  /\ Opens(path)
  /\ repoKey[Opened(path)] \in {None, memory}

\* run_real_sftp_backup_from_config: the repository must have been connected.
CanSftpSnapshot(t) == memory # None /\ repoKey[t] = memory

\* A command of Kopia may fail for reasons of its own.
InitializeRepository(path, ok) ==
  /\ IF ok THEN Opens(path) /\ Connect(path) ELSE UNCHANGED <<repoKey, connected>>
  /\ UNCHANGED fresh

RunRealBackup(path, ok) ==
  IF ok THEN CanSnapshot(path) /\ Connect(path) /\ fresh' = fresh \cup {Opened(path)}
  ELSE UNCHANGED repos

RunRealSftpBackup(t, ok) ==
  /\ IF ok THEN CanSftpSnapshot(t) /\ fresh' = fresh \cup {t} ELSE UNCHANGED fresh
  /\ UNCHANGED <<repoKey, connected>>
-----------------------------------------------------------------------------
\* Variant: a failed backup leaves its job as it is.
JobError_Missing(d) == UNCHANGED jobState

\* Variant: a backup counts as done whatever came out of it.
JobError_Done(d) == jobState' = [jobState EXCEPT ![d] = "done"]

JobError(d) == jobState' = [jobState EXCEPT ![d] = "error"]

\* The process works on a repository, for a job or for the form of the backup plan.
RepositoryRun ==
  \E result \in {"ok", "error"} :
    \/ /\ Run("init_repository", result) \/ Run("form_init", result)
       /\ InitializeRepository(arg, result = "ok")
    \/ /\ Run("local_backup", result) \/ Run("form_backup", result)
       /\ RunRealBackup(arg, result = "ok")
    \/ Run("sftp_backup", result) /\ RunRealSftpBackup(arg, result = "ok")

RestOfRun == UNCHANGED <<page, timers, ui, secrets, lab, clicks, raced>>

RestOfJobs == UNCHANGED <<page, timers, setup, flags, asked, health, jobs, passwordSet,
                          realLab, secrets, repos, lab, clicks, raced>>

\* triggerRepoBackup after each of its awaits.
JobInitialised ==
  /\ \/ /\ GoesOn("init_repository", "ok")
        /\ jobState' = [jobState EXCEPT ![arg] = "backup"]
        /\ Continue("local_backup", arg)
     \/ GoesOn("init_repository", "error") /\ JobError(arg) /\ Finish
  /\ RestOfJobs

JobBackedUp ==
  /\ \E cmd \in {"local_backup", "sftp_backup"} :
       \/ GoesOn(cmd, "ok") /\ jobState' = [jobState EXCEPT ![arg] = "done"]
       \/ GoesOn(cmd, "error") /\ JobError(arg)
  /\ Finish
  /\ RestOfJobs

\* What becomes of all this when the Peer page has talked to a host, has connected to
\* a repository on it, or has backed up.  Whatever it finds, it reports one of three.
PeerReports ==
  /\ Click
  /\ \/ /\ \E status \in Reports \cap {"reachable", "unreachable", "auth_failed"} :
             UpdateRemoteRepositoryState(status)
        /\ UNCHANGED repoKey
     \/ \E t \in Targets :
          /\ memory # None
          /\ repoKey[t] = None
          /\ repoKey' = [repoKey EXCEPT ![t] = memory]
          /\ UpdateRemoteRepositoryState("reachable")
     \/ /\ \E t \in Targets : CanSftpSnapshot(t)
        /\ UpdateKopiaRepositoryFromBackup
        /\ UNCHANGED repoKey
  /\ UNCHANGED <<page, calls, answer, timers, flags, jobs, jobState, passwordSet, realLab,
                 secrets, connected, fresh, lab, raced>>

\* The switch of the Settings page; nothing reads what is set by that for the consent to
\* health reports.
ToggleOffline ==
  /\ page = "settings"
  /\ Click
  /\ SetFlag("offline", ~flags.offline)
  /\ UNCHANGED setup
  /\ Recheck
  /\ UNCHANGED <<page, calls, answer, timers, health, jobs, jobState, passwordSet, realLab,
                 secrets, repos, lab>>

\* The Settings page leads to that of the password, set or not.
SettingsLinks == {"recovery"}
-----------------------------------------------------------------------------
\* What a start of the application shows: the jobs of the last session, the remote
\* of the last one probed if it is a peer's, and nothing of what was run before.
StartSetup(js, status) ==
  [kopia |-> IF js = <<>> THEN "not_configured" ELSE "configured", snapshots |-> FALSE,
   remote |-> status, tool |-> "missing"]

\* The effect that asks for the tools.
Startup == <<NewCall("get_tool_status", None)>>

ToolsFound ==
  /\ Queried("get_tool_status")
  /\ Finish
  /\ \E tool \in Tools : SetSetup([setup EXCEPT !.tool = tool])
  /\ UNCHANGED <<page, timers, flags, health, jobs, jobState, passwordSet, realLab, secrets,
                 repos, lab, clicks, raced>>

Probes(js) == IF js # <<>> /\ js[Len(js)].dest \in Targets
              THEN Reports \cap {"reachable", "unreachable", "error"}
              ELSE {"not_configured"}

\* A user without jobs may have made the test lab and its first backup already.
InitLab(status) ==
  \/ /\ lab = FreshLab(FALSE)
     /\ realLab = NoLab
     /\ health = [DefaultHealth EXCEPT !.remote = status]
  \/ /\ jobs = <<>>
     /\ lab = [FreshLab(TRUE) EXCEPT !.snapshot = TRUE]
     /\ realLab = [NoLab EXCEPT !.lab = TRUE, !.backup = TRUE]
     /\ health = HealthOfLab

\* load_master_password_from_keychain may be refused.
Loads(kept) == {None, kept}

ContextInit ==
  /\ page = "dashboard"
  /\ calls = Startup
  /\ answer = None
  /\ timers = {}
  /\ jobs \in {<<>>} \cup {<<Job(d)>> : d \in Dests}
  /\ \E status \in Probes(jobs) :
       /\ setup = StartSetup(jobs, status)
       /\ InitLab(status)
  /\ keychain \in Passwords \cup {None}
  /\ memory \in Loads(keychain)
  /\ passwordSet = (memory # None)
  /\ flags = [confirmed |-> keychain # None, offline |-> FALSE]
  /\ asked = Merged
  /\ jobState = [d \in Dests |-> "idle"]
  /\ repoKey \in [Dests -> {None, keychain}]
  /\ \A d \in Dests : repoKey[d] # None => d \in JobDests
  /\ connected \in {None} \cup {d \in Folders : repoKey[d] # None}
  /\ fresh = {}
  /\ clicks = 0
  /\ raced = FALSE

\* The application ends and is started again: commands that have not been run are lost,
\* and so is the answer of one that has.
Restart ==
  /\ Click
  /\ page' = "dashboard"
  /\ calls' = Startup
  /\ answer' = None
  /\ timers' = {}
  /\ \E status \in Probes(jobs) :
       /\ SetSetup(StartSetup(jobs, status))
       /\ health' = [DefaultHealth EXCEPT !.remote = status]
  /\ memory' \in Loads(keychain)
  /\ passwordSet' = (memory' # None)
  /\ jobState' = [d \in Dests |-> "idle"]
  /\ realLab' = NoLab
  /\ lab' = FreshLab(FALSE)
  /\ raced' = FALSE
  /\ UNCHANGED <<flags, jobs, keychain, repos>>

ContextSteps ==
  \/ ToolsFound
  \/ TimerFires
  \/ RepositoryRun /\ RestOfRun
  \/ JobInitialised
  \/ JobBackedUp
  \/ PeerReports
  \/ ToggleOffline
=============================================================================
