--------------------------- MODULE ClientAppProofs ---------------------------
(***************************************************************************)
(* For any jobs, passwords and bounds: what the pages of the client say of *)
(* the password, of the jobs, of the test lab and of the readiness is so,  *)
(* and whatever shows as running has a command under way that will end it. *)
(***************************************************************************)
EXTENDS ClientApp, SequenceTheorems, TLAPS

\* What a command may be asked with: a password is one, a configuration is safe, a
\* repository is of the kind that the command is for.
Allowed(cmd, a) ==
  /\ cmd \in {"init_repository", "local_backup", "form_init", "form_backup"} => a \in Folders
  /\ cmd = "sftp_backup" => a \in Targets
  /\ cmd \in {"set_password", "verify_password"} => a \in Passwords
  /\ cmd = "validate_setup_config" => a \in SetupDraftConfig /\ SafetyCheck(a)
  /\ cmd = "refresh" => a \in [setup : ClientSetupState, flags : Flags]

Sent == {c \in Call : Allowed(c.cmd, c.arg)}

Queued(q) == q \in Seq(Sent)

\* The calls in a queue, in whatever order.
Under(q) == {q[i] : i \in 1..Len(q)}

\* The queue after a new call, the answer to the first, and its next command.
LEMMA Appended ==
  ASSUME NEW q, Queued(q), NEW c \in Sent
  PROVE  Queued(Append(q, c)) /\ Under(Append(q, c)) = Under(q) \cup {c}
<1>1. /\ Append(q, c) \in Seq(Sent)
      /\ Len(q) \in Nat
      /\ Len(Append(q, c)) = Len(q) + 1
      /\ \A i \in 1..Len(q) : Append(q, c)[i] = q[i]
      /\ Append(q, c)[Len(q) + 1] = c
  BY AppendProperties, LenProperties DEF Queued
<1>2. 1..(Len(q) + 1) = (1..Len(q)) \cup {Len(q) + 1}
  BY <1>1
<1>3. Under(Append(q, c)) = Under(q) \cup {c}
  BY <1>1, <1>2 DEF Under
<1>4. QED
  BY <1>1, <1>3 DEF Queued

LEMMA NewCallIsQueued ==
  ASSUME NEW q, Queued(q), NEW cmd \in Commands, NEW a \in Args, Allowed(cmd, a)
  PROVE  /\ Queued(Append(q, NewCall(cmd, a)))
         /\ Under(Append(q, NewCall(cmd, a))) = Under(q) \cup {NewCall(cmd, a)}
<1>1. NewCall(cmd, a) \in Sent
  BY DEF NewCall, Sent, Call
<1>2. QED
  BY <1>1, Appended

LEMMA HeadIsQueued ==
  ASSUME NEW q, Queued(q), q # <<>>
  PROVE  /\ Head(q) \in Sent
         /\ Queued(Tail(q))
         /\ Under(q) = Under(Tail(q)) \cup {Head(q)}
<1>1. /\ Head(q) \in Sent
      /\ Tail(q) \in Seq(Sent)
      /\ Len(q) \in Nat \ {0}
      /\ Len(Tail(q)) = Len(q) - 1
      /\ \A i \in 1..Len(Tail(q)) : Tail(q)[i] = q[i + 1]
      /\ Head(q) = q[1]
  BY HeadTailProperties, EmptySeq, LenProperties DEF Queued
<1>2. Under(Tail(q)) \cup {Head(q)} \subseteq Under(q)
  BY <1>1 DEF Under
<1>3. Under(q) \subseteq Under(Tail(q)) \cup {Head(q)}
  <2> SUFFICES ASSUME NEW i \in 1..Len(q)
               PROVE  q[i] \in Under(Tail(q)) \cup {Head(q)}
    BY DEF Under
  <2>1. CASE i = 1
    BY <1>1, <2>1
  <2>2. CASE i # 1
    <3>1. i - 1 \in 1..Len(Tail(q)) /\ Tail(q)[i - 1] = q[i]
      BY <1>1, <2>2
    <3>2. QED
      BY <3>1 DEF Under
  <2>3. QED
    BY <2>1, <2>2
<1>4. QED
  BY <1>1, <1>2, <1>3 DEF Queued

\* The next command of the handler that goes on.
Following(q, cmd, a) == [Head(q) EXCEPT !.cmd = cmd, !.arg = a]

LEMMA NextCallIsQueued ==
  ASSUME NEW q, Queued(q), q # <<>>, NEW cmd \in Commands, NEW a \in Args, Allowed(cmd, a)
  PROVE  /\ Queued(Append(Tail(q), Following(q, cmd, a)))
         /\ Under(Append(Tail(q), Following(q, cmd, a)))
              = Under(Tail(q)) \cup {Following(q, cmd, a)}
         /\ Following(q, cmd, a).cmd = cmd
         /\ Following(q, cmd, a).arg = a
         /\ Following(q, cmd, a).here = Head(q).here
<1> DEFINE next == Following(q, cmd, a)
<1>1. Head(q) \in Sent /\ Queued(Tail(q))
  BY HeadIsQueued
<1>2. next \in Sent /\ next.cmd = cmd /\ next.arg = a /\ next.here = Head(q).here
  BY <1>1 DEF Sent, Call, Following
<1>3. QED
  BY <1>1, <1>2, Appended

LEMMA LeftIsQueued ==
  ASSUME Queued(calls)
  PROVE  /\ Queued(Left)
         /\ Under(Left) = {[c EXCEPT !.here = FALSE] : c \in Under(calls)}
<1>1. \A c \in Sent : [c EXCEPT !.here = FALSE] \in Sent
  BY DEF Sent, Call
<1>2. Len(calls) \in Nat /\ \A i \in 1..Len(calls) : calls[i] \in Sent
  BY LenProperties, ElementOfSeq DEF Queued
<1>3. Left \in [1..Len(calls) -> Sent]
  BY <1>1, <1>2 DEF Left
<1>4. Left \in Seq(Sent)
  BY <1>2, <1>3, SeqDef
<1>5. Len(Left) = Len(calls)
  BY <1>2, <1>3, <1>4, LenProperties
<1>6. Under(Left) = {[c EXCEPT !.here = FALSE] : c \in Under(calls)}
  BY <1>5 DEF Under, Left
<1>7. QED
  BY <1>4, <1>6 DEF Queued

\* The effects of a page that is mounted, and the calls of a new start.
LEMMA MountedIsQueued ==
  ASSUME NEW q, Queued(q), NEW path
  PROVE  /\ Queued(q \o Mounted(path))
         /\ Under(q) \subseteq Under(q \o Mounted(path))
         /\ \A c \in Under(q \o Mounted(path)) : c \in Under(q) \/ c.cmd = "has_keychain"
         /\ path = "recovery" => NewCall("has_keychain", None) \in Under(q \o Mounted(path))
<1> DEFINE new == NewCall("has_keychain", None)
<1>1. CASE path # "recovery"
  BY <1>1, ConcatEmptySeq DEF Mounted, Queued
<1>2. CASE path = "recovery"
  <2>1. Queued(Append(q, new)) /\ Under(Append(q, new)) = Under(q) \cup {new}
    BY NewCallIsQueued DEF Allowed, Args, Commands
  <2>2. new \in Sent
    BY DEF NewCall, Sent, Call, Allowed, Args, Commands
  <2>3. Append(q, new) = q \o <<new>>
    BY <2>2, AppendIsConcat DEF Queued
  <2>4. new.cmd = "has_keychain"
    BY DEF NewCall
  <2>5. QED
    BY <1>2, <2>1, <2>3, <2>4 DEF Mounted
<1>3. QED
  BY <1>1, <1>2

LEMMA StartupIsQueued ==
  Queued(Startup) /\ \A c \in Under(Startup) : c.cmd = "get_tool_status"
<1>1. NewCall("get_tool_status", None) \in Sent
  BY DEF NewCall, Sent, Call, Allowed, Args, Commands
<1>2. QED
  BY <1>1 DEF Queued, Startup, Under, NewCall
-----------------------------------------------------------------------------
\* The variables of the context but those of the test lab, and those of the pages.
ContextTypes ==
  /\ page \in Pages \cup {None}
  /\ timers \subseteq Dests
  /\ setup \in ClientSetupState
  /\ flags \in Flags
  /\ asked \in [setup : ClientSetupState, flags : Flags]
  /\ jobs \in Seq(SetupDraftConfig)
  /\ jobState \in [Dests -> JobState]
  /\ passwordSet \in BOOLEAN /\ raced \in BOOLEAN
  /\ memory \in Passwords \cup {None} /\ keychain \in Passwords \cup {None}
  /\ repoKey \in [Dests -> Passwords \cup {None}]
  /\ connected \in Folders \cup {None}
  /\ fresh \subseteq Dests
  /\ clicks \in 0..MaxClicks

PageTypes ==
  /\ wizard \in Wizard
  /\ plan \in Plan
  /\ recovery \in Recovery
  /\ steps \in [LabCommands -> StepResult]
  /\ drillPage \in DrillPage
  /\ refreshing \in BOOLEAN

\* There is no answer without a call.
AnswerInv == answer \in Answers /\ (calls = <<>> => answer = None)

TypeInv == Queued(calls) /\ AnswerInv /\ ContextTypes /\ PageTypes
-----------------------------------------------------------------------------
\* What a step does to the queue: no command goes but one of those it answers, and no
\* refresh is added.
Keeps(cmds) == \A c \in Under(calls) : c.cmd \notin cmds => c \in Under(calls')

NoNewRefresh == \A c \in Under(calls') : c.cmd = "refresh" => c \in Under(calls)

QueueGoesOn(cmds) == Queued(calls') /\ Keeps(cmds) /\ NoNewRefresh

LEMMA SameQueue ==
  ASSUME Queued(calls), calls' = calls, NEW cmds
  PROVE  QueueGoesOn(cmds)
  BY DEF QueueGoesOn, Keeps, NoNewRefresh

LEMMA Asked ==
  ASSUME Queued(calls), NEW cmd \in Commands \ {"refresh"}, NEW a \in Args, Allowed(cmd, a),
         calls' = Append(calls, NewCall(cmd, a)), NEW cmds
  PROVE  QueueGoesOn(cmds)
<1>1. Queued(calls') /\ Under(calls') = Under(calls) \cup {NewCall(cmd, a)}
  BY NewCallIsQueued
<1>2. NewCall(cmd, a).cmd # "refresh"
  BY DEF NewCall
<1>3. QED
  BY <1>1, <1>2 DEF QueueGoesOn, Keeps, NoNewRefresh

LEMMA Over ==
  ASSUME Queued(calls), calls # <<>>, NEW cmds, Head(calls).cmd \in cmds,
         calls' = Tail(calls)
  PROVE  QueueGoesOn(cmds)
  BY HeadIsQueued DEF QueueGoesOn, Keeps, NoNewRefresh

LEMMA WentOn ==
  ASSUME Queued(calls), calls # <<>>, NEW cmd \in Commands, NEW a \in Args, Allowed(cmd, a),
         Continue(cmd, a)
  PROVE  /\ Queued(calls')
         /\ Under(calls') = Under(Tail(calls)) \cup {Following(calls, cmd, a)}
         /\ Following(calls, cmd, a).cmd = cmd
         /\ Following(calls, cmd, a).arg = a
         /\ Following(calls, cmd, a).here = here
<1>1. calls' = Append(Tail(calls), Following(calls, cmd, a))
  BY DEF Continue, AndThen, Following
<1>2. QED
  BY <1>1, NextCallIsQueued DEF here

LEMMA NextAsked ==
  ASSUME Queued(calls), calls # <<>>, NEW cmds, Head(calls).cmd \in cmds,
         NEW cmd \in Commands \ {"refresh"}, NEW a \in Args, Allowed(cmd, a),
         Continue(cmd, a)
  PROVE  QueueGoesOn(cmds)
<1> DEFINE next == Following(calls, cmd, a)
<1>1. /\ Queued(calls')
      /\ Under(calls') = Under(Tail(calls)) \cup {next}
      /\ next.cmd = cmd
  BY WentOn
<1>2. Under(calls) = Under(Tail(calls)) \cup {Head(calls)}
  BY HeadIsQueued
<1>3. QED
  BY <1>1, <1>2 DEF QueueGoesOn, Keeps, NoNewRefresh

\* The first command is asked with what it needs.
LEMMA ArgIsAllowed ==
  ASSUME Queued(calls), calls # <<>>
  PROVE  arg \in Args /\ Allowed(Head(calls).cmd, arg) /\ here \in BOOLEAN
  BY HeadIsQueued DEF Sent, Call, arg, here
-----------------------------------------------------------------------------
JobCommands == {"init_repository", "local_backup", "sftp_backup"}

\* The commands that each page answers; a job is also started from the plan.
ContextCommands  == JobCommands \cup {"get_tool_status"}
WizardCommands   == {"validate_setup_config"}
PlanCommands     == {"form_init", "form_backup"}
RecoveryCommands == {"has_keychain", "load_keychain", "set_password", "verify_password",
                     "clear_password"}
LabPageCommands  == LabCommands \cup {"drill_page", "drill_health", "health_report"}
HealthCommands   == {"refresh"}

LEMMA TriggeredIsAllowed ==
  ASSUME NEW d \in Dests
  PROVE  /\ Triggered(d) \in {"init_repository", "sftp_backup"}
         /\ d \in Args
         /\ Allowed(Triggered(d), d)
  BY DEF Triggered, Allowed, Args, Dests

\* The commands under way are as the pages ask them, after each kind of step.
LEMMA QueueOfContext ==
  ASSUME TypeInv, ContextSteps
  PROVE  QueueGoesOn(ContextCommands)
<1> USE DEF TypeInv
<1>1. CASE ToolsFound \/ JobBackedUp
  BY <1>1, Over DEF ToolsFound, JobBackedUp, Queried, GoesOn, Answered, Finish, Done,
     ContextCommands, JobCommands
<1>2. CASE TimerFires
  <2>1. PICK d \in timers : calls' = Append(calls, NewCall(Triggered(d), d))
    BY <1>2 DEF TimerFires
  <2>2. d \in Dests
    BY DEF ContextTypes
  <2>3. QED
    BY <2>1, <2>2, TriggeredIsAllowed, Asked DEF Commands
<1>3. CASE JobInitialised
  <2>1. calls # <<>> /\ Head(calls).cmd = "init_repository"
    BY <1>3 DEF JobInitialised, Queried, GoesOn, Answered
  <2>2. CASE Finish
    BY <2>1, <2>2, Over DEF Finish, Done, ContextCommands, JobCommands
  <2>3. CASE Continue("local_backup", arg)
    <3>1. arg \in Args /\ Allowed("local_backup", arg)
      BY <2>1, ArgIsAllowed DEF Allowed
    <3>2. QED
      BY <2>1, <2>3, <3>1, NextAsked DEF Commands, ContextCommands, JobCommands
  <2>4. QED
    BY <1>3, <2>2, <2>3 DEF JobInitialised
<1>4. CASE RepositoryRun \/ PeerReports \/ ToggleOffline
  BY <1>4, SameQueue DEF RepositoryRun, Run, PeerReports, ToggleOffline
<1>5. QED
  BY <1>1, <1>2, <1>3, <1>4 DEF ContextSteps

LEMMA QueueOfWizard ==
  ASSUME TypeInv, WizardSteps
  PROVE  QueueGoesOn(WizardCommands)
<1> USE DEF TypeInv
<1>1. CASE EditSourceFolders \/ HandlePresetPeer \/ ClearPeerTarget \/ EditRetention \/ Prev
           \/ NextStep \/ AddAnother
  BY <1>1, SameQueue DEF EditSourceFolders, HandlePresetPeer, ClearPeerTarget,
     EditRetention, Prev, NextStep, AddAnother, context
<1>2. CASE Save
  <2>1. wizard.draft \in SetupDraftConfig
    BY DEF PageTypes, Wizard
  <2>2. wizard.draft \in Args /\ Allowed("validate_setup_config", wizard.draft)
    BY <1>2, <2>1 DEF Save, Allowed, Args
  <2>3. calls' = Append(calls, NewCall("validate_setup_config", wizard.draft))
    BY <1>2 DEF Save, Request, Ask
  <2>4. QED
    BY <2>2, <2>3, Asked DEF Commands
<1>3. CASE Validated
  BY <1>3, Over DEF Validated, Queried, GoesOn, Answered, Finish, Done, WizardCommands
<1>4. QED
  BY <1>1, <1>2, <1>3 DEF WizardSteps

LEMMA QueueOfPlan ==
  ASSUME TypeInv, PlanSteps
  PROVE  QueueGoesOn(PlanCommands)
<1> USE DEF TypeInv
<1>1. ASSUME NEW d \in Dests, RunBackup(d)
      PROVE  QueueGoesOn(PlanCommands)
  BY <1>1, TriggeredIsAllowed, Asked DEF RunBackup, Request, Ask, Commands
<1>2. CASE EditForm
  BY <1>2, SameQueue DEF EditForm, context
<1>3. CASE RunJob
  <2>1. plan.path \in Folders
    BY <1>3 DEF RunJob, CanRunJob, PageTypes, Plan
  <2>2. plan.path \in Args /\ Allowed("form_init", plan.path)
    BY <2>1 DEF Allowed, Args, Dests
  <2>3. QED
    BY <1>3, <2>2, Asked DEF RunJob, Request, Ask, Commands
<1>4. CASE RunJobInitialised
  <2>1. calls # <<>> /\ Head(calls).cmd = "form_init"
    BY <1>4 DEF RunJobInitialised, Queried, GoesOn, Answered
  <2>2. CASE Finish
    BY <2>1, <2>2, Over DEF Finish, Done, PlanCommands
  <2>3. CASE Continue("form_backup", arg)
    <3>1. arg \in Args /\ Allowed("form_backup", arg)
      BY <2>1, ArgIsAllowed DEF Allowed
    <3>2. QED
      BY <2>1, <2>3, <3>1, NextAsked DEF Commands, PlanCommands
  <2>4. QED
    BY <1>4, <2>2, <2>3 DEF RunJobInitialised
<1>5. CASE RunJobBackedUp
  BY <1>5, Over DEF RunJobBackedUp, Queried, GoesOn, Answered, Finish, Done, PlanCommands
<1>6. QED
  BY <1>1, <1>2, <1>3, <1>4, <1>5 DEF PlanSteps

LEMMA QueueOfRecovery ==
  ASSUME TypeInv, RecoverySteps
  PROVE  QueueGoesOn(RecoveryCommands)
<1> USE DEF TypeInv
<1>1. CASE (\E mode \in Modes : SetMode(mode)) \/ PasswordRun
  BY <1>1, SameQueue DEF SetMode, PasswordRun, Run, context
<1>2. CASE HandleSave \/ HandleChange
  <2>1. PICK cmd \in {"set_password", "verify_password"}, pw \in Passwords :
          calls' = Append(calls, NewCall(cmd, pw))
    BY <1>2 DEF HandleSave, HandleChange, Submit, Request, Ask
  <2>2. pw \in Args /\ Allowed(cmd, pw)
    BY DEF Allowed, Args
  <2>3. QED
    BY <2>1, <2>2, Asked DEF Commands
<1>3. CASE HandleRevoke
  <2>1. None \in Args /\ Allowed("clear_password", None)
    BY DEF Allowed, Args
  <2>2. QED
    BY <1>3, <2>1, Asked DEF HandleRevoke, Request, Ask, Commands
<1>4. CASE KeychainFound
  <2>1. calls # <<>> /\ Head(calls).cmd = "has_keychain"
    BY <1>4 DEF KeychainFound, Queried, GoesOn, Answered
  <2>2. CASE Finish
    BY <2>1, <2>2, Over DEF Finish, Done, RecoveryCommands
  <2>3. CASE Continue("load_keychain", None)
    <3>1. None \in Args /\ Allowed("load_keychain", None)
      BY DEF Allowed, Args
    <3>2. QED
      BY <2>1, <2>3, <3>1, NextAsked DEF Commands, RecoveryCommands
  <2>4. QED
    BY <1>4, <2>2, <2>3 DEF KeychainFound
<1>5. CASE KeychainLoaded \/ PasswordSaved \/ PasswordCleared
  BY <1>5, Over DEF KeychainLoaded, PasswordSaved, PasswordCleared, Queried, GoesOn,
     Answered, Finish, Done, RecoveryCommands
<1>6. CASE PasswordVerified
  <2>1. calls # <<>> /\ Head(calls).cmd = "verify_password"
    BY <1>6 DEF PasswordVerified, Queried, GoesOn, Answered
  <2>2. CASE Finish
    BY <2>1, <2>2, Over DEF Finish, Done, RecoveryCommands
  <2>3. CASE Continue("set_password", arg)
    <3>1. arg \in Args /\ Allowed("set_password", arg)
      BY <2>1, ArgIsAllowed DEF Allowed
    <3>2. QED
      BY <2>1, <2>3, <3>1, NextAsked DEF Commands, RecoveryCommands
  <2>4. QED
    BY <1>6, <2>2, <2>3 DEF PasswordVerified
<1>7. QED
  BY <1>1, <1>2, <1>3, <1>4, <1>5, <1>6 DEF RecoverySteps

LEMMA QueueOfLabPages ==
  ASSUME TypeInv, LabSteps
  PROVE  QueueGoesOn(LabPageCommands)
<1> USE DEF TypeInv
<1>1. None \in Args /\ \A cmd \in LabPageCommands : cmd \in Commands /\ Allowed(cmd, None)
  BY DEF Args, LabPageCommands, LabCommands, Commands, Allowed
<1>2. ASSUME NEW cmd \in LabCommands, StartStep(cmd)
      PROVE  QueueGoesOn(LabPageCommands)
  BY <1>1, <1>2, Asked DEF StartStep, Request, Ask, LabPageCommands, LabCommands
<1>3. ASSUME NEW cmd \in LabCommands, StepFailed(cmd)
      PROVE  QueueGoesOn(LabPageCommands)
  BY <1>3, Over DEF StepFailed, Queried, GoesOn, Answered, Finish, Done, LabPageCommands
<1>4. CASE HandleRunDrill \/ LabRun
  BY <1>1, <1>4, Asked, SameQueue DEF HandleRunDrill, Request, Ask, LabPageCommands,
     LabRun, Run
<1>5. CASE ToolsProbed \/ LabCreated \/ TransportPrepared \/ HealthReported
  BY <1>5, Over DEF ToolsProbed, LabCreated, TransportPrepared, HealthReported, Queried,
     GoesOn, Answered, Finish, Done, LabPageCommands, LabCommands
<1>6. CASE LabBackedUp \/ RepositoryChecked \/ RestoreDrilled
  <2>1. /\ calls # <<>>
        /\ Head(calls).cmd \in LabPageCommands
        /\ Continue("health_report", None)
    BY <1>6 DEF LabBackedUp, RepositoryChecked, RestoreDrilled, Queried, GoesOn, Answered,
       LabPageCommands, LabCommands
  <2>2. QED
    BY <1>1, <2>1, NextAsked DEF LabPageCommands
<1>7. CASE DrillRun
  <2>1. calls # <<>> /\ Head(calls).cmd \in LabPageCommands
    BY <1>7 DEF DrillRun, Queried, GoesOn, Answered, LabPageCommands
  <2>2. CASE Finish
    BY <2>1, <2>2, Over DEF Finish, Done
  <2>3. CASE Continue("drill_health", None)
    BY <1>1, <2>1, <2>3, NextAsked DEF LabPageCommands
  <2>4. QED
    BY <1>7, <2>2, <2>3 DEF DrillRun
<1>8. QED
  BY <1>2, <1>3, <1>4, <1>5, <1>6, <1>7 DEF LabSteps

\* A refresh is asked with the flags of the moment.
LEMMA QueueOfHealthPages ==
  ASSUME TypeInv, HealthSteps
  PROVE  /\ Queued(calls')
         /\ Keeps(HealthCommands)
         /\ \A c \in Under(calls') : c.cmd = "refresh" => c \in Under(calls) \/ c.arg = Merged
<1> USE DEF TypeInv
<1>1. CASE HandleRefresh
  <2>1. Merged \in [setup : ClientSetupState, flags : Flags]
    BY DEF ContextTypes, Merged
  <2>2. Merged \in Args /\ Allowed("refresh", Merged) /\ "refresh" \in Commands
    BY <2>1 DEF Allowed, Args, Commands
  <2>3. calls' = Append(calls, NewCall("refresh", Merged))
    BY <1>1 DEF HandleRefresh, Request, Ask
  <2>4. Queued(calls') /\ Under(calls') = Under(calls) \cup {NewCall("refresh", Merged)}
    BY <2>2, <2>3, NewCallIsQueued
  <2>5. QED
    BY <2>4 DEF Keeps, NewCall
<1>2. CASE Refreshed
  BY <1>2, Over DEF Refreshed, Queried, GoesOn, Answered, Finish, Done, HealthCommands,
     QueueGoesOn, NoNewRefresh
<1>3. QED
  BY <1>1, <1>2 DEF HealthSteps

\* Leaving a page: its calls go on, and those of the page that is mounted come last.
LEMMA QueueOfNavigate ==
  ASSUME Queued(calls), NEW path, Navigate(path)
  PROVE  /\ Queued(calls')
         /\ \A c \in Under(calls) : [c EXCEPT !.here = FALSE] \in Under(calls')
         /\ \A c \in Under(calls') : c.cmd = "has_keychain"
              \/ \E b \in Under(calls) : c = [b EXCEPT !.here = FALSE]
         /\ page' = "recovery" => NewCall("has_keychain", None) \in Under(calls')
<1>1. page' = Routed(path) /\ calls' = Left \o Mounted(Routed(path))
  BY DEF Navigate
<1>2. QED
  BY <1>1, LeftIsQueued, MountedIsQueued

\* A command is always asked with what the page that asks has checked.
LEMMA QueueStep ==
  ASSUME TypeInv, [Next]_vars
  PROVE  Queued(calls')
<1>1. ASSUME NEW path, Navigate(path)
      PROVE  Queued(calls')
  BY <1>1, QueueOfNavigate DEF TypeInv
<1>2. CASE Restart
  BY <1>2, StartupIsQueued DEF Restart
<1>3. CASE Context
  BY <1>3, QueueOfContext DEF Context, QueueGoesOn
<1>4. CASE SetupWizard
  BY <1>4, QueueOfWizard DEF SetupWizard, QueueGoesOn
<1>5. CASE BackupPlan
  BY <1>5, QueueOfPlan DEF BackupPlan, QueueGoesOn
<1>6. CASE RecoveryKey
  BY <1>6, QueueOfRecovery DEF RecoveryKey, QueueGoesOn
<1>7. CASE Labs
  BY <1>7, QueueOfLabPages DEF Labs, QueueGoesOn
<1>8. CASE HealthChecks
  BY <1>8, QueueOfHealthPages DEF HealthChecks
<1>9. CASE UNCHANGED vars
  BY <1>9 DEF vars, context, TypeInv
<1>10. QED
  BY <1>1, <1>2, <1>3, <1>4, <1>5, <1>6, <1>7, <1>8, <1>9 DEF Next
-----------------------------------------------------------------------------
(***************************************************************************)
(* What a step does to the answer of the first command.  Nothing while     *)
(* that command stays where it is, but for its run; and only the handler   *)
(* that waited for it takes it.                                            *)
(***************************************************************************)
AnswerGoesOn(cmds) ==
  \/ answer' = answer /\ (calls' = calls \/ \E c : calls' = Append(calls, c))
  \/ calls # <<>> /\ Head(calls).cmd \in cmds /\ answer' = None
  \/ /\ calls # <<>> /\ Head(calls).cmd \in cmds
     /\ answer = None /\ answer' \in Answers /\ calls' = calls

LEMMA AnswerOfContext == ContextSteps => AnswerGoesOn(ContextCommands \cup PlanCommands)
<1>1. CASE TimerFires
  BY <1>1 DEF TimerFires, AnswerGoesOn
<1>2. CASE RepositoryRun
  BY <1>2 DEF RepositoryRun, Run, Answered, AnswerGoesOn, Answers, ContextCommands,
     JobCommands, PlanCommands
<1>3. CASE PeerReports \/ ToggleOffline
  BY <1>3 DEF PeerReports, ToggleOffline, AnswerGoesOn
<1>4. CASE ToolsFound \/ JobInitialised \/ JobBackedUp
  BY <1>4 DEF ToolsFound, JobInitialised, JobBackedUp, Queried, GoesOn, Answered, Finish,
     Continue, AnswerGoesOn, ContextCommands, JobCommands
<1>5. QED
  BY <1>1, <1>2, <1>3, <1>4 DEF ContextSteps

LEMMA AnswerOfWizard == WizardSteps => AnswerGoesOn(WizardCommands)
<1>1. CASE Validated
  BY <1>1 DEF Validated, Queried, Answered, Finish, AnswerGoesOn, WizardCommands
<1>2. CASE Save
  BY <1>2 DEF Save, Request, Ask, AnswerGoesOn
<1>3. CASE ~Validated /\ ~Save /\ WizardSteps
  BY <1>3 DEF WizardSteps, EditSourceFolders, HandlePresetPeer, ClearPeerTarget,
     EditRetention, Prev, NextStep, AddAnother, context, AnswerGoesOn
<1>4. QED
  BY <1>1, <1>2, <1>3

LEMMA AnswerOfPlan == PlanSteps => AnswerGoesOn(PlanCommands)
<1>1. ASSUME NEW d, RunBackup(d)
      PROVE  AnswerGoesOn(PlanCommands)
  BY <1>1 DEF RunBackup, Request, Ask, AnswerGoesOn
<1>2. CASE RunJob
  BY <1>2 DEF RunJob, Request, Ask, AnswerGoesOn
<1>3. CASE EditForm
  BY <1>3 DEF EditForm, context, AnswerGoesOn
<1>4. CASE RunJobInitialised \/ RunJobBackedUp
  BY <1>4 DEF RunJobInitialised, RunJobBackedUp, GoesOn, Answered, Finish, Continue,
     AnswerGoesOn, PlanCommands
<1>5. QED
  BY <1>1, <1>2, <1>3, <1>4 DEF PlanSteps

LEMMA AnswerOfRecovery == RecoverySteps => AnswerGoesOn(RecoveryCommands)
<1>1. CASE HandleSave \/ HandleChange
  BY <1>1 DEF HandleSave, HandleChange, Submit, Request, Ask, AnswerGoesOn
<1>2. CASE HandleRevoke
  BY <1>2 DEF HandleRevoke, Request, Ask, AnswerGoesOn
<1>3. CASE \E mode \in Modes : SetMode(mode)
  BY <1>3 DEF SetMode, context, AnswerGoesOn
<1>4. CASE PasswordRun
  BY <1>4 DEF PasswordRun, Run, Answered, AnswerGoesOn, Answers, RecoveryCommands
<1>5. CASE KeychainFound \/ KeychainLoaded \/ PasswordSaved \/ PasswordVerified
           \/ PasswordCleared
  BY <1>5 DEF KeychainFound, KeychainLoaded, PasswordSaved, PasswordVerified,
     PasswordCleared, Queried, GoesOn, Answered, Finish, Continue, AnswerGoesOn,
     RecoveryCommands
<1>6. QED
  BY <1>1, <1>2, <1>3, <1>4, <1>5 DEF RecoverySteps

LEMMA AnswerOfLabPages == LabSteps => AnswerGoesOn(LabPageCommands)
<1>1. ASSUME NEW cmd, StartStep(cmd)
      PROVE  AnswerGoesOn(LabPageCommands)
  BY <1>1 DEF StartStep, Request, Ask, AnswerGoesOn
<1>2. CASE HandleRunDrill
  BY <1>2 DEF HandleRunDrill, Request, Ask, AnswerGoesOn
<1>3. CASE LabRun
  BY <1>3 DEF LabRun, ChangesLab, Run, Answered, AnswerGoesOn, Answers, Results,
     LabPageCommands, LabCommands
<1>4. ASSUME NEW cmd \in LabCommands, StepFailed(cmd)
      PROVE  AnswerGoesOn(LabPageCommands)
  BY <1>4 DEF StepFailed, GoesOn, Answered, Finish, AnswerGoesOn, LabPageCommands
<1>5. CASE ToolsProbed \/ LabCreated \/ LabBackedUp \/ TransportPrepared
           \/ RepositoryChecked \/ RestoreDrilled \/ DrillRun \/ HealthReported
  BY <1>5 DEF ToolsProbed, LabCreated, LabBackedUp, TransportPrepared, RepositoryChecked,
     RestoreDrilled, DrillRun, HealthReported, Queried, GoesOn, Answered, Finish,
     Continue, AnswerGoesOn, LabPageCommands, LabCommands
<1>6. QED
  BY <1>1, <1>2, <1>3, <1>4, <1>5 DEF LabSteps

LEMMA AnswerOfHealthPages == HealthSteps => AnswerGoesOn(HealthCommands)
<1>1. CASE HandleRefresh
  BY <1>1 DEF HandleRefresh, Request, Ask, AnswerGoesOn
<1>2. CASE Refreshed
  BY <1>2 DEF Refreshed, Queried, Answered, Finish, AnswerGoesOn, HealthCommands
<1>3. QED
  BY <1>1, <1>2 DEF HealthSteps

\* The first call and those behind it stay where they are,
HeadStays ==
  calls # <<>> =>
    /\ calls' # <<>>
    /\ Head(calls').cmd = Head(calls).cmd /\ arg' = arg
    /\ \A i \in 2..Len(calls) : /\ i \in 2..Len(calls')
                                /\ calls'[i].cmd = calls[i].cmd
                                /\ calls'[i].arg = calls[i].arg

\* when one is added,
LEMMA HeadOfAppended ==
  ASSUME Queued(calls), calls' = calls \/ \E c : calls' = Append(calls, c)
  PROVE  HeadStays
<1>1. CASE calls' = calls
  BY <1>1 DEF HeadStays, arg
<1>2. ASSUME NEW c, calls' = Append(calls, c), calls # <<>>
      PROVE  HeadStays
  <2> DEFINE S == Sent \cup {c}
  <2>1. calls \in Seq(S)
    <3>1. Sent \subseteq S
      OBVIOUS
    <3>2. QED
      BY <3>1, SeqMonotonic DEF Queued
  <2>2. /\ calls' \in Seq(S)
        /\ Len(calls') = Len(calls) + 1
        /\ \A i \in 1..Len(calls) : calls'[i] = calls[i]
        /\ Len(calls) \in Nat \ {0}
    <3> HIDE DEF S
    <3>1. c \in S
      BY DEF S
    <3>2. QED
      BY <1>2, <2>1, <3>1, AppendProperties, LenProperties, EmptySeq
  <2>3. calls' # <<>> /\ Head(calls') = calls'[1] /\ Head(calls) = calls[1]
    <3> HIDE DEF S
    <3>1. QED
      BY <1>2, <2>1, <2>2, HeadTailProperties, EmptySeq
  <2>4. QED
    BY <2>2, <2>3 DEF HeadStays, arg
<1>3. QED
  BY <1>1, <1>2 DEF HeadStays

\* and when the page that made them is left.
LEMMA HeadOfLeft ==
  ASSUME Queued(calls), NEW path, Navigate(path)
  PROVE  HeadStays /\ (calls' = <<>> => calls = <<>>)
<1> DEFINE new == Mounted(Routed(path))
<1>1. /\ Queued(Left)
      /\ Len(calls) \in Nat
      /\ \A i \in 1..Len(calls) : calls[i] \in Sent
  BY LeftIsQueued, LenProperties, ElementOfSeq DEF Queued
<1>2. /\ Len(Left) = Len(calls)
      /\ \A i \in 1..Len(calls) : /\ Left[i].cmd = calls[i].cmd
                                  /\ Left[i].arg = calls[i].arg
  <2>1. /\ DOMAIN Left = 1..Len(calls)
        /\ \A i \in 1..Len(calls) : Left[i] = [calls[i] EXCEPT !.here = FALSE]
    BY DEF Left
  <2>2. Len(Left) = Len(calls)
    BY <1>1, <2>1, LenProperties DEF Queued
  <2>3. QED
    BY <1>1, <2>1, <2>2 DEF Sent, Call
<1>3. new \in Seq(Sent)
  <2>1. NewCall("has_keychain", None) \in Sent
    BY DEF NewCall, Sent, Call, Allowed, Args, Commands
  <2>2. QED
    BY <2>1 DEF Mounted
<1>4. /\ calls' \in Seq(Sent)
      /\ Len(calls') = Len(calls) + Len(new)
      /\ Len(new) \in Nat
      /\ \A i \in 1..Len(calls) : calls'[i] = Left[i]
  <2> HIDE DEF new
  <2>1. calls' = Left \o new
    BY DEF Navigate, new
  <2>2. QED
    BY <1>1, <1>2, <1>3, <2>1, ConcatProperties, LenProperties DEF Queued
<1>5. ASSUME calls # <<>>
      PROVE  /\ calls' # <<>>
             /\ Head(calls') = calls'[1] /\ Head(calls) = calls[1]
             /\ Len(calls) \in Nat \ {0}
  <2> HIDE DEF new
  <2>1. Len(calls) \in Nat \ {0}
    BY <1>1, <1>5, EmptySeq, LenProperties DEF Queued
  <2>2. calls' # <<>>
    BY <1>4, <2>1
  <2>3. QED
    BY <1>4, <1>5, <2>1, <2>2, HeadTailProperties DEF Queued
<1>6. QED
  <2> HIDE DEF new
  <2>1. QED
    BY <1>2, <1>4, <1>5 DEF HeadStays, arg

LEMMA AnswerKept ==
  ASSUME TypeInv, NEW cmds, AnswerGoesOn(cmds), Queued(calls')
  PROVE  AnswerInv'
<1>1. CASE answer' = answer /\ (calls' = calls \/ \E c : calls' = Append(calls, c))
  <2>1. HeadStays
    BY <1>1, HeadOfAppended DEF TypeInv
  <2>2. QED
    BY <1>1, <2>1 DEF TypeInv, AnswerInv, HeadStays
<1>2. QED
  BY <1>1 DEF AnswerGoesOn, TypeInv, AnswerInv, Answers, Results

\* There is no answer without a call, in every step.
LEMMA AnswerStep ==
  ASSUME TypeInv, [Next]_vars
  PROVE  AnswerInv'
<1>1. ASSUME NEW path, Navigate(path)
      PROVE  AnswerInv'
  BY <1>1, HeadOfLeft DEF Navigate, TypeInv, AnswerInv
<1>2. CASE Restart
  BY <1>2 DEF Restart, AnswerInv, Answers, Results
<1>3. CASE UNCHANGED vars
  BY <1>3 DEF vars, context, TypeInv, AnswerInv
<1>4. QED
  BY <1>1, <1>2, <1>3, QueueStep, AnswerKept, AnswerOfContext, AnswerOfWizard,
     AnswerOfPlan, AnswerOfRecovery, AnswerOfLabPages, AnswerOfHealthPages
  DEF Next, Context, SetupWizard, BackupPlan, RecoveryKey, Labs, HealthChecks

\* What has run of other commands than those a step is about is as it was.
LEMMA RunKept ==
  ASSUME TypeInv, NEW own, AnswerGoesOn(own), NEW cmds, cmds \cap own = {}
  PROVE  /\ HasRun(cmds)' <=> HasRun(cmds)
         /\ HasRun(cmds) => answer' = answer /\ HeadStays
<1>1. CASE answer' = answer /\ (calls' = calls \/ \E c : calls' = Append(calls, c))
  <2>1. HeadStays
    BY <1>1, HeadOfAppended DEF TypeInv
  <2>2. QED
    BY <1>1, <2>1 DEF HasRun, HeadStays, TypeInv, AnswerInv
<1>2. CASE calls # <<>> /\ Head(calls).cmd \in own /\ answer' = None
  BY <1>2 DEF HasRun
<1>3. CASE /\ calls # <<>> /\ Head(calls).cmd \in own
           /\ answer = None /\ answer' \in Answers /\ calls' = calls
  BY <1>3 DEF HasRun
<1>4. QED
  BY <1>1, <1>2, <1>3 DEF AnswerGoesOn

LEMMA RunKeptInNavigation ==
  ASSUME TypeInv, NEW path, Navigate(path), NEW cmds
  PROVE  /\ HasRun(cmds)' <=> HasRun(cmds)
         /\ HasRun(cmds) => answer' = answer /\ HeadStays
<1>1. HeadStays /\ answer' = answer
  BY HeadOfLeft DEF Navigate, TypeInv
<1>2. QED
  BY <1>1 DEF HasRun, HeadStays, TypeInv, AnswerInv
-----------------------------------------------------------------------------
\* What a command that has run on the lab has made of it.
LabAnswers ==
  /\ HasRun({"create_test_lab"}) => lab.made
  /\ HasRun({"run_test_backup"}) => lab.snapshot
  /\ HasRun({"run_repository_check"}) => lab.check = answer
  /\ HasRun({"run_restore_drill", "drill_page"}) => lab.drill = answer

\* The lab that is shown, with what the health report makes of its drill.
LabInv ==
  /\ realLab \in RealLabState
  /\ lab \in AppTestLabState
  /\ health \in HealthReport
  /\ LabShownIsTheLab
  /\ LabAnswers
  /\ realLab.drill = "failed" => ~health.drill

\* At the start nothing was drilled.
LEMMA LabStart == Init => LabInv
<1> SUFFICES ASSUME Init
             PROVE  LabInv
  OBVIOUS
<1>1. PICK status \in Probes(jobs) : InitLab(status)
  BY DEF Init, ContextInit
<1>2. status \in RemoteStatus
  BY <1>1 DEF Probes, RemoteStatus
<1>3. LabAnswers
  BY DEF Init, ContextInit, HasRun, LabAnswers
<1>4. CASE /\ lab = FreshLab(FALSE)
           /\ realLab = NoLab
           /\ health = [DefaultHealth EXCEPT !.remote = status]
  <2>1. /\ realLab \in RealLabState
        /\ lab \in AppTestLabState
        /\ health \in HealthReport
    BY <1>2, <1>4 DEF FreshLab, NoLab, DefaultHealth, RealLabState, AppTestLabState,
       HealthReport, Results
  <2>2. LabShownIsTheLab /\ realLab.drill # "failed"
    BY <1>4, ClientAssumption DEF FreshLab, NoLab, LabShownIsTheLab
  <2>3. QED
    BY <1>3, <2>1, <2>2 DEF LabInv
<1>5. CASE /\ lab = [FreshLab(TRUE) EXCEPT !.snapshot = TRUE]
           /\ realLab = [NoLab EXCEPT !.lab = TRUE, !.backup = TRUE]
           /\ health = HealthOfLab
  <2>1. /\ realLab \in RealLabState
        /\ lab \in AppTestLabState
    BY <1>5 DEF FreshLab, NoLab, RealLabState, AppTestLabState, Results
  <2>2. health \in HealthReport
    BY <1>5, <2>1 DEF HealthOfLab, HealthReport, RemoteStatus, AppTestLabState
  <2>3. LabShownIsTheLab /\ realLab.drill # "failed"
    BY <1>5, ClientAssumption DEF FreshLab, NoLab, LabShownIsTheLab
  <2>4. QED
    BY <1>3, <2>1, <2>2, <2>3 DEF LabInv
<1>6. QED
  BY <1>1, <1>4, <1>5 DEF InitLab

\* Who leaves the lab and what is shown of it alone, and what has run of its commands.
LEMMA LabKept ==
  ASSUME LabInv, UNCHANGED <<realLab, lab>>, health' \in HealthReport,
         realLab.drill = "failed" => ~health'.drill,
         \A cmds \in SUBSET ChangesLab :
           (HasRun(cmds)' <=> HasRun(cmds)) /\ (HasRun(cmds) => answer' = answer)
  PROVE  LabInv'
<1>1. /\ {"create_test_lab"} \in SUBSET ChangesLab
      /\ {"run_test_backup"} \in SUBSET ChangesLab
      /\ {"run_repository_check"} \in SUBSET ChangesLab
      /\ {"run_restore_drill", "drill_page"} \in SUBSET ChangesLab
      /\ {"create_test_lab", "run_repository_check"} \in SUBSET ChangesLab
      /\ {"create_test_lab", "run_restore_drill", "drill_page"} \in SUBSET ChangesLab
  BY DEF ChangesLab, LabCommands
<1>2. LabAnswers'
  BY <1>1 DEF LabInv, LabAnswers
<1>3. LabShownIsTheLab'
  BY <1>1 DEF LabInv, LabShownIsTheLab
<1>4. QED
  BY <1>2, <1>3 DEF LabInv

\* The steps of others.
LEMMA LabLeftAlone ==
  ASSUME TypeInv, LabInv, UNCHANGED <<realLab, lab>>, health' \in HealthReport,
         realLab.drill = "failed" => ~health'.drill,
         NEW own, AnswerGoesOn(own), ChangesLab \cap own = {}
  PROVE  LabInv'
<1>1. \A cmds \in SUBSET ChangesLab :
        (HasRun(cmds)' <=> HasRun(cmds)) /\ (HasRun(cmds) => answer' = answer)
  BY RunKept
<1>2. QED
  BY <1>1, LabKept

LEMMA OthersLeaveTheLab ==
  /\ ChangesLab \cap ContextCommands = {}
  /\ ChangesLab \cap WizardCommands = {}
  /\ ChangesLab \cap PlanCommands = {}
  /\ ChangesLab \cap RecoveryCommands = {}
  /\ ChangesLab \cap HealthCommands = {}
  BY DEF ChangesLab, LabCommands, ContextCommands, JobCommands, WizardCommands,
     PlanCommands, RecoveryCommands, HealthCommands

\* Only the host's status is reported to the context, the drill is left alone.
LEMMA LabOfContext ==
  ASSUME TypeInv, LabInv, ContextSteps
  PROVE  LabInv'
<1>1. UNCHANGED <<realLab, lab>>
  BY DEF ContextSteps, ToolsFound, TimerFires, RestOfRun, JobInitialised, JobBackedUp,
     RestOfJobs, PeerReports, ToggleOffline, ui
<1>2. health' \in HealthReport /\ health'.drill = health.drill
  <2>1. CASE PeerReports
    BY <2>1 DEF PeerReports, UpdateRemoteRepositoryState, UpdateKopiaRepositoryFromBackup,
       HealthReport, RemoteStatus, LabInv
  <2>2. CASE health' = health
    BY <2>2 DEF LabInv
  <2>3. QED
    BY <2>1, <2>2 DEF ContextSteps, ToolsFound, TimerFires, RestOfRun, JobInitialised,
       JobBackedUp, RestOfJobs, ToggleOffline, ui
<1>3. QED
  BY <1>1, <1>2, AnswerOfContext, OthersLeaveTheLab, LabLeftAlone DEF LabInv

\* The process works on the lab: what the pages show of it is made up for next.
LEMMA LabOfRun ==
  ASSUME TypeInv, LabInv, LabRun
  PROVE  LabInv'
<1>1. answer = None /\ calls # <<>> /\ UNCHANGED <<calls, realLab, health>>
  BY DEF LabRun, Run, Answered, ui
<1>2. /\ realLab.lab => lab.made
      /\ realLab.backup => lab.snapshot
      /\ realLab.check \in {None, lab.check}
      /\ realLab.drill \in {None, lab.drill}
  BY <1>1 DEF LabInv, LabShownIsTheLab, HasRun
<1>3. CASE Run("create_test_lab", "ok") /\ lab' = FreshLab(TRUE)
  <2>1. lab' \in AppTestLabState /\ lab'.made
    BY <1>3 DEF FreshLab, AppTestLabState, Results
  <2>2. /\ HasRun({"create_test_lab"})' /\ HasRun({"create_test_lab", "run_repository_check"})'
        /\ HasRun({"create_test_lab", "run_restore_drill", "drill_page"})'
    BY <1>1, <1>3, ClientAssumption DEF Run, Answered, HasRun
  <2>3. LabAnswers'
    BY <1>1, <1>3, <2>1 DEF Run, Answered, HasRun, LabAnswers
  <2>4. QED
    BY <1>1, <2>1, <2>2, <2>3 DEF LabInv, LabShownIsTheLab
<1>4. CASE Run("run_test_backup", "ok") /\ lab' = [lab EXCEPT !.snapshot = TRUE]
  <2>1. /\ lab' \in AppTestLabState /\ lab'.snapshot
        /\ lab'.made = lab.made /\ lab'.check = lab.check /\ lab'.drill = lab.drill
    BY <1>4 DEF LabInv, AppTestLabState
  <2>2. LabAnswers'
    BY <1>1, <1>4, <2>1 DEF Run, Answered, HasRun, LabAnswers
  <2>3. QED
    BY <1>1, <1>2, <2>1, <2>2 DEF LabInv, LabShownIsTheLab
<1>5. ASSUME NEW result \in {"passed", "failed"}, Run("run_repository_check", result),
             lab' = [lab EXCEPT !.check = result]
      PROVE  LabInv'
  <2>1. /\ lab' \in AppTestLabState /\ lab'.check = result
        /\ lab'.made = lab.made /\ lab'.snapshot = lab.snapshot /\ lab'.drill = lab.drill
    BY <1>5 DEF LabInv, AppTestLabState, Results
  <2>2. HasRun({"create_test_lab", "run_repository_check"})' /\ answer' = result
    BY <1>1, <1>5, ClientAssumption DEF Run, Answered, HasRun
  <2>3. LabAnswers'
    BY <1>1, <1>5, <2>1, <2>2 DEF Run, Answered, HasRun, LabAnswers
  <2>4. QED
    BY <1>1, <1>2, <2>1, <2>2, <2>3 DEF LabInv, LabShownIsTheLab
<1>6. ASSUME NEW result \in {"passed", "failed"},
             Run("run_restore_drill", result) \/ Run("drill_page", result),
             lab' = [lab EXCEPT !.drill = result]
      PROVE  LabInv'
  <2>1. /\ lab' \in AppTestLabState /\ lab'.drill = result
        /\ lab'.made = lab.made /\ lab'.snapshot = lab.snapshot /\ lab'.check = lab.check
    BY <1>6 DEF LabInv, AppTestLabState, Results
  <2>2. /\ HasRun({"create_test_lab", "run_restore_drill", "drill_page"})'
        /\ answer' = result
    BY <1>1, <1>6, ClientAssumption DEF Run, Answered, HasRun
  <2>3. LabAnswers'
    BY <1>1, <1>6, <2>1, <2>2 DEF Run, Answered, HasRun, LabAnswers
  <2>4. QED
    BY <1>1, <1>2, <2>1, <2>2, <2>3 DEF LabInv, LabShownIsTheLab
<1>7. ASSUME NEW cmd, Run(cmd, "error"), lab' = lab
      PROVE  LabInv'
  <2>1. LabAnswers'
    BY <1>7 DEF Run, HasRun, LabAnswers
  <2>2. QED
    BY <1>1, <1>2, <1>7, <2>1 DEF LabInv, LabShownIsTheLab
<1>8. QED
  BY <1>3, <1>4, <1>5, <1>6, <1>7 DEF LabRun

\* A handler that has its answer shows what the command has made of the lab.
LEMMA LabShown ==
  ASSUME LabInv, lab' = lab, answer' = None,
         realLab' \in RealLabState, health' \in HealthReport,
         realLab'.drill = "failed" => ~health'.drill,
         realLab'.lab => lab.made, realLab'.backup => lab.snapshot,
         realLab'.check \in {None, lab.check}, realLab'.drill \in {None, lab.drill}
  PROVE  LabInv'
  BY DEF LabInv, LabShownIsTheLab, LabAnswers, HasRun

\* A drill that is recorded is recorded in both places at once.
LEMMA LabOfDrill ==
  ASSUME LabInv, NEW result \in {"passed", "failed"}, Drilled(result), lab' = lab,
         GoesOn("run_restore_drill", result) \/ GoesOn("drill_page", result),
         answer' = None
  PROVE  LabInv'
<1>1. /\ realLab' = [realLab EXCEPT !.drill = result]
      /\ health' = [health EXCEPT !.drill = (result = "passed")]
  BY DEF Drilled, UpdateHealthFromDrillResult
<1>2. HasRun({"run_restore_drill", "drill_page"}) /\ answer = result
  BY ClientAssumption DEF GoesOn, Answered, HasRun
<1>3. lab.drill = result
  BY <1>2 DEF LabInv, LabAnswers
<1>4. ~HasRun({"create_test_lab", "run_repository_check"}) /\ ~HasRun({"create_test_lab"})
  BY DEF GoesOn, Answered, HasRun
<1>5. realLab' \in RealLabState /\ health' \in HealthReport
  BY <1>1 DEF LabInv, RealLabState, HealthReport, Results
<1>6. /\ realLab'.lab = realLab.lab /\ realLab'.backup = realLab.backup
      /\ realLab'.check = realLab.check /\ realLab'.drill = result
      /\ health'.drill = (result = "passed")
  BY <1>1 DEF LabInv, RealLabState, HealthReport
<1>7. QED
  BY <1>3, <1>4, <1>5, <1>6, LabShown DEF LabInv, LabShownIsTheLab

\* The health report, fetched at any time, is of the drill that the pages show.
LEMMA LabOfReport ==
  ASSUME LabInv, answer = None, RefreshRealHealth, UNCHANGED <<realLab, lab>>
  PROVE  health' \in HealthReport /\ (realLab.drill = "failed" => ~health'.drill)
<1>1. health' \in HealthReport
  BY DEF LabInv, RefreshRealHealth, HealthOfLab, HealthReport, RemoteStatus,
     AppTestLabState
<1>2. realLab.drill = "failed" => lab.drill = "failed"
  BY ClientAssumption DEF LabInv, LabShownIsTheLab, HasRun
<1>3. health'.drill = (lab.drill = "passed")
  BY DEF RefreshRealHealth, HealthOfLab
<1>4. QED
  BY <1>1, <1>2, <1>3

\* The answer to a command that has changed nothing, or could not.
LEMMA LabOfOtherAnswers ==
  ASSUME LabInv, UNCHANGED <<lab, realLab>>, health' \in HealthReport,
         realLab.drill = "failed" => ~health'.drill,
         answer \in {None, "error"}, answer' = None
  PROVE  LabInv'
<1>1. /\ realLab.backup => lab.snapshot
      /\ realLab.check \in {None, lab.check}
      /\ realLab.drill \in {None, lab.drill}
  BY DEF LabInv, LabShownIsTheLab, HasRun
<1>2. QED
  BY <1>1, LabShown DEF LabInv, LabShownIsTheLab

LEMMA LabOfLabPages ==
  ASSUME TypeInv, LabInv, LabSteps
  PROVE  LabInv'
<1>1. CASE HandleRunDrill \/ \E cmd \in LabCommands : StartStep(cmd)
  <2>1. UNCHANGED <<realLab, lab, health>>
    BY <1>1 DEF HandleRunDrill, StartStep, ui
  <2>2. AnswerGoesOn({})
    BY <1>1 DEF HandleRunDrill, StartStep, Request, Ask, AnswerGoesOn
  <2>3. QED
    BY <2>1, <2>2, LabLeftAlone DEF LabInv
<1>2. ASSUME NEW cmd \in LabCommands, StepFailed(cmd)
      PROVE  LabInv'
  <2>1. UNCHANGED <<realLab, lab, health>> /\ answer \in {None, "error"} /\ answer' = None
    BY <1>2 DEF StepFailed, GoesOn, Finish, NoHealth, RestOfLab
  <2>2. QED
    BY <2>1, LabOfOtherAnswers DEF LabInv
<1>3. CASE ToolsProbed
  <2>1. UNCHANGED <<realLab, lab, health>> /\ answer = None /\ answer' = None
    BY <1>3 DEF ToolsProbed, Queried, Finish, NoHealth, RestOfLab
  <2>2. QED
    BY <2>1, LabOfOtherAnswers DEF LabInv
<1>4. CASE LabCreated
  <2>1. /\ lab' = lab
        /\ realLab' = [NoLab EXCEPT !.lab = TRUE]
        /\ health' = health
        /\ answer' = None
    BY <1>4 DEF LabCreated, NoHealth, RestOfLab, Finish
  <2>2. realLab' \in RealLabState
    BY <2>1 DEF NoLab, RealLabState, Results
  <2>3. HasRun({"create_test_lab"})
    BY <1>4, ClientAssumption DEF LabCreated, GoesOn, Answered, HasRun
  <2>4. lab.made
    BY <2>3 DEF LabInv, LabAnswers
  <2>5. /\ realLab'.check = None /\ realLab'.drill = None
        /\ ~realLab'.backup /\ realLab'.drill # "failed"
    BY <2>1, ClientAssumption DEF NoLab
  <2>6. QED
    BY <2>1, <2>2, <2>4, <2>5, LabShown DEF LabInv
<1>5. CASE LabBackedUp
  <2>1. /\ lab' = lab
        /\ realLab' = [realLab EXCEPT !.backup = TRUE, !.check = None, !.drill = None]
        /\ health' = health
        /\ answer' = None
    BY <1>5 DEF LabBackedUp, NoHealth, RestOfLab, Continue
  <2>2. realLab' \in RealLabState
    BY <2>1 DEF LabInv, RealLabState, Results
  <2>3. HasRun({"run_test_backup"})
    BY <1>5, ClientAssumption DEF LabBackedUp, GoesOn, Answered, HasRun
  <2>4. lab.snapshot
    BY <2>3 DEF LabInv, LabAnswers
  <2>5. /\ realLab'.check = None /\ realLab'.drill = None
        /\ realLab'.lab = realLab.lab /\ realLab'.drill # "failed"
    BY <2>1, ClientAssumption DEF LabInv, RealLabState
  <2>6. QED
    BY <2>1, <2>2, <2>4, <2>5, LabShown DEF LabInv, LabShownIsTheLab
<1>6. CASE TransportPrepared
  <2>1. /\ lab' = lab
        /\ realLab' = [realLab EXCEPT !.transport = TRUE]
        /\ health' = health
        /\ answer = None /\ answer' = None
    BY <1>6 DEF TransportPrepared, NoHealth, RestOfLab, Queried, Finish
  <2>2. realLab' \in RealLabState
    BY <2>1 DEF LabInv, RealLabState
  <2>3. /\ realLab'.lab = realLab.lab /\ realLab'.backup = realLab.backup
        /\ realLab'.check = realLab.check /\ realLab'.drill = realLab.drill
    BY <2>1 DEF LabInv, RealLabState
  <2>4. QED
    BY <2>1, <2>2, <2>3, LabShown DEF LabInv, LabShownIsTheLab, HasRun
<1>7. CASE RepositoryChecked
  <2>1. PICK result \in {"passed", "failed"} :
          /\ GoesOn("run_repository_check", result)
          /\ realLab' = [realLab EXCEPT !.check = result]
          /\ health' = [health EXCEPT !.check = (result = "passed")]
    BY <1>7 DEF RepositoryChecked, UpdateHealthFromCheckResult
  <2>2. lab' = lab /\ answer' = None
    BY <1>7 DEF RepositoryChecked, RestOfLab, Continue
  <2>3. HasRun({"run_repository_check"}) /\ answer = result
    BY <2>1, ClientAssumption DEF GoesOn, Answered, HasRun
  <2>4. /\ ~HasRun({"create_test_lab"})
        /\ ~HasRun({"create_test_lab", "run_restore_drill", "drill_page"})
    BY <2>1 DEF GoesOn, Answered, HasRun
  <2>5. lab.check = result
    BY <2>3 DEF LabInv, LabAnswers
  <2>6. realLab' \in RealLabState /\ health' \in HealthReport
    BY <2>1 DEF LabInv, RealLabState, HealthReport, Results
  <2>7. /\ realLab'.lab = realLab.lab /\ realLab'.backup = realLab.backup
        /\ realLab'.check = result /\ realLab'.drill = realLab.drill
        /\ health'.drill = health.drill
    BY <2>1 DEF LabInv, RealLabState, HealthReport
  <2>8. QED
    BY <2>2, <2>4, <2>5, <2>6, <2>7, LabShown DEF LabInv, LabShownIsTheLab
<1>8. CASE RestoreDrilled
  BY <1>8, LabOfDrill DEF RestoreDrilled, Continue, RestOfLab
<1>9. CASE DrillRun
  <2>1. lab' = lab /\ answer' = None
    BY <1>9 DEF DrillRun, Finish, Continue, RestOfLab
  <2>2. ASSUME NEW result \in {"passed", "failed"}, GoesOn("drill_page", result),
               Drilled(result)
        PROVE  LabInv'
    BY <2>1, <2>2, LabOfDrill
  <2>3. CASE GoesOn("drill_page", "error") /\ NoHealth /\ UNCHANGED realLab
    BY <2>1, <2>3, LabOfOtherAnswers DEF GoesOn, NoHealth, LabInv
  <2>4. QED
    BY <1>9, <2>2, <2>3 DEF DrillRun
<1>10. CASE HealthReported
  <2>1. UNCHANGED <<realLab, lab>> /\ answer = None /\ answer' = None /\ RefreshRealHealth
    BY <1>10 DEF HealthReported, Queried, Finish, RestOfLab
  <2>2. QED
    BY <2>1, LabOfReport, LabOfOtherAnswers
<1>11. QED
  BY <1>1, <1>2, <1>3, <1>4, <1>5, <1>6, <1>7, <1>8, <1>9, <1>10, LabOfRun DEF LabSteps

\* A restart forgets the lab together with its results.
LEMMA LabOfRestart ==
  ASSUME LabInv, Restart
  PROVE  LabInv'
<1>1. realLab' = NoLab /\ lab' = FreshLab(FALSE) /\ answer' = None
  BY DEF Restart
<1>2. PICK status \in Probes(jobs) : health' = [DefaultHealth EXCEPT !.remote = status]
  BY DEF Restart
<1>3. health' \in HealthReport
  BY <1>2 DEF DefaultHealth, HealthReport, Probes, RemoteStatus
<1>4. realLab' \in RealLabState /\ lab' \in AppTestLabState
  BY <1>1 DEF FreshLab, NoLab, RealLabState, AppTestLabState, Results
<1>5. LabShownIsTheLab' /\ realLab'.drill # "failed"
  BY <1>1, ClientAssumption DEF FreshLab, NoLab, LabShownIsTheLab
<1>6. LabAnswers'
  BY <1>1 DEF LabAnswers, HasRun
<1>7. QED
  BY <1>3, <1>4, <1>5, <1>6 DEF LabInv

\* The other pages leave the lab alone.
LEMMA LabOfOtherPages ==
  ASSUME TypeInv, LabInv, WizardSteps \/ PlanSteps \/ RecoverySteps
  PROVE  LabInv'
<1>1. UNCHANGED <<realLab, lab, health>>
  <2>1. CASE WizardSteps
    BY <2>1 DEF WizardSteps, EditSourceFolders, HandlePresetPeer, ClearPeerTarget,
       EditRetention, Prev, NextStep, Save, Validated, Applied, Rejected, AddAnother,
       context, ui
  <2>2. CASE PlanSteps
    BY <2>2 DEF PlanSteps, RunBackup, EditForm, RunJob, RunJobInitialised, RunJobBackedUp,
       context, ui
  <2>3. CASE RecoverySteps
    BY <2>3 DEF RecoverySteps, SetMode, HandleSave, HandleChange, Submit, HandleRevoke,
       PasswordRun, KeychainFound, KeychainLoaded, PasswordSaved, PasswordVerified,
       PasswordCleared, Rest, context, ui
  <2>4. QED
    BY <2>1, <2>2, <2>3
<1>2. CASE WizardSteps
  BY <1>1, <1>2, AnswerOfWizard, OthersLeaveTheLab, LabLeftAlone DEF LabInv
<1>3. CASE PlanSteps
  BY <1>1, <1>3, AnswerOfPlan, OthersLeaveTheLab, LabLeftAlone DEF LabInv
<1>4. CASE RecoverySteps
  BY <1>1, <1>4, AnswerOfRecovery, OthersLeaveTheLab, LabLeftAlone DEF LabInv
<1>5. QED
  BY <1>2, <1>3, <1>4

LEMMA LabOfHealthPages ==
  ASSUME TypeInv, LabInv, HealthSteps
  PROVE  LabInv'
<1>1. UNCHANGED <<realLab, lab>>
  BY DEF HealthSteps, HandleRefresh, Refreshed, ui
<1>2. health' \in HealthReport /\ (realLab.drill = "failed" => ~health'.drill)
  <2>1. CASE HandleRefresh
    BY <2>1 DEF HandleRefresh, ui, LabInv
  <2>2. CASE Refreshed
    BY <1>1, <2>2, LabOfReport DEF Refreshed, Queried
  <2>3. QED
    BY <2>1, <2>2 DEF HealthSteps
<1>3. QED
  BY <1>1, <1>2, AnswerOfHealthPages, OthersLeaveTheLab, LabLeftAlone

\* The lab's part of the state, inductive.
LEMMA LabStep ==
  ASSUME TypeInv, LabInv, [Next]_vars
  PROVE  LabInv'
<1>1. ASSUME NEW path, Navigate(path)
      PROVE  LabInv'
  <2>1. UNCHANGED <<realLab, lab, health>>
    BY <1>1 DEF Navigate, ui
  <2>2. QED
    BY <1>1, <2>1, RunKeptInNavigation, LabKept DEF LabInv
<1>2. CASE Restart
  BY <1>2, LabOfRestart
<1>3. CASE UNCHANGED vars
  BY <1>3, LabKept DEF vars, context, ui, HasRun, LabInv
<1>4. QED
  BY <1>1, <1>2, <1>3, LabOfContext, LabOfOtherPages, LabOfLabPages, LabOfHealthPages
  DEF Next, Context, SetupWizard, BackupPlan, RecoveryKey, Labs, HealthChecks
-----------------------------------------------------------------------------
\* Types.  What the functions of the context make of its variables:
LEMMA FlagTypes ==
  ASSUME ContextTypes, NEW name \in {"confirmed", "offline"},
         NEW value \in BOOLEAN, SetFlag(name, value)
  PROVE  flags' \in Flags /\ raced' \in BOOLEAN
  BY DEF ContextTypes, SetFlag, Flags

LEMMA PasswordFlagTypes ==
  ASSUME ContextTypes, NEW v \in BOOLEAN, SetMasterPasswordSet(v)
  PROVE  /\ passwordSet' \in BOOLEAN
         /\ flags' \in Flags /\ raced' \in BOOLEAN
         /\ setup' = setup
         /\ asked' \in [setup : ClientSetupState, flags : Flags]
<1>1. CASE v
  <2>1. flags' \in Flags /\ raced' \in BOOLEAN
    BY <1>1, FlagTypes DEF SetMasterPasswordSet
  <2>2. QED
    BY <1>1, <2>1 DEF SetMasterPasswordSet, Recheck, ContextTypes
<1>2. CASE ~v
  BY <1>2 DEF SetMasterPasswordSet, ContextTypes
<1>3. QED
  BY <1>1, <1>2

LEMMA SetupTypes ==
  ASSUME ContextTypes, NEW s \in ClientSetupState, SetSetup(s)
  PROVE  /\ setup' \in ClientSetupState
         /\ asked' \in [setup : ClientSetupState, flags : Flags]
  BY DEF ContextTypes, SetSetup

\* What Kopia does to the repositories.
LEMMA RepoTypes ==
  ASSUME ContextTypes, NEW path \in Folders, NEW ok \in BOOLEAN,
         InitializeRepository(path, ok) \/ RunRealBackup(path, ok)
  PROVE  /\ repoKey' \in [Dests -> Passwords \cup {None}]
         /\ connected' \in Folders \cup {None}
         /\ fresh' \subseteq Dests
         /\ fresh' \cap Targets = fresh \cap Targets
<1>1. Opened(path) \in Folders /\ Opened(path) \in Dests /\ Opened(path) \notin Targets
  BY ClientAssumption DEF Opened, ContextTypes, Dests
<1>2. CASE Connect(path)
  BY <1>1, <1>2 DEF Connect, InitializeRepository, RunRealBackup, ContextTypes, repos
<1>3. CASE UNCHANGED <<repoKey, connected>>
  BY <1>1, <1>3 DEF InitializeRepository, RunRealBackup, ContextTypes, repos
<1>4. QED
  BY <1>2, <1>3 DEF InitializeRepository, RunRealBackup, repos

\* A command works on a repository of the kind that it is for.
LEMMA RunsAreOfTheirKind ==
  ASSUME TypeInv, RepositoryRun
  PROVE  \E ok \in BOOLEAN :
           \/ /\ arg \in Folders
              /\ InitializeRepository(arg, ok) \/ RunRealBackup(arg, ok)
              /\ Head(calls).cmd \in (JobCommands \cup PlanCommands) \ {"sftp_backup"}
           \/ /\ arg \in Targets
              /\ RunRealSftpBackup(arg, ok)
              /\ Head(calls).cmd = "sftp_backup"
              /\ answer' = IF ok THEN "ok" ELSE "error"
<1>1. PICK result \in {"ok", "error"} :
        \/ /\ Run("init_repository", result) \/ Run("form_init", result)
           /\ InitializeRepository(arg, result = "ok")
        \/ /\ Run("local_backup", result) \/ Run("form_backup", result)
           /\ RunRealBackup(arg, result = "ok")
        \/ Run("sftp_backup", result) /\ RunRealSftpBackup(arg, result = "ok")
  BY DEF RepositoryRun
<1>2. calls # <<>> => Allowed(Head(calls).cmd, arg)
  BY ArgIsAllowed DEF TypeInv
<1>3. PICK ok \in BOOLEAN : ok = (result = "ok")
  OBVIOUS
<1>4. CASE /\ Run("init_repository", result) \/ Run("form_init", result)
           /\ InitializeRepository(arg, result = "ok")
  BY <1>2, <1>3, <1>4 DEF Run, Answered, Allowed, JobCommands, PlanCommands
<1>5. CASE /\ Run("local_backup", result) \/ Run("form_backup", result)
           /\ RunRealBackup(arg, result = "ok")
  BY <1>2, <1>3, <1>5 DEF Run, Answered, Allowed, JobCommands, PlanCommands
<1>6. CASE Run("sftp_backup", result) /\ RunRealSftpBackup(arg, result = "ok")
  BY <1>2, <1>3, <1>6 DEF Run, Answered, Allowed
<1>7. QED
  BY <1>1, <1>4, <1>5, <1>6

\* A job is added to a list of its kind, or replaces one there.
LEMMA JobApplied ==
  ASSUME NEW S, jobs \in Seq(S), NEW draft \in S, ApplyWizardConfig(draft)
  PROVE  jobs' \in Seq(S)
<1>1. Len(jobs) \in Nat /\ \A i \in 1..Len(jobs) : jobs[i] \in S
  BY LenProperties, ElementOfSeq
<1>2. CASE draft.dest \in JobDests
  <2>1. jobs' \in [1..Len(jobs) -> S]
    BY <1>1, <1>2 DEF ApplyWizardConfig
  <2>2. QED
    BY <1>1, <2>1, SeqDef
<1>3. CASE draft.dest \notin JobDests
  BY <1>3, AppendProperties DEF ApplyWizardConfig
<1>4. QED
  BY <1>2, <1>3

LEMMA JobTypes ==
  ASSUME ContextTypes, NEW draft \in SetupDraftConfig, SafetyCheck(draft),
         ApplyWizardConfig(draft)
  PROVE  /\ jobs' \in Seq(SetupDraftConfig)
         /\ timers' \subseteq Dests
         /\ setup' \in ClientSetupState
         /\ asked' \in [setup : ClientSetupState, flags : Flags]
<1>1. jobs' \in Seq(SetupDraftConfig)
  BY JobApplied DEF ContextTypes
<1>2. draft.dest \in Dests
  BY DEF SafetyCheck, SetupDraftConfig
<1>3. timers' \subseteq Dests
  BY <1>2 DEF ApplyWizardConfig, ContextTypes
<1>4. [setup EXCEPT !.kopia = "configured"] \in ClientSetupState
  BY DEF ContextTypes, ClientSetupState, RepoStatus
<1>5. QED
  BY <1>1, <1>3, <1>4, SetupTypes DEF ApplyWizardConfig

\* The steps of the context itself.
LEMMA TypesOfRuns ==
  ASSUME TypeInv, RepositoryRun, RestOfRun
  PROVE  ContextTypes'
<1>1. /\ repoKey' \in [Dests -> Passwords \cup {None}]
      /\ connected' \in Folders \cup {None}
      /\ fresh' \subseteq Dests
  <2>1. CASE /\ arg \in Folders
             /\ \E ok \in BOOLEAN : InitializeRepository(arg, ok) \/ RunRealBackup(arg, ok)
    BY <2>1, RepoTypes DEF TypeInv
  <2>2. CASE arg \in Targets /\ \E ok \in BOOLEAN : RunRealSftpBackup(arg, ok)
    BY <2>2 DEF RunRealSftpBackup, TypeInv, ContextTypes, Dests
  <2>3. QED
    BY <2>1, <2>2, RunsAreOfTheirKind
<1>2. QED
  BY <1>1 DEF RestOfRun, TypeInv, ContextTypes, ui, secrets

LEMMA TypesOfJobs ==
  ASSUME TypeInv, TimerFires \/ JobInitialised \/ JobBackedUp
  PROVE  ContextTypes'
<1>1. CASE TimerFires
  <2>1. PICK d \in timers : timers' = timers \ {d} /\ TriggerRepoBackup(d)
    BY <1>1 DEF TimerFires
  <2>2. jobState' \in [Dests -> JobState] /\ fresh' \subseteq Dests
    BY <2>1 DEF TriggerRepoBackup, TypeInv, ContextTypes, JobState
  <2>3. QED
    BY <1>1, <2>1, <2>2 DEF TimerFires, TypeInv, ContextTypes, secrets
<1>2. CASE JobInitialised \/ JobBackedUp
  <2>1. jobState' \in [Dests -> JobState]
    BY <1>2 DEF JobInitialised, JobBackedUp, JobError, TypeInv, ContextTypes, JobState
  <2>2. QED
    BY <1>2, <2>1 DEF JobInitialised, JobBackedUp, RestOfJobs, TypeInv, ContextTypes,
       secrets, repos
<1>3. QED
  BY <1>1, <1>2

LEMMA Clicked ==
  ASSUME clicks \in 0..MaxClicks, Click
  PROVE  clicks' \in 0..MaxClicks
  BY QueueAssumption DEF Click

LEMMA TypesOfReports ==
  ASSUME TypeInv, ToolsFound \/ PeerReports \/ ToggleOffline
  PROVE  ContextTypes'
<1> USE DEF TypeInv
<1>1. CASE ToolsFound
  <2>1. PICK tool \in Tools : SetSetup([setup EXCEPT !.tool = tool])
    BY <1>1 DEF ToolsFound
  <2>2. [setup EXCEPT !.tool = tool] \in ClientSetupState
    BY StatesAssumption DEF ContextTypes, ClientSetupState
  <2>3. QED
    BY <1>1, <2>1, <2>2, SetupTypes DEF ToolsFound, ContextTypes, secrets, repos
<1>2. CASE PeerReports
  <2>1. PICK s \in ClientSetupState : SetSetup(s)
    <3>1. \A status \in RemoteStatus : [setup EXCEPT !.remote = status] \in ClientSetupState
      BY DEF ContextTypes, ClientSetupState
    <3>2. [kopia |-> "initialized", snapshots |-> TRUE, remote |-> "reachable",
           tool |-> setup.tool] \in ClientSetupState
      BY DEF ContextTypes, ClientSetupState, RepoStatus, RemoteStatus
    <3>3. QED
      BY <1>2, <3>1, <3>2 DEF PeerReports, UpdateRemoteRepositoryState,
         UpdateKopiaRepositoryFromBackup, RemoteStatus
  <2>2. repoKey' \in [Dests -> Passwords \cup {None}]
    BY <1>2 DEF PeerReports, ContextTypes, Dests
  <2>3. clicks' \in 0..MaxClicks
    BY <1>2, Clicked DEF PeerReports, ContextTypes
  <2>4. setup' \in ClientSetupState /\ asked' \in [setup : ClientSetupState, flags : Flags]
    BY <2>1, SetupTypes
  <2>5. QED
    BY <1>2, <2>2, <2>3, <2>4 DEF PeerReports, ContextTypes, secrets
<1>3. ASSUME ToggleOffline
      PROVE  ContextTypes'
  <2>1. flags.offline \in BOOLEAN
    BY DEF ContextTypes, Flags
  <2>2. flags' \in Flags /\ raced' \in BOOLEAN
    BY <1>3, <2>1, FlagTypes DEF ToggleOffline
  <2>3. asked' \in [setup : ClientSetupState, flags : Flags] /\ setup' = setup
    BY <1>3, <2>2 DEF ToggleOffline, Recheck, ContextTypes
  <2>4. clicks' \in 0..MaxClicks
    BY <1>3, Clicked DEF ToggleOffline, ContextTypes
  <2>5. QED
    BY <1>3, <2>2, <2>3, <2>4 DEF ToggleOffline, ContextTypes, secrets, repos
<1>4. QED
  BY <1>1, <1>2, <1>3

\* A page as it is mounted.
LEMMA NewPageTypes ==
  /\ NewWizard \in Wizard
  /\ NewPlan \in Plan
  /\ NewRecovery \in Recovery
  /\ InitialSteps \in [LabCommands -> StepResult]
<1>1. NewWizard \in Wizard
  <2>1. Len(Steps) = 4 /\ INITIAL_DRAFT \in SetupDraftConfig
    BY DEF Steps, INITIAL_DRAFT, SetupDraftConfig
  <2>2. QED
    BY <2>1 DEF NewWizard, Wizard
<1>2. NewPlan \in Plan
  BY DEF NewPlan, Plan
<1>3. NewRecovery \in Recovery
  BY DEF NewRecovery, Recovery, Modes
<1>4. InitialSteps \in [LabCommands -> StepResult]
  BY DEF InitialSteps, StepResult
<1>5. QED
  BY <1>1, <1>2, <1>3, <1>4

\* Who changes none of these, or only asks.
LEMMA TypesKept ==
  ASSUME ContextTypes,
         UNCHANGED <<page, timers, setup, flags, asked, jobs, jobState, passwordSet, raced,
                     memory, keychain, repoKey, connected, fresh>>,
         Click \/ UNCHANGED clicks
  PROVE  ContextTypes'
<1>1. clicks' \in 0..MaxClicks
  BY Clicked DEF ContextTypes
<1>2. QED
  BY <1>1 DEF ContextTypes

LEMMA TypesOfWizard ==
  ASSUME TypeInv, WizardSteps
  PROVE  ContextTypes' /\ wizard' \in Wizard
<1> USE DEF TypeInv
<1>1. CASE EditSourceFolders \/ HandlePresetPeer \/ ClearPeerTarget \/ EditRetention \/ Prev
           \/ NextStep \/ AddAnother
  <2>1. ContextTypes'
    BY <1>1, TypesKept DEF EditSourceFolders, HandlePresetPeer, ClearPeerTarget,
       EditRetention, Prev, NextStep, AddAnother, context, ui, secrets, repos
  <2>2. wizard \in Wizard /\ Len(Steps) = 4
    BY DEF PageTypes, Steps
  <2>3. wizard' \in Wizard
    <3>1. CASE EditSourceFolders
      BY <2>2, <3>1 DEF EditSourceFolders, Wizard, SetupDraftConfig
    <3>2. CASE HandlePresetPeer \/ ClearPeerTarget
      BY <2>2, <3>2 DEF HandlePresetPeer, ClearPeerTarget, Wizard, SetupDraftConfig, Dests
    <3>3. CASE Prev \/ NextStep
      <4>1. wizard.step \in 1..4
        BY <2>2 DEF Wizard
      <4>2. \A n \in 1..4 : [wizard EXCEPT !.step = n] \in Wizard
        BY <2>2 DEF Wizard
      <4>3. CASE Prev
        <5>1. wizard.step - 1 \in 1..4
          BY <4>1, <4>3 DEF Prev, CanGoBack
        <5>2. QED
          BY <4>2, <4>3, <5>1 DEF Prev
      <4>4. CASE NextStep
        <5>1. wizard.step + 1 \in 1..4
          BY <2>2, <4>1, <4>4 DEF NextStep
        <5>2. QED
          BY <4>2, <4>4, <5>1 DEF NextStep
      <4>5. QED
        BY <3>3, <4>3, <4>4
    <3>4. CASE EditRetention
      BY <2>2, <3>4 DEF EditRetention, Wizard, SetupDraftConfig
    <3>5. CASE AddAnother
      BY <3>5, NewPageTypes DEF AddAnother
    <3>6. QED
      BY <1>1, <3>1, <3>2, <3>3, <3>4, <3>5
  <2>4. QED
    BY <2>1, <2>3
<1>2. CASE Save
  <2>1. ContextTypes'
    BY <1>2, TypesKept DEF Save, Request, Ask, context, ui, secrets, repos
  <2>2. wizard' \in Wizard
    BY <1>2 DEF Save, PageTypes, Wizard
  <2>3. QED
    BY <2>1, <2>2
<1>3. CASE Validated
  <2>1. arg \in SetupDraftConfig /\ SafetyCheck(arg)
    BY <1>3, ArgIsAllowed DEF Validated, Queried, GoesOn, Answered, Allowed
  <2>2. wizard' \in Wizard
    BY <1>3, NewPageTypes DEF Validated, PageTypes, Wizard
  <2>3. CASE Applied(arg)
    BY <2>1, <2>2, <2>3, JobTypes DEF Applied, ContextTypes, secrets, repos
  <2>4. CASE Rejected
    BY <2>2, <2>4, TypesKept DEF Rejected, ui, secrets, repos
  <2>5. QED
    BY <1>3, <2>2, <2>3, <2>4 DEF Validated
<1>4. QED
  BY <1>1, <1>2, <1>3 DEF WizardSteps

LEMMA TypesOfPlan ==
  ASSUME TypeInv, PlanSteps
  PROVE  ContextTypes' /\ plan' \in Plan
<1> USE DEF TypeInv
<1>1. ASSUME NEW d \in Dests, RunBackup(d)
      PROVE  ContextTypes' /\ plan' \in Plan
  <2>1. clicks' \in 0..MaxClicks
    BY <1>1, Clicked DEF RunBackup, Request, Ask, ContextTypes
  <2>2. jobState' \in [Dests -> JobState] /\ fresh' \subseteq Dests
    BY <1>1 DEF RunBackup, TriggerRepoBackup, ContextTypes, JobState
  <2>3. QED
    BY <1>1, <2>1, <2>2 DEF RunBackup, ContextTypes, PageTypes, secrets
<1>2. CASE EditForm
  <2>1. ContextTypes'
    BY <1>2, TypesKept DEF EditForm, context, ui, secrets, repos
  <2>2. QED
    BY <1>2, <2>1 DEF EditForm, PageTypes, Plan
<1>3. CASE RunJob
  <2>1. clicks' \in 0..MaxClicks
    BY <1>3, Clicked DEF RunJob, Request, Ask, ContextTypes
  <2>2. plan' \in Plan
    BY <1>3 DEF RunJob, PageTypes, Plan
  <2>3. QED
    BY <1>3, <2>1, <2>2 DEF RunJob, ContextTypes, ui, secrets
<1>4. CASE RunJobInitialised \/ RunJobBackedUp
  <2>1. arg \in Folders
    BY <1>4, ArgIsAllowed DEF RunJobInitialised, RunJobBackedUp, GoesOn, Answered, Allowed
  <2>2. plan' \in Plan
    BY <1>4, <2>1 DEF RunJobInitialised, RunJobBackedUp, JobFailed, PageTypes, Plan
  <2>3. QED
    BY <1>4, <2>2, TypesKept DEF RunJobInitialised, RunJobBackedUp, ui, secrets, repos
<1>5. QED
  BY <1>1, <1>2, <1>3, <1>4 DEF PlanSteps

LEMMA TypesOfRecovery ==
  ASSUME TypeInv, RecoverySteps
  PROVE  ContextTypes' /\ recovery' \in Recovery
<1> USE DEF TypeInv
<1>1. recovery' \in Recovery
  BY DEF RecoverySteps, SetMode, HandleSave, HandleChange, Submit, HandleRevoke,
     PasswordRun, KeychainFound, KeychainLoaded, PasswordSaved, FormFailed,
     PasswordVerified, PasswordCleared, PageTypes, Recovery, Modes
<1>2. CASE (\E mode \in Modes : SetMode(mode)) \/ HandleSave \/ HandleChange \/ HandleRevoke
  BY <1>1, <1>2, TypesKept DEF SetMode, HandleSave, HandleChange, Submit, HandleRevoke,
     Request, Ask, context, ui, secrets, repos
<1>3. CASE KeychainFound \/ PasswordVerified
  BY <1>1, <1>3, TypesKept DEF KeychainFound, PasswordVerified, NoPasswordChange, Rest,
     secrets, repos
<1>4. CASE KeychainLoaded \/ PasswordSaved \/ PasswordCleared
  <2>1. (\E v \in BOOLEAN : SetMasterPasswordSet(v)) \/ NoPasswordChange
    BY <1>4 DEF KeychainLoaded, PasswordSaved, PasswordCleared
  <2>2. /\ passwordSet' \in BOOLEAN
        /\ flags' \in Flags /\ raced' \in BOOLEAN
        /\ setup' = setup
        /\ asked' \in [setup : ClientSetupState, flags : Flags]
    BY <2>1, PasswordFlagTypes DEF NoPasswordChange, ContextTypes
  <2>3. Rest
    BY <1>4 DEF KeychainLoaded, PasswordSaved, PasswordCleared
  <2>4. QED
    BY <1>1, <2>2, <2>3 DEF Rest, ContextTypes, secrets, repos
<1>5. CASE PasswordRun
  <2>1. calls # <<>> /\ Head(calls).cmd = "set_password" => arg \in Passwords
    BY ArgIsAllowed DEF Allowed
  <2>2. memory' \in Passwords \cup {None} /\ keychain' \in Passwords \cup {None}
    BY <1>5, <2>1 DEF PasswordRun, Run, Answered, ContextTypes, secrets
  <2>3. QED
    BY <1>1, <1>5, <2>2 DEF PasswordRun, ContextTypes, ui, repos
<1>6. QED
  BY <1>2, <1>3, <1>4, <1>5 DEF RecoverySteps

LEMMA TypesOfLabPages ==
  ASSUME TypeInv, LabSteps
  PROVE  ContextTypes' /\ steps' \in [LabCommands -> StepResult] /\ drillPage' \in DrillPage
<1> USE DEF TypeInv
<1>1. steps' \in [LabCommands -> StepResult]
  <2>1. ASSUME NEW cmd \in LabCommands, StartStep(cmd) \/ StepFailed(cmd)
        PROVE  steps' \in [LabCommands -> StepResult]
    BY <2>1 DEF StartStep, Started, StepFailed, Ended, PageTypes, StepResult
  <2>2. CASE HandleRunDrill \/ LabRun \/ DrillRun \/ HealthReported
    BY <2>2 DEF HandleRunDrill, LabRun, DrillRun, HealthReported, PageTypes
  <2>3. CASE ToolsProbed \/ LabCreated \/ LabBackedUp \/ TransportPrepared
             \/ RepositoryChecked \/ RestoreDrilled
    <3>1. PICK cmd \in LabCommands : Ended(cmd, "done")
      BY <2>3 DEF ToolsProbed, LabCreated, LabBackedUp, TransportPrepared,
         RepositoryChecked, RestoreDrilled, LabCommands
    <3>2. QED
      BY <3>1 DEF Ended, PageTypes, StepResult
  <2>4. QED
    BY <2>1, <2>2, <2>3 DEF LabSteps
<1>2. drillPage' \in DrillPage
  BY DEF LabSteps, LabRun, StartStep, StepFailed, HandleRunDrill, ToolsProbed, LabCreated,
     LabBackedUp, TransportPrepared, RepositoryChecked, RestoreDrilled, DrillRun,
     HealthReported, PageTypes, DrillPage, Results
<1>3. CASE (\E cmd \in LabCommands : StartStep(cmd)) \/ HandleRunDrill \/ LabRun
  BY <1>1, <1>2, <1>3, TypesKept DEF StartStep, HandleRunDrill, LabRun, Request, Ask,
     ui, secrets, repos
<1>4. CASE RestOfLab
  <2>1. setup' \in ClientSetupState /\ asked' \in [setup : ClientSetupState, flags : Flags]
    <3>1. CASE UNCHANGED <<setup, asked>>
      BY <3>1 DEF ContextTypes
    <3>2. ASSUME NEW result \in {"passed", "failed"}, UpdateHealthFromCheckResult(result)
          PROVE  \E s \in ClientSetupState : SetSetup(s)
      BY <3>2 DEF UpdateHealthFromCheckResult, ContextTypes, ClientSetupState, RepoStatus
    <3>3. (UNCHANGED <<setup, asked>>)
          \/ \E result \in {"passed", "failed"} : UpdateHealthFromCheckResult(result)
      BY DEF LabSteps, LabRun, StartStep, StepFailed, HandleRunDrill, ToolsProbed,
         LabCreated, LabBackedUp, TransportPrepared, RepositoryChecked, RestoreDrilled,
         DrillRun, HealthReported, Drilled, NoHealth, ui
    <3>4. QED
      BY <3>1, <3>2, <3>3, SetupTypes
  <2>2. QED
    BY <1>1, <1>2, <1>4, <2>1 DEF RestOfLab, ContextTypes, secrets, repos
<1>5. QED
  BY <1>3, <1>4 DEF LabSteps, StepFailed, ToolsProbed, LabCreated, LabBackedUp,
     TransportPrepared, RepositoryChecked, RestoreDrilled, DrillRun, HealthReported

LEMMA TypesOfHealthPages ==
  ASSUME TypeInv, HealthSteps
  PROVE  ContextTypes' /\ refreshing' \in BOOLEAN
<1> USE DEF TypeInv
<1>1. CASE HandleRefresh
  BY <1>1, TypesKept DEF HandleRefresh, Request, Ask, ui, secrets, repos
<1>2. CASE Refreshed
  <2>1. arg \in [setup : ClientSetupState, flags : Flags]
    BY <1>2, ArgIsAllowed DEF Refreshed, Queried, GoesOn, Answered, Allowed
  <2>2. asked' \in [setup : ClientSetupState, flags : Flags]
    BY <1>2, <2>1 DEF Refreshed, RefreshReadiness, ContextTypes
  <2>3. refreshing' \in BOOLEAN
    BY <1>2 DEF Refreshed, PageTypes
  <2>4. QED
    BY <1>2, <2>2, <2>3 DEF Refreshed, ContextTypes, secrets, repos
<1>3. QED
  BY <1>1, <1>2 DEF HealthSteps

\* A page that is not shown has its initial state.
LEMMA TypesOfUnmount ==
  ASSUME Unmount, realLab' \in RealLabState
  PROVE  PageTypes'
<1>1. drillPage' \in DrillPage /\ refreshing' = FALSE
  BY DEF Unmount, DrillPage, RealLabState
<1>2. QED
  BY <1>1, NewPageTypes DEF Unmount, PageTypes

LEMMA TypesOfRestart ==
  ASSUME ContextTypes, Restart
  PROVE  ContextTypes'
<1>1. PICK status \in Probes(jobs) : SetSetup(StartSetup(jobs, status))
  BY DEF Restart
<1>2. StartSetup(jobs, status) \in ClientSetupState
  BY DEF StartSetup, Probes, ClientSetupState, RepoStatus, RemoteStatus, ToolStatus
<1>3. setup' \in ClientSetupState /\ asked' \in [setup : ClientSetupState, flags : Flags]
  BY <1>1, <1>2, SetupTypes
<1>4. memory' \in Passwords \cup {None} /\ passwordSet' \in BOOLEAN
  BY DEF Restart, Loads, ContextTypes
<1>5. clicks' \in 0..MaxClicks
  BY Clicked DEF Restart, ContextTypes
<1>6. jobState' \in [Dests -> JobState] /\ page' \in Pages
  BY DEF Restart, JobState, Pages
<1>7. QED
  BY <1>3, <1>4, <1>5, <1>6 DEF Restart, ContextTypes, repos

LEMMA TypesAtStart == Init => TypeInv
<1> SUFFICES ASSUME Init
             PROVE  TypeInv
  OBVIOUS
<1>1. PICK status \in Probes(jobs) : setup = StartSetup(jobs, status)
  BY DEF Init, ContextInit
<1>2. setup \in ClientSetupState
  BY <1>1 DEF StartSetup, Probes, ClientSetupState, RepoStatus, RemoteStatus, ToolStatus
<1>3. flags \in Flags /\ asked = Merged
  BY DEF Init, ContextInit, Flags
<1>4. jobs \in Seq(SetupDraftConfig)
  <2>1. CASE jobs = <<>>
    BY <2>1
  <2>2. ASSUME NEW d \in Dests, jobs = <<Job(d)>>
        PROVE  jobs \in Seq(SetupDraftConfig)
    <3>1. Job(d) \in SetupDraftConfig
      BY DEF Job, SetupDraftConfig
    <3>2. QED
      BY <2>2, <3>1
  <2>3. QED
    BY <2>1, <2>2 DEF Init, ContextInit
<1>5. /\ memory \in Passwords \cup {None} /\ keychain \in Passwords \cup {None}
      /\ repoKey \in [Dests -> Passwords \cup {None}]
      /\ connected \in Folders \cup {None}
  BY DEF Init, ContextInit, Loads
<1>6. jobState \in [Dests -> JobState] /\ clicks \in 0..MaxClicks /\ page \in Pages
  BY QueueAssumption DEF Init, ContextInit, JobState, Pages
<1>7. ContextTypes
  <2>1. asked \in [setup : ClientSetupState, flags : Flags]
    BY <1>2, <1>3 DEF Merged
  <2>2. /\ timers = {} /\ fresh = {} /\ raced = FALSE
        /\ passwordSet \in BOOLEAN
    BY DEF Init, ContextInit
  <2>3. QED
    BY <1>2, <1>3, <1>4, <1>5, <1>6, <2>1, <2>2 DEF ContextTypes
<1>8. PageTypes
  <2>1. drillPage \in DrillPage
    BY DEF Init, DrillPage, Results
  <2>2. QED
    BY <2>1, NewPageTypes DEF Init, PageTypes
<1>9. AnswerInv
  BY DEF Init, ContextInit, AnswerInv, Answers, Results
<1>10. QED
  BY <1>7, <1>8, <1>9, StartupIsQueued DEF TypeInv, Init, ContextInit

LEMMA TypesStep ==
  ASSUME TypeInv, LabInv', [Next]_vars
  PROVE  TypeInv'
<1> SUFFICES ContextTypes' /\ PageTypes'
  BY QueueStep, AnswerStep DEF TypeInv
<1>1. ASSUME NEW path, Navigate(path)
      PROVE  ContextTypes' /\ PageTypes'
  <2>1. page' \in Pages \cup {None}
    BY <1>1 DEF Navigate, Routed, Pages
  <2>2. ContextTypes'
    BY <1>1, <2>1 DEF Navigate, TypeInv, ContextTypes, ui, secrets, repos
  <2>3. PageTypes'
    BY <1>1, TypesOfUnmount DEF Navigate, LabInv
  <2>4. QED
    BY <2>2, <2>3
<1>2. CASE Restart /\ Unmount
  BY <1>2, TypesOfRestart, TypesOfUnmount DEF TypeInv, LabInv
<1>3. CASE Context
  BY <1>3, TypesOfRuns, TypesOfJobs, TypesOfReports DEF Context, ContextSteps, TypeInv,
     PageTypes
<1>4. CASE SetupWizard
  BY <1>4, TypesOfWizard DEF SetupWizard, TypeInv, PageTypes
<1>5. CASE BackupPlan
  BY <1>5, TypesOfPlan DEF BackupPlan, TypeInv, PageTypes
<1>6. CASE RecoveryKey
  BY <1>6, TypesOfRecovery DEF RecoveryKey, TypeInv, PageTypes
<1>7. CASE Labs
  BY <1>7, TypesOfLabPages DEF Labs, TypeInv, PageTypes
<1>8. CASE HealthChecks
  BY <1>8, TypesOfHealthPages DEF HealthChecks, TypeInv, PageTypes
<1>9. CASE UNCHANGED vars
  BY <1>9 DEF vars, context, ui, secrets, repos, TypeInv, ContextTypes, PageTypes
<1>10. QED
  BY <1>1, <1>2, <1>3, <1>4, <1>5, <1>6, <1>7, <1>8, <1>9 DEF Next

\* Context, pages and commands under way keep their types, and each command is asked with
\* what it needs, for any jobs, passwords and bounds; and so does the lab.
LEMMA TypesAndLab == Spec => [](TypeInv /\ LabInv)
<1>1. TypeInv /\ LabInv /\ [Next]_vars => TypeInv' /\ LabInv'
  BY TypesStep, LabStep
<1>2. QED
  BY <1>1, TypesAtStart, LabStart, PTL DEF Spec

LEMMA TypesAlways == Spec => []TypeInv
  BY TypesAndLab, PTL

LEMMA LabInvariant == Spec => []LabInv
  BY TypesAndLab, PTL

THEOREM TypeCorrect == Spec => []TypeOK
<1>1. TypeInv /\ LabInv => TypeOK
  <2> SUFFICES ASSUME TypeInv, LabInv
               PROVE  TypeOK
    OBVIOUS
  <2>1. calls \in Seq(Call)
    BY SeqMonotonic DEF TypeInv, Queued, Sent
  <2>2. QED
    BY <2>1 DEF TypeInv, AnswerInv, ContextTypes, PageTypes, LabInv, TypeOK
<1>2. QED
  BY <1>1, TypesAlways, LabInvariant, PTL

\* Whatever overlaps, the results of the test lab that the pages show are those of the
\* lab that the Rust process has.
THEOREM LabIsShown == Spec => []LabShownIsTheLab
<1>1. LabInv => LabShownIsTheLab
  BY DEF LabInv
<1>2. QED
  BY <1>1, LabInvariant, PTL

\* A failed drill is critical at once and blocks Protected status until another drill
\* passes, whatever report or host status comes in between (HealthChecks.tsx).
THEOREM DrillBlocks == Spec => []FailedDrillBlocks
<1>1. LabInv => FailedDrillBlocks
  <2> SUFFICES ASSUME LabInv, realLab.drill = "failed"
               PROVE  DrillLevel = "critical" /\ ~Protected
    BY DEF FailedDrillBlocks
  <2>1. ~health.drill
    BY DEF LabInv
  <2>2. DrillLevel = "critical"
    BY <2>1 DEF DrillLevel
  <2>3. ~Protected
    BY <2>1 DEF Protected, GateChecks
  <2>4. QED
    BY <2>2, <2>3
<1>2. QED
  BY <1>1, LabInvariant, PTL
-----------------------------------------------------------------------------
PasswordCommands == {"load_keychain", "set_password", "clear_password"}

\* What a command that has run on the password has made of memory.
PasswordInv ==
  /\ PasswordShownIsHeld
  /\ HasRun({"load_keychain", "set_password"}) => memory # None

\* Who touches neither the password nor what has run of its commands.
LEMMA PasswordKept ==
  ASSUME PasswordInv, UNCHANGED <<passwordSet, memory>>,
         \A cmds \in SUBSET PasswordCommands : HasRun(cmds)' <=> HasRun(cmds)
  PROVE  PasswordInv'
<1>1. /\ {"clear_password"} \in SUBSET PasswordCommands
      /\ {"load_keychain", "set_password"} \in SUBSET PasswordCommands
  BY DEF PasswordCommands
<1>2. QED
  BY <1>1 DEF PasswordInv, PasswordShownIsHeld

LEMMA PasswordLeftAlone ==
  ASSUME TypeInv, PasswordInv, UNCHANGED <<passwordSet, memory>>,
         NEW own, AnswerGoesOn(own), PasswordCommands \cap own = {}
  PROVE  PasswordInv'
<1>1. \A cmds \in SUBSET PasswordCommands : HasRun(cmds)' <=> HasRun(cmds)
  BY RunKept
<1>2. QED
  BY <1>1, PasswordKept

\* The process works on the password: between clear_master_password and the handler that
\* waits for it the page is not told, and only then.
LEMMA PasswordOfRun ==
  ASSUME TypeInv, PasswordInv, PasswordRun
  PROVE  PasswordInv'
<1>1. answer = None /\ calls # <<>> /\ UNCHANGED <<calls, passwordSet>>
  BY DEF PasswordRun, Run, Answered, ui
<1>2. passwordSet => memory # None
  BY <1>1 DEF PasswordInv, PasswordShownIsHeld, HasRun
<1>3. CASE memory' # None
  BY <1>3 DEF PasswordInv, PasswordShownIsHeld
<1>4. CASE Run("clear_password", "ok")
  <2>1. HasRun({"clear_password"})' /\ ~HasRun({"load_keychain", "set_password"})'
    BY <1>1, <1>4, ClientAssumption DEF Run, Answered, HasRun
  <2>2. QED
    BY <2>1 DEF PasswordInv, PasswordShownIsHeld
<1>5. CASE Run("load_keychain", "error") /\ UNCHANGED secrets
  BY <1>1, <1>2, <1>5 DEF Run, HasRun, PasswordInv, PasswordShownIsHeld, secrets
<1>6. CASE memory' = arg /\ Head(calls).cmd = "set_password"
  <2>1. arg # None
    BY <1>1, <1>6, ArgIsAllowed, ClientAssumption DEF Allowed, TypeInv
  <2>2. QED
    BY <1>3, <1>6, <2>1
<1>7. QED
  BY <1>3, <1>4, <1>5, <1>6 DEF PasswordRun, Run, Answered

\* The handlers that have their answer, and tell the page of what memory holds.
LEMMA PasswordOfAnswers ==
  ASSUME PasswordInv, KeychainLoaded \/ PasswordSaved \/ PasswordCleared
  PROVE  PasswordInv'
<1>1. memory' = memory /\ answer' = None
  BY DEF KeychainLoaded, PasswordSaved, PasswordCleared, Rest, Finish, secrets
<1>2. CASE SetMasterPasswordSet(FALSE)
  BY <1>1, <1>2 DEF SetMasterPasswordSet, PasswordInv, PasswordShownIsHeld, HasRun
<1>3. CASE GoesOn("load_keychain", "ok") \/ GoesOn("set_password", "ok")
  <2>1. memory # None
    BY <1>3, ClientAssumption DEF GoesOn, Answered, HasRun, PasswordInv
  <2>2. QED
    BY <1>1, <2>1 DEF PasswordInv, PasswordShownIsHeld
<1>4. CASE /\ GoesOn("load_keychain", "error") \/ GoesOn("set_password", "error")
           /\ NoPasswordChange
  <2>1. ~HasRun({"clear_password"})
    BY <1>4 DEF GoesOn, HasRun
  <2>2. QED
    BY <1>1, <1>4, <2>1 DEF NoPasswordChange, PasswordInv, PasswordShownIsHeld, HasRun
<1>5. QED
  BY <1>2, <1>3, <1>4 DEF KeychainLoaded, PasswordSaved, PasswordCleared

LEMMA PasswordOfRecovery ==
  ASSUME TypeInv, PasswordInv, RecoverySteps
  PROVE  PasswordInv'
<1>1. CASE (\E mode \in Modes : SetMode(mode)) \/ HandleSave \/ HandleChange \/ HandleRevoke
  <2>1. UNCHANGED <<passwordSet, memory>>
    BY <1>1 DEF SetMode, HandleSave, HandleChange, Submit, HandleRevoke, context, ui,
       secrets
  <2>2. AnswerGoesOn({})
    BY <1>1 DEF SetMode, HandleSave, HandleChange, Submit, HandleRevoke, Request, Ask,
       AnswerGoesOn, context
  <2>3. QED
    BY <2>1, <2>2, PasswordLeftAlone
<1>2. CASE KeychainFound \/ PasswordVerified
  <2>1. UNCHANGED <<passwordSet, memory>>
    BY <1>2 DEF KeychainFound, PasswordVerified, NoPasswordChange, Rest, secrets
  <2>2. answer = None /\ answer' = None
    BY <1>2 DEF KeychainFound, PasswordVerified, Queried, Finish, Continue
  <2>3. QED
    BY <2>1, <2>2, PasswordKept DEF HasRun
<1>3. QED
  BY <1>1, <1>2, PasswordOfRun, PasswordOfAnswers DEF RecoverySteps

LEMMA OthersLeaveThePassword ==
  /\ PasswordCommands \cap ContextCommands = {}
  /\ PasswordCommands \cap WizardCommands = {}
  /\ PasswordCommands \cap PlanCommands = {}
  /\ PasswordCommands \cap LabPageCommands = {}
  /\ PasswordCommands \cap HealthCommands = {}
  BY DEF PasswordCommands, ContextCommands, JobCommands, WizardCommands, PlanCommands,
     LabPageCommands, LabCommands, HealthCommands

LEMMA PasswordOfOtherSteps ==
  ASSUME TypeInv, PasswordInv,
         ContextSteps \/ WizardSteps \/ PlanSteps \/ LabSteps \/ HealthSteps
  PROVE  PasswordInv'
<1>1. CASE ContextSteps
  <2>1. UNCHANGED <<passwordSet, memory>>
    BY <1>1 DEF ContextSteps, ToolsFound, TimerFires, RestOfRun, JobInitialised,
       JobBackedUp, RestOfJobs, PeerReports, ToggleOffline, ui, secrets
  <2>2. QED
    BY <1>1, <2>1, AnswerOfContext, OthersLeaveThePassword, PasswordLeftAlone
<1>2. CASE WizardSteps
  <2>1. UNCHANGED <<passwordSet, memory>>
    BY <1>2 DEF WizardSteps, EditSourceFolders, HandlePresetPeer, ClearPeerTarget,
       EditRetention, Prev, NextStep, Save, Validated, Applied, Rejected, AddAnother,
       context, ui, secrets
  <2>2. QED
    BY <1>2, <2>1, AnswerOfWizard, OthersLeaveThePassword, PasswordLeftAlone
<1>3. CASE PlanSteps
  <2>1. UNCHANGED <<passwordSet, memory>>
    BY <1>3 DEF PlanSteps, RunBackup, EditForm, RunJob, RunJobInitialised, RunJobBackedUp,
       context, ui, secrets
  <2>2. QED
    BY <1>3, <2>1, AnswerOfPlan, OthersLeaveThePassword, PasswordLeftAlone
<1>4. CASE LabSteps
  <2>1. UNCHANGED <<passwordSet, memory>>
    BY <1>4 DEF LabSteps, StartStep, StepFailed, HandleRunDrill, LabRun, ToolsProbed,
       LabCreated, LabBackedUp, TransportPrepared, RepositoryChecked, RestoreDrilled,
       DrillRun, HealthReported, RestOfLab, ui, secrets
  <2>2. QED
    BY <1>4, <2>1, AnswerOfLabPages, OthersLeaveThePassword, PasswordLeftAlone
<1>5. CASE HealthSteps
  <2>1. UNCHANGED <<passwordSet, memory>>
    BY <1>5 DEF HealthSteps, HandleRefresh, Refreshed, ui, secrets
  <2>2. QED
    BY <1>5, <2>1, AnswerOfHealthPages, OthersLeaveThePassword, PasswordLeftAlone
<1>6. QED
  BY <1>1, <1>2, <1>3, <1>4, <1>5

\* "Master password set - all backup operations unlocked" is only said while the Rust
\* process holds a password, or has just been told to forget it and the handler that asked
\* for that has not gone on: for any number of calls and clicks.
THEOREM PasswordIsHeld == Spec => []PasswordShownIsHeld
<1>1. Init => PasswordInv
  BY DEF Init, ContextInit, PasswordInv, PasswordShownIsHeld, HasRun
<1>2. TypeInv /\ PasswordInv /\ [Next]_vars => PasswordInv'
  <2> SUFFICES ASSUME TypeInv, PasswordInv, [Next]_vars
               PROVE  PasswordInv'
    OBVIOUS
  <2>1. CASE Restart
    BY <2>1 DEF Restart, PasswordInv, PasswordShownIsHeld, HasRun
  <2>2. CASE RecoveryKey
    BY <2>2, PasswordOfRecovery DEF RecoveryKey
  <2>3. CASE Context \/ SetupWizard \/ BackupPlan \/ Labs \/ HealthChecks
    BY <2>3, PasswordOfOtherSteps DEF Context, SetupWizard, BackupPlan, Labs, HealthChecks
  <2>4. ASSUME NEW path, Navigate(path)
        PROVE  PasswordInv'
    BY <2>4, RunKeptInNavigation, PasswordKept DEF Navigate, ui, secrets
  <2>5. CASE UNCHANGED vars
    BY <2>5, PasswordKept DEF vars, context, ui, secrets, HasRun
  <2>6. QED
    BY <2>1, <2>2, <2>3, <2>4, <2>5 DEF Next
<1>3. PasswordInv => PasswordShownIsHeld
  BY DEF PasswordInv
<1>4. QED
  BY <1>1, <1>2, <1>3, TypesAlways, PTL DEF Spec
-----------------------------------------------------------------------------
\* Only an answer to the wizard changes the jobs.
LEMMA JobsUnchanged ==
  ASSUME [Next]_vars, ~Validated
  PROVE  jobs' = jobs
<1>1. CASE ContextSteps
  BY <1>1 DEF ContextSteps, ToolsFound, TimerFires, RestOfRun, JobInitialised,
     JobBackedUp, RestOfJobs, PeerReports, ToggleOffline, ui
<1>2. CASE WizardSteps
  BY <1>2 DEF WizardSteps, EditSourceFolders, HandlePresetPeer, ClearPeerTarget,
     EditRetention, Prev, NextStep, Save, AddAnother, context, ui
<1>3. CASE PlanSteps
  BY <1>3 DEF PlanSteps, RunBackup, EditForm, RunJob, RunJobInitialised, RunJobBackedUp,
     context, ui
<1>4. CASE RecoverySteps
  BY <1>4 DEF RecoverySteps, SetMode, HandleSave, HandleChange, Submit, HandleRevoke,
     PasswordRun, KeychainFound, KeychainLoaded, PasswordSaved, PasswordVerified,
     PasswordCleared, Rest, context, ui
<1>5. CASE LabSteps
  BY <1>5 DEF LabSteps, StartStep, StepFailed, HandleRunDrill, LabRun, ToolsProbed,
     LabCreated, LabBackedUp, TransportPrepared, RepositoryChecked, RestoreDrilled,
     DrillRun, HealthReported, RestOfLab, ui
<1>6. CASE HealthSteps
  BY <1>6 DEF HealthSteps, HandleRefresh, Refreshed, ui
<1>7. CASE Restart \/ \E path \in Links : Navigate(path)
  BY <1>7 DEF Restart, Navigate, ui
<1>8. CASE UNCHANGED vars
  BY <1>8 DEF vars, context, ui
<1>9. QED
  BY <1>1, <1>2, <1>3, <1>4, <1>5, <1>6, <1>7, <1>8 DEF Next, Context, SetupWizard,
     BackupPlan, RecoveryKey, Labs, HealthChecks

\* No job is ever kept whose configuration did not pass the wizard's safety check,
\* whatever became of the draft while it was validated.
THEOREM JobsStaySafe == Spec => []JobsAreSafe
<1> DEFINE Safe == {a \in SetupDraftConfig : SafetyCheck(a)}
           JobsInv == jobs \in Seq(Safe)
<1>1. Init => JobsInv
  <2> SUFFICES ASSUME Init
               PROVE  jobs \in Seq(Safe)
    OBVIOUS
  <2>1. CASE jobs = <<>>
    BY <2>1
  <2>2. ASSUME NEW d \in Dests, jobs = <<Job(d)>>
        PROVE  jobs \in Seq(Safe)
    <3>1. Job(d) \in Safe
      BY ClientAssumption DEF Job, SafetyCheck, Dests, SetupDraftConfig
    <3>2. QED
      BY <2>2, <3>1
  <2>3. QED
    BY <2>1, <2>2 DEF Init, ContextInit
<1>2. TypeInv /\ JobsInv /\ [Next]_vars => JobsInv'
  <2> SUFFICES ASSUME TypeInv, jobs \in Seq(Safe), [Next]_vars
               PROVE  jobs' \in Seq(Safe)
    OBVIOUS
  <2>1. CASE Validated
    <3>1. arg \in Safe
      BY <2>1, ArgIsAllowed DEF Validated, Queried, GoesOn, Answered, Allowed, TypeInv
    <3>2. CASE ApplyWizardConfig(arg)
      <4> HIDE DEF Safe
      <4>1. QED
        BY <3>1, <3>2, JobApplied
    <3>3. CASE jobs' = jobs
      BY <3>3
    <3>4. QED
      BY <2>1, <3>2, <3>3 DEF Validated, Applied, Rejected, ui
  <2>2. CASE ~Validated
    BY <2>2, JobsUnchanged
  <2>3. QED
    BY <2>1, <2>2
<1>3. JobsInv => JobsAreSafe
  <2> SUFFICES ASSUME jobs \in Seq(Safe), NEW i \in 1..Len(jobs)
               PROVE  SafetyCheck(jobs[i])
    BY DEF JobsAreSafe
  <2>1. jobs[i] \in Safe
    BY ElementOfSeq
  <2>2. QED
    BY <2>1
<1>4. QED
  BY <1>1, <1>2, <1>3, TypesAlways, PTL DEF Spec
-----------------------------------------------------------------------------
(***************************************************************************)
(* The readiness.  A refresh under way is asked with the flags there are,  *)
(* as long as none was switched since.                                     *)
(***************************************************************************)
ReadyInv ==
  ~raced => /\ asked = Merged
            /\ \A c \in Under(calls) : c.cmd = "refresh" => c.arg.flags = flags

\* The flags are left alone, and the readiness is asked for if the setup state changes.
LEMMA ReadyKept ==
  ASSUME ReadyInv, NoNewRefresh, UNCHANGED <<flags, raced>>,
         (UNCHANGED <<setup, asked>>) \/ asked' = [setup |-> setup', flags |-> flags']
  PROVE  ReadyInv'
  BY DEF ReadyInv, NoNewRefresh, Merged

\* A flag is switched: no refresh is under way, or it counts as a race.
LEMMA ReadySwitched ==
  ASSUME TypeInv, NoNewRefresh, NEW name, NEW value, SetFlag(name, value), Recheck
  PROVE  ReadyInv'
<1>1. ASSUME ~raced'
      PROVE  \A c \in Under(calls) : c.cmd # "refresh"
  BY <1>1 DEF SetFlag, Under
<1>2. asked' = [setup |-> setup', flags |-> flags']
  BY DEF Recheck
<1>3. QED
  BY <1>1, <1>2 DEF ReadyInv, NoNewRefresh, Merged

LEMMA ReadyOfContext ==
  ASSUME TypeInv, ReadyInv, ContextSteps
  PROVE  ReadyInv'
<1>1. NoNewRefresh
  BY QueueOfContext DEF QueueGoesOn
<1>2. CASE ToolsFound \/ PeerReports
  BY <1>1, <1>2, ReadyKept DEF ToolsFound, PeerReports, UpdateRemoteRepositoryState,
     UpdateKopiaRepositoryFromBackup, SetSetup
<1>3. CASE TimerFires \/ (RepositoryRun /\ RestOfRun) \/ JobInitialised \/ JobBackedUp
  BY <1>1, <1>3, ReadyKept DEF TimerFires, RestOfRun, JobInitialised, JobBackedUp,
     RestOfJobs, ui
<1>4. ASSUME ToggleOffline
      PROVE  ReadyInv'
  BY <1>1, <1>4, ReadySwitched DEF ToggleOffline
<1>5. QED
  BY <1>2, <1>3, <1>4 DEF ContextSteps

LEMMA ReadyOfWizardAndPlan ==
  ASSUME TypeInv, ReadyInv, WizardSteps \/ PlanSteps
  PROVE  ReadyInv'
<1>1. NoNewRefresh
  BY QueueOfWizard, QueueOfPlan DEF QueueGoesOn
<1>2. CASE WizardSteps
  BY <1>1, <1>2, ReadyKept DEF WizardSteps, EditSourceFolders, HandlePresetPeer,
     ClearPeerTarget, EditRetention, Prev, NextStep, Save, Validated, Applied,
     ApplyWizardConfig, SetSetup, Rejected, AddAnother, context, ui
<1>3. CASE PlanSteps
  BY <1>1, <1>3, ReadyKept DEF PlanSteps, RunBackup, EditForm, RunJob, RunJobInitialised,
     RunJobBackedUp, context, ui
<1>4. QED
  BY <1>2, <1>3

LEMMA ReadyOfRecovery ==
  ASSUME TypeInv, ReadyInv, RecoverySteps
  PROVE  ReadyInv'
<1>1. NoNewRefresh
  BY QueueOfRecovery DEF QueueGoesOn
<1>2. CASE UNCHANGED <<setup, flags, asked, raced>>
  BY <1>1, <1>2, ReadyKept
<1>3. CASE \E v \in BOOLEAN : SetMasterPasswordSet(v)
  BY <1>1, <1>2, <1>3, ReadySwitched DEF SetMasterPasswordSet
<1>4. QED
  BY <1>2, <1>3 DEF RecoverySteps, SetMode, HandleSave, HandleChange, Submit,
     HandleRevoke, PasswordRun, KeychainFound, KeychainLoaded, PasswordSaved,
     PasswordVerified, PasswordCleared, NoPasswordChange, context, ui

LEMMA ReadyOfLabPages ==
  ASSUME TypeInv, ReadyInv, LabSteps
  PROVE  ReadyInv'
<1>1. NoNewRefresh
  BY QueueOfLabPages DEF QueueGoesOn
<1>2. (UNCHANGED <<setup, asked>>) \/ asked' = [setup |-> setup', flags |-> flags]
  BY DEF LabSteps, StartStep, StepFailed, HandleRunDrill, LabRun, ToolsProbed, LabCreated,
     LabBackedUp, TransportPrepared, RepositoryChecked, UpdateHealthFromCheckResult,
     SetSetup, RestoreDrilled, DrillRun, HealthReported, Drilled, NoHealth, ui
<1>3. UNCHANGED <<flags, raced>>
  BY DEF LabSteps, StartStep, StepFailed, HandleRunDrill, LabRun, ToolsProbed, LabCreated,
     LabBackedUp, TransportPrepared, RepositoryChecked, RestoreDrilled, DrillRun,
     HealthReported, RestOfLab, ui
<1>4. QED
  BY <1>1, <1>2, <1>3, ReadyKept

\* The answer to a refresh asks with the setup state of the moment and the flags of its
\* call, which are still those there are.
LEMMA ReadyOfHealthPages ==
  ASSUME TypeInv, ReadyInv, HealthSteps
  PROVE  ReadyInv'
<1>1. \A c \in Under(calls') : c.cmd = "refresh" => c \in Under(calls) \/ c.arg = Merged
  BY QueueOfHealthPages
<1>2. UNCHANGED <<setup, flags, raced>>
  BY DEF HealthSteps, HandleRefresh, Refreshed, ui
<1>3. Merged.flags = flags
  BY DEF Merged
<1>4. CASE HandleRefresh
  BY <1>1, <1>2, <1>3, <1>4 DEF HandleRefresh, ReadyInv, Merged, ui
<1>5. CASE Refreshed
  <2>1. calls # <<>> /\ Head(calls).cmd = "refresh"
    BY <1>5 DEF Refreshed, Queried, GoesOn, Answered
  <2>2. Head(calls) \in Under(calls)
    BY <2>1, HeadIsQueued DEF TypeInv
  <2>3. ~raced => arg.flags = flags
    BY <2>1, <2>2 DEF ReadyInv, arg
  <2>4. arg \in [setup : ClientSetupState, flags : Flags]
    BY <2>1, ArgIsAllowed DEF Allowed, TypeInv
  <2>5. asked' = [setup |-> setup, flags |-> arg.flags]
    BY <1>5, <2>4 DEF Refreshed, RefreshReadiness
  <2>6. QED
    BY <1>1, <1>2, <1>3, <2>3, <2>5 DEF ReadyInv, Merged
<1>6. QED
  BY <1>4, <1>5 DEF HealthSteps

LEMMA ReadyOfNavigate ==
  ASSUME TypeInv, ReadyInv, NEW path, Navigate(path)
  PROVE  ReadyInv'
<1>1. ASSUME NEW c \in Under(calls'), c.cmd = "refresh"
      PROVE  \E b \in Under(calls) : b.cmd = "refresh" /\ b.arg = c.arg
  <2>1. PICK b \in Under(calls) : c = [b EXCEPT !.here = FALSE]
    BY <1>1, QueueOfNavigate DEF TypeInv
  <2>2. b \in Sent
    BY LenProperties, ElementOfSeq DEF Under, TypeInv, Queued
  <2>3. QED
    BY <1>1, <2>1, <2>2 DEF Sent, Call
<1>2. UNCHANGED <<setup, flags, asked, raced>>
  BY DEF Navigate, ui
<1>3. QED
  BY <1>1, <1>2 DEF ReadyInv, Merged

LEMMA ReadyAlways == Spec => []ReadyInv
<1>1. Init => ReadyInv
  BY StartupIsQueued DEF Init, ContextInit, ReadyInv, Merged
<1>2. TypeInv /\ ReadyInv /\ [Next]_vars => ReadyInv'
  <2> SUFFICES ASSUME TypeInv, ReadyInv, [Next]_vars
               PROVE  ReadyInv'
    OBVIOUS
  <2>1. CASE Restart
    BY <2>1, StartupIsQueued DEF Restart, SetSetup, ReadyInv, Merged
  <2>2. CASE UNCHANGED vars
    BY <2>2 DEF vars, context, ui, ReadyInv, Merged
  <2>3. QED
    BY <2>1, <2>2, ReadyOfNavigate, ReadyOfContext, ReadyOfWizardAndPlan, ReadyOfRecovery,
       ReadyOfLabPages, ReadyOfHealthPages
    DEF Next, Context, SetupWizard, BackupPlan, RecoveryKey, Labs, HealthChecks
<1>3. QED
  BY <1>1, <1>2, TypesAlways, PTL DEF Spec

\* The readiness that is shown is that of the present setup state and flags, for any
\* number of refreshes and pages left before they are answered, unless a flag was
\* switched while one was under way.
THEOREM ReadinessStaysCurrent == Spec => []ReadinessIsCurrent
<1>1. ReadyInv => ReadinessIsCurrent
  BY DEF ReadyInv, ReadinessIsCurrent, Readiness, Merged
<1>2. QED
  BY <1>1, ReadyAlways, PTL
-----------------------------------------------------------------------------
(***************************************************************************)
(* The status of the jobs, against the commands under way and the          *)
(* snapshots there are.                                                    *)
(***************************************************************************)
AtWork(d) == \E c \in Under(calls) : c.arg = d /\ c.cmd \in JobCommands

\* A backup of a job to a peer is under way; and one behind the first call.
Backing(t) == \E c \in Under(calls) : c.arg = t /\ c.cmd = "sftp_backup"

BackingNext(t) ==
  \E i \in 2..Len(calls) : calls[i].arg = t /\ calls[i].cmd = "sftp_backup"

\* Once a backup has run, its job has a snapshot, or has been started again.
JobInv ==
  /\ \A t \in Targets : jobState[t] = "done" => t \in fresh \/ Backing(t)
  /\ HasRun({"sftp_backup"}) => arg \in fresh \/ BackingNext(arg)
  /\ \A d \in Dests : IsRunning(d) => AtWork(d)

\* What leaves the jobs alone, and the commands of theirs that are under way.
LEMMA JobsKept ==
  ASSUME TypeInv, JobInv, NEW cmds, Keeps(cmds), AnswerGoesOn(cmds),
         cmds \cap JobCommands = {}, jobState' = jobState, fresh \cap Targets \subseteq fresh'
  PROVE  JobInv'
<1>1. "sftp_backup" \in JobCommands
  BY DEF JobCommands
<1>2. ASSUME NEW t \in Targets, jobState'[t] = "done"
      PROVE  t \in fresh' \/ Backing(t)'
  BY <1>1, <1>2 DEF JobInv, Backing, Keeps
<1>3. ASSUME HasRun({"sftp_backup"})'
      PROVE  arg' \in fresh' \/ BackingNext(arg)'
  <2>1. HasRun({"sftp_backup"}) /\ HeadStays
    BY <1>1, <1>3, RunKept
  <2>2. arg \in Targets /\ arg' = arg /\ calls # <<>>
    BY <2>1, ArgIsAllowed DEF HasRun, HeadStays, Allowed, TypeInv
  <2>3. BackingNext(arg) => BackingNext(arg)'
    BY <2>1, <2>2 DEF HeadStays, BackingNext
  <2>4. QED
    BY <2>1, <2>2, <2>3 DEF JobInv
<1>4. ASSUME NEW d \in Dests, IsRunning(d)'
      PROVE  AtWork(d)'
  BY <1>4 DEF JobInv, IsRunning, AtWork, Keeps
<1>5. QED
  BY <1>2, <1>3, <1>4 DEF JobInv

\* A backup is started: by the timer, or by the button of a card.
LEMMA JobTriggered ==
  ASSUME TypeInv, JobInv, NEW d \in Dests, TriggerRepoBackup(d), answer' = answer,
         calls' = Append(calls, NewCall(Triggered(d), d))
  PROVE  JobInv'
<1>1. /\ Under(calls') = Under(calls) \cup {NewCall(Triggered(d), d)}
      /\ Triggered(d) \in JobCommands
  BY TriggeredIsAllowed, NewCallIsQueued DEF TypeInv, Commands, JobCommands
<1>2. /\ jobState'[d] \in {"init", "backup"}
      /\ \A e \in Dests \ {d} : jobState'[e] = jobState[e]
      /\ fresh' = fresh \ {d}
  BY DEF TriggerRepoBackup, TypeInv, ContextTypes
<1>3. ASSUME NEW t \in Targets, jobState'[t] = "done"
      PROVE  t \in fresh' \/ Backing(t)'
  <2>1. t \in Dests /\ t # d
    BY <1>2, <1>3 DEF Dests
  <2>2. QED
    BY <1>1, <1>2, <1>3, <2>1 DEF JobInv, Backing
<1>4. ASSUME HasRun({"sftp_backup"})'
      PROVE  arg' \in fresh' \/ BackingNext(arg)'
  <2>1. HeadStays
    BY HeadOfAppended DEF TypeInv
  <2>2. calls # <<>> /\ HasRun({"sftp_backup"}) /\ arg' = arg
    BY <1>4, <2>1 DEF HasRun, HeadStays, TypeInv, AnswerInv
  <2>3. CASE arg = d
    <3>1. Triggered(d) = "sftp_backup"
      BY <2>2, <2>3, ArgIsAllowed DEF HasRun, Allowed, TypeInv, Triggered
    <3>2. /\ NewCall(Triggered(d), d) \in Sent
          /\ Len(calls) \in Nat \ {0}
      BY <2>2, TriggeredIsAllowed, EmptySeq, LenProperties
      DEF NewCall, Sent, Call, Commands, TypeInv, Queued
    <3>3. /\ Len(calls') = Len(calls) + 1
          /\ calls'[Len(calls) + 1] = NewCall(Triggered(d), d)
      BY <3>2, AppendProperties DEF TypeInv, Queued
    <3>4. Len(calls) + 1 \in 2..Len(calls')
      BY <3>2, <3>3
    <3>5. QED
      BY <2>2, <2>3, <3>1, <3>3, <3>4 DEF BackingNext, NewCall
  <2>4. CASE arg # d
    <3>1. BackingNext(arg) => BackingNext(arg)'
      BY <2>1, <2>2 DEF HeadStays, BackingNext
    <3>2. QED
      BY <1>2, <2>2, <2>4, <3>1 DEF JobInv
  <2>5. QED
    BY <2>3, <2>4
<1>5. AtWork(d)'
  <2>1. NewCall(Triggered(d), d).cmd \in JobCommands /\ NewCall(Triggered(d), d).arg = d
    BY <1>1 DEF NewCall
  <2>2. QED
    BY <1>1, <2>1 DEF AtWork
<1>6. ASSUME NEW e \in Dests \ {d}, IsRunning(e)'
      PROVE  AtWork(e)'
  BY <1>1, <1>2, <1>6 DEF JobInv, IsRunning, AtWork
<1>7. QED
  BY <1>3, <1>4, <1>5, <1>6 DEF JobInv

\* The process works on a repository: the snapshot of a peer's is that of the call.
LEMMA JobsOfRun ==
  ASSUME TypeInv, JobInv, RepositoryRun, RestOfRun
  PROVE  JobInv'
<1>1. calls # <<>> /\ UNCHANGED <<calls, jobState>>
  BY DEF RepositoryRun, Run, Answered, RestOfRun, ui
<1>2. \/ /\ fresh' \cap Targets = fresh \cap Targets
         /\ Head(calls).cmd # "sftp_backup"
      \/ /\ fresh \subseteq fresh'
         /\ answer' = "error" \/ arg \in fresh'
  <2>1. CASE /\ arg \in Folders
             /\ \E ok \in BOOLEAN : InitializeRepository(arg, ok) \/ RunRealBackup(arg, ok)
             /\ Head(calls).cmd \in (JobCommands \cup PlanCommands) \ {"sftp_backup"}
    BY <2>1, RepoTypes DEF TypeInv
  <2>2. ASSUME NEW ok \in BOOLEAN, RunRealSftpBackup(arg, ok),
               answer' = IF ok THEN "ok" ELSE "error"
        PROVE  fresh \subseteq fresh' /\ (answer' = "error" \/ arg \in fresh')
    BY <2>2 DEF RunRealSftpBackup
  <2>3. QED
    BY <2>1, <2>2, RunsAreOfTheirKind
<1>3. HasRun({"sftp_backup"})' => arg' \in fresh'
  BY <1>1, <1>2 DEF HasRun, arg
<1>4. QED
  BY <1>1, <1>2, <1>3 DEF JobInv, Backing, IsRunning, AtWork

\* An answer to a command of a job d: no other job is concerned.
LEMMA JobAnswered ==
  ASSUME TypeInv, JobInv, calls # <<>>, NEW d \in Dests, arg = d, answer' = None,
         NEW s \in JobState, jobState' = [jobState EXCEPT ![d] = s], fresh' = fresh,
         Under(Tail(calls)) \subseteq Under(calls'),
         s \in {"init", "backup"} => AtWork(d)',
         s = "done" /\ d \in Targets => d \in fresh \/ Backing(d)'
  PROVE  JobInv'
<1>1. jobState'[d] = s /\ \A e \in Dests \ {d} : jobState'[e] = jobState[e]
  BY DEF TypeInv, ContextTypes
<1>2. ASSUME NEW c \in Under(calls), c.arg # d
      PROVE  c \in Under(calls')
  <2>1. c # Head(calls)
    BY <1>2 DEF arg
  <2>2. QED
    BY <2>1, HeadIsQueued DEF TypeInv
<1>3. ASSUME NEW t \in Targets, jobState'[t] = "done"
      PROVE  t \in fresh' \/ Backing(t)'
  <2>1. CASE t = d
    BY <1>1, <1>3, <2>1
  <2>2. CASE t # d
    BY <1>1, <1>2, <1>3, <2>2 DEF JobInv, Backing, Dests
  <2>3. QED
    BY <2>1, <2>2
<1>4. ASSUME NEW e \in Dests \ {d}, IsRunning(e)'
      PROVE  AtWork(e)'
  <2>1. PICK c \in Under(calls) : c.arg = e /\ c.cmd \in JobCommands
    BY <1>1, <1>4 DEF JobInv, IsRunning, AtWork
  <2>2. c \in Under(calls')
    BY <1>2, <2>1
  <2>3. QED
    BY <2>1, <2>2 DEF AtWork
<1>5. IsRunning(d)' => AtWork(d)'
  BY <1>1 DEF IsRunning
<1>6. QED
  BY <1>3, <1>4, <1>5 DEF JobInv, HasRun

LEMMA JobInitialisedKeepsJobs ==
  ASSUME TypeInv, JobInv, JobInitialised
  PROVE  JobInv'
<1>1. calls # <<>> /\ Head(calls).cmd = "init_repository"
  BY DEF JobInitialised, GoesOn, Answered
<1>2. arg \in Folders /\ arg \in Dests
  BY <1>1, ArgIsAllowed DEF Allowed, TypeInv, Dests
<1>3. fresh' = fresh /\ answer' = None
  BY DEF JobInitialised, RestOfJobs, repos, Finish, Continue
<1>4. CASE jobState' = [jobState EXCEPT ![arg] = "backup"] /\ Continue("local_backup", arg)
  <2>1. /\ Under(calls') = Under(Tail(calls)) \cup {Following(calls, "local_backup", arg)}
        /\ Following(calls, "local_backup", arg).cmd = "local_backup"
        /\ Following(calls, "local_backup", arg).arg = arg
    <3>1. "local_backup" \in Commands /\ arg \in Args /\ Allowed("local_backup", arg)
      BY <1>2 DEF Allowed, Args, Commands
    <3>2. QED
      BY <1>1, <1>4, <3>1, WentOn DEF TypeInv
  <2>2. \E c \in Under(calls') : c.arg = arg /\ c.cmd \in JobCommands
    BY <2>1 DEF JobCommands
  <2>3. PICK d \in Dests : d = arg
    BY <1>2
  <2>4. AtWork(d)'
    BY <2>2, <2>3 DEF AtWork
  <2>5. QED
    BY <1>1, <1>3, <1>4, <2>1, <2>3, <2>4, JobAnswered DEF JobState
<1>5. CASE JobError(arg) /\ Finish
  BY <1>1, <1>2, <1>3, <1>5, JobAnswered DEF JobError, Finish, Done, JobState
<1>6. QED
  BY <1>4, <1>5 DEF JobInitialised

LEMMA JobBackedUpKeepsJobs ==
  ASSUME TypeInv, JobInv, JobBackedUp
  PROVE  JobInv'
<1>1. calls # <<>> /\ calls' = Tail(calls) /\ answer' = None
  BY DEF JobBackedUp, GoesOn, Answered, Finish, Done
<1>2. fresh' = fresh
  BY DEF JobBackedUp, RestOfJobs, repos
<1>3. PICK d \in Dests : d = arg
  BY <1>1, ArgIsAllowed DEF JobBackedUp, GoesOn, Answered, Allowed, TypeInv, Dests
<1>4. CASE JobError(arg)
  BY <1>1, <1>2, <1>3, <1>4, JobAnswered DEF JobError, JobState
<1>5. CASE GoesOn("local_backup", "ok") /\ jobState' = [jobState EXCEPT ![arg] = "done"]
  <2>1. d \notin Targets
    BY <1>1, <1>3, <1>5, ArgIsAllowed, ClientAssumption DEF GoesOn, Answered, Allowed,
       TypeInv
  <2>2. QED
    BY <1>1, <1>2, <1>3, <1>5, <2>1, JobAnswered DEF JobState
<1>6. CASE GoesOn("sftp_backup", "ok") /\ jobState' = [jobState EXCEPT ![arg] = "done"]
  <2>1. HasRun({"sftp_backup"})
    BY <1>6, ClientAssumption DEF GoesOn, Answered, HasRun
  <2>2. BackingNext(arg) => Backing(d)'
    <3>1. ASSUME NEW i \in 2..Len(calls), calls[i].arg = arg, calls[i].cmd = "sftp_backup"
          PROVE  Backing(d)'
      <4>1. /\ i - 1 \in 1..Len(Tail(calls))
            /\ Tail(calls)[i - 1] = calls[i]
        BY <1>1, <3>1, HeadTailProperties, LenProperties DEF TypeInv, Queued
      <4>2. calls[i] \in Under(calls')
        BY <1>1, <4>1 DEF Under
      <4>3. QED
        BY <1>3, <3>1, <4>2 DEF Backing
    <3>2. QED
      BY <3>1 DEF BackingNext
  <2>3. d \in fresh \/ Backing(d)'
    BY <1>3, <2>1, <2>2 DEF JobInv
  <2>4. QED
    BY <1>1, <1>2, <1>3, <1>6, <2>3, JobAnswered DEF JobState
<1>7. QED
  BY <1>4, <1>5, <1>6 DEF JobBackedUp

LEMMA JobsOfContext ==
  ASSUME TypeInv, JobInv, ContextSteps
  PROVE  JobInv'
<1>1. CASE TimerFires
  <2>1. PICK d \in timers :
          TriggerRepoBackup(d) /\ calls' = Append(calls, NewCall(Triggered(d), d))
    BY <1>1 DEF TimerFires
  <2>2. d \in Dests /\ answer' = answer
    BY <1>1 DEF TimerFires, TypeInv, ContextTypes
  <2>3. QED
    BY <2>1, <2>2, JobTriggered
<1>2. CASE ToolsFound
  <2>1. QueueGoesOn({"get_tool_status"}) /\ AnswerGoesOn({"get_tool_status"})
    BY <1>2, Over
    DEF ToolsFound, Queried, Answered, Finish, Done, TypeInv, AnswerGoesOn
  <2>2. QED
    BY <1>2, <2>1, JobsKept DEF ToolsFound, QueueGoesOn, repos, JobCommands
<1>3. CASE PeerReports \/ ToggleOffline
  <2>1. QueueGoesOn({}) /\ AnswerGoesOn({})
    BY <1>3, SameQueue DEF PeerReports, ToggleOffline, TypeInv, AnswerGoesOn
  <2>2. QED
    BY <1>3, <2>1, JobsKept DEF PeerReports, ToggleOffline, QueueGoesOn, repos
<1>4. QED
  BY <1>1, <1>2, <1>3, JobsOfRun, JobInitialisedKeepsJobs, JobBackedUpKeepsJobs
  DEF ContextSteps

\* The form of the plan works on a local repository.
LEMMA JobsOfPlan ==
  ASSUME TypeInv, JobInv, PlanSteps
  PROVE  JobInv'
<1>1. ASSUME NEW d \in Dests, RunBackup(d)
      PROVE  JobInv'
  BY <1>1, JobTriggered DEF RunBackup, Request, Ask
<1>2. /\ Keeps(PlanCommands) /\ AnswerGoesOn(PlanCommands)
      /\ PlanCommands \cap JobCommands = {}
  BY QueueOfPlan, AnswerOfPlan DEF QueueGoesOn, PlanCommands, JobCommands
<1>3. CASE EditForm
  BY <1>2, <1>3, JobsKept DEF EditForm, context, ui, repos
<1>4. CASE RunJob
  <2>1. plan.path \notin Targets
    BY ClientAssumption DEF TypeInv, PageTypes, Plan
  <2>2. QED
    BY <1>2, <1>4, <2>1, JobsKept DEF RunJob, ui
<1>5. CASE RunJobInitialised \/ RunJobBackedUp
  BY <1>2, <1>5, JobsKept DEF RunJobInitialised, RunJobBackedUp, ui, repos
<1>6. QED
  BY <1>1, <1>3, <1>4, <1>5 DEF PlanSteps

LEMMA JobsOfOtherPages ==
  ASSUME TypeInv, JobInv, WizardSteps \/ RecoverySteps \/ LabSteps \/ HealthSteps
  PROVE  JobInv'
<1>1. CASE WizardSteps
  <2>1. /\ Keeps(WizardCommands) /\ AnswerGoesOn(WizardCommands)
        /\ WizardCommands \cap JobCommands = {}
    BY <1>1, QueueOfWizard, AnswerOfWizard DEF QueueGoesOn, WizardCommands, JobCommands
  <2>2. UNCHANGED <<jobState, fresh>>
    BY <1>1 DEF WizardSteps, EditSourceFolders, HandlePresetPeer, ClearPeerTarget,
       EditRetention, Prev, NextStep, Save, Validated, Applied, Rejected, AddAnother,
       context, ui, repos
  <2>3. QED
    BY <2>1, <2>2, JobsKept
<1>2. CASE RecoverySteps
  <2>1. /\ Keeps(RecoveryCommands) /\ AnswerGoesOn(RecoveryCommands)
        /\ RecoveryCommands \cap JobCommands = {}
    BY <1>2, QueueOfRecovery, AnswerOfRecovery DEF QueueGoesOn, RecoveryCommands,
       JobCommands
  <2>2. UNCHANGED <<jobState, fresh>>
    BY <1>2 DEF RecoverySteps, SetMode, HandleSave, HandleChange, Submit, HandleRevoke,
       PasswordRun, KeychainFound, KeychainLoaded, PasswordSaved, PasswordVerified,
       PasswordCleared, Rest, context, ui, repos
  <2>3. QED
    BY <2>1, <2>2, JobsKept
<1>3. CASE LabSteps
  <2>1. /\ Keeps(LabPageCommands) /\ AnswerGoesOn(LabPageCommands)
        /\ LabPageCommands \cap JobCommands = {}
    BY <1>3, QueueOfLabPages, AnswerOfLabPages
    DEF QueueGoesOn, LabPageCommands, LabCommands, JobCommands
  <2>2. UNCHANGED <<jobState, fresh>>
    BY <1>3 DEF LabSteps, StartStep, StepFailed, HandleRunDrill, LabRun, ToolsProbed,
       LabCreated, LabBackedUp, TransportPrepared, RepositoryChecked, RestoreDrilled,
       DrillRun, HealthReported, RestOfLab, ui, repos
  <2>3. QED
    BY <2>1, <2>2, JobsKept
<1>4. CASE HealthSteps
  <2>1. /\ Keeps(HealthCommands) /\ AnswerGoesOn(HealthCommands)
        /\ HealthCommands \cap JobCommands = {}
    BY <1>4, QueueOfHealthPages, AnswerOfHealthPages DEF HealthCommands, JobCommands
  <2>2. UNCHANGED <<jobState, fresh>>
    BY <1>4 DEF HealthSteps, HandleRefresh, Refreshed, ui, repos
  <2>3. QED
    BY <2>1, <2>2, JobsKept
<1>5. QED
  BY <1>1, <1>2, <1>3, <1>4

\* A page that is left does not take the commands of a job with it.
LEMMA JobsOfNavigate ==
  ASSUME TypeInv, JobInv, NEW path, Navigate(path)
  PROVE  JobInv'
<1>1. UNCHANGED <<jobState, fresh>>
  BY DEF Navigate, ui, repos
<1>2. ASSUME NEW c \in Under(calls)
      PROVE  \E b \in Under(calls') : b.cmd = c.cmd /\ b.arg = c.arg
  <2>1. c \in Sent /\ [c EXCEPT !.here = FALSE] \in Under(calls')
    BY <1>2, QueueOfNavigate, LenProperties, ElementOfSeq DEF Under, TypeInv, Queued
  <2>2. [c EXCEPT !.here = FALSE].arg = c.arg /\ [c EXCEPT !.here = FALSE].cmd = c.cmd
    BY <2>1 DEF Sent, Call
  <2>3. QED
    BY <2>1, <2>2
<1>3. ASSUME HasRun({"sftp_backup"})'
      PROVE  arg' \in fresh' \/ BackingNext(arg)'
  <2>1. HasRun({"sftp_backup"}) /\ HeadStays
    BY <1>3, RunKeptInNavigation
  <2>2. arg' = arg /\ (BackingNext(arg) => BackingNext(arg)')
    BY <2>1 DEF HasRun, HeadStays, BackingNext
  <2>3. QED
    BY <1>1, <2>1, <2>2 DEF JobInv
<1>4. QED
  BY <1>1, <1>2, <1>3 DEF JobInv, Backing, AtWork, IsRunning

LEMMA JobsAlways == Spec => []JobInv
<1>1. Init => JobInv
  BY DEF Init, ContextInit, JobInv, IsRunning, HasRun, Dests
<1>2. TypeInv /\ JobInv /\ [Next]_vars => JobInv'
  <2> SUFFICES ASSUME TypeInv, JobInv, [Next]_vars
               PROVE  JobInv'
    OBVIOUS
  <2>1. CASE Restart
    BY <2>1 DEF Restart, JobInv, IsRunning, HasRun, Dests
  <2>2. CASE UNCHANGED vars
    BY <2>2 DEF vars, context, ui, repos, JobInv, Backing, BackingNext, IsRunning, AtWork,
       HasRun, arg
  <2>3. QED
    BY <2>1, <2>2, JobsOfNavigate, JobsOfContext, JobsOfPlan, JobsOfOtherPages
    DEF Next, Context, SetupWizard, BackupPlan, RecoveryKey, Labs, HealthChecks
<1>3. QED
  BY <1>1, <1>2, TypesAlways, PTL DEF Spec

\* A job to a peer that is shown as done has a snapshot since it was last started, or a
\* backup of that start under way, for any number of jobs and of backups of each that
\* overlap.
THEOREM DoneJobsAreStored == Spec => []DoneJobIsStored
<1>1. JobInv => DoneJobIsStored
  BY DEF JobInv, Backing, Under, DoneJobIsStored
<1>2. QED
  BY <1>1, JobsAlways, PTL

\* No job is shown as running for ever: a command that will end it is under way.
THEOREM RunningJobsHaveWork == Spec => []RunningJobHasWork
<1>1. JobInv => RunningJobHasWork
  BY DEF JobInv, IsRunning, AtWork, Under, JobCommands, RunningJobHasWork
<1>2. QED
  BY <1>1, JobsAlways, PTL
-----------------------------------------------------------------------------
(***************************************************************************)
(* What a page waits for, page by page: a call that will be told of.       *)
(***************************************************************************)
Expects(cmds) == \E c \in Under(calls) : c.cmd \in cmds /\ c.here

WizardWaits == wizard.saving => Expects({"validate_setup_config"})

PlanWaits == plan.running => Expects(PlanCommands)

KeychainWaits ==
  recovery.checking /\ page = "recovery" => Expects({"has_keychain", "load_keychain"})

FormWaits == recovery.saving => Expects({"set_password", "verify_password"})

LabWaits == \A cmd \in LabCommands : steps[cmd] = "running" => Expects({cmd})

DrillWaits == drillPage.running => Expects({"drill_page", "drill_health"})

RefreshWaits == refreshing => Expects({"refresh"})

WaitInv == /\ WizardWaits /\ PlanWaits /\ KeychainWaits /\ FormWaits
           /\ LabWaits /\ DrillWaits /\ RefreshWaits

\* A call that no step of this kind answers is still expected,
LEMMA StillExpected ==
  ASSUME NEW own, Keeps(own), NEW cmds, cmds \cap own = {}, Expects(cmds)
  PROVE  Expects(cmds)'
  BY DEF Keeps, Expects

\* and so are those behind the one that is answered.
LEMMA ExpectedBehind ==
  ASSUME Queued(calls), calls # <<>>, Under(Tail(calls)) \subseteq Under(calls'),
         NEW cmds, Expects(cmds), Head(calls).cmd \notin cmds \/ ~here
  PROVE  Expects(cmds)'
<1>1. PICK c \in Under(calls) : c.cmd \in cmds /\ c.here
  BY DEF Expects
<1>2. c # Head(calls)
  BY <1>1 DEF here
<1>3. c \in Under(calls')
  BY <1>2, HeadIsQueued
<1>4. QED
  BY <1>1, <1>3 DEF Expects

\* A call just made is expected, and the next one of a handler if the first one was.
LEMMA ExpectedAsked ==
  ASSUME Queued(calls), NEW cmd \in Commands, NEW a \in Args, Allowed(cmd, a),
         calls' = Append(calls, NewCall(cmd, a)), NEW cmds, cmd \in cmds
  PROVE  Expects(cmds)'
<1>1. NewCall(cmd, a) \in Under(calls')
  BY NewCallIsQueued
<1>2. NewCall(cmd, a).cmd = cmd /\ NewCall(cmd, a).here
  BY DEF NewCall
<1>3. QED
  BY <1>1, <1>2 DEF Expects

LEMMA ExpectedNext ==
  ASSUME Queued(calls), calls # <<>>, NEW cmd \in Commands, NEW a \in Args, Allowed(cmd, a),
         Continue(cmd, a), here, NEW cmds, cmd \in cmds
  PROVE  Expects(cmds)'
  BY WentOn DEF Expects

LEMMA AfterDone ==
  ASSUME Finish
  PROVE  Under(Tail(calls)) \subseteq Under(calls')
  BY DEF Finish, Done

\* The other pages' steps leave a page waiting for what it waits for.
LEMMA WizardWaitsOn ==
  ASSUME WizardWaits, NEW own, Keeps(own), "validate_setup_config" \notin own,
         wizard' = wizard
  PROVE  WizardWaits'
  BY StillExpected DEF WizardWaits

LEMMA PlanWaitsOn ==
  ASSUME PlanWaits, NEW own, Keeps(own), PlanCommands \cap own = {}, plan' = plan
  PROVE  PlanWaits'
  BY StillExpected DEF PlanWaits

LEMMA RecoveryWaitsOn ==
  ASSUME KeychainWaits, FormWaits, NEW own, Keeps(own), RecoveryCommands \cap own = {},
         UNCHANGED <<recovery, page>>
  PROVE  KeychainWaits' /\ FormWaits'
<1>1. /\ {"has_keychain", "load_keychain"} \cap own = {}
      /\ {"set_password", "verify_password"} \cap own = {}
  BY DEF RecoveryCommands
<1>2. QED
  BY <1>1, StillExpected DEF KeychainWaits, FormWaits

LEMMA LabWaitsOn ==
  ASSUME LabWaits, DrillWaits, NEW own, Keeps(own), LabPageCommands \cap own = {},
         UNCHANGED <<steps, drillPage>>
  PROVE  LabWaits' /\ DrillWaits'
<1>1. ASSUME NEW cmd \in LabCommands, steps'[cmd] = "running"
      PROVE  Expects({cmd})'
  <2>1. {cmd} \cap own = {}
    BY DEF LabPageCommands
  <2>2. QED
    BY <1>1, <2>1, StillExpected DEF LabWaits
<1>2. {"drill_page", "drill_health"} \cap own = {}
  BY DEF LabPageCommands
<1>3. QED
  BY <1>1, <1>2, StillExpected DEF LabWaits, DrillWaits

LEMMA RefreshWaitsOn ==
  ASSUME RefreshWaits, NEW own, Keeps(own), "refresh" \notin own, refreshing' = refreshing
  PROVE  RefreshWaits'
  BY StillExpected DEF RefreshWaits

\* Each page on its own steps.
LEMMA WizardWaitsItself ==
  ASSUME TypeInv, WizardWaits, WizardSteps
  PROVE  WizardWaits'
<1> USE DEF TypeInv
<1>1. CASE EditSourceFolders \/ HandlePresetPeer \/ ClearPeerTarget \/ EditRetention \/ Prev
           \/ NextStep
  <2>1. calls' = calls /\ wizard'.saving = wizard.saving
    BY <1>1 DEF EditSourceFolders, HandlePresetPeer, ClearPeerTarget, EditRetention, Prev,
       NextStep, context, PageTypes, Wizard
  <2>2. QED
    BY <2>1 DEF WizardWaits, Expects
<1>2. CASE Save
  <2>1. wizard.draft \in SetupDraftConfig
    BY DEF PageTypes, Wizard
  <2>2. wizard.draft \in Args /\ Allowed("validate_setup_config", wizard.draft)
    BY <1>2, <2>1 DEF Save, Allowed, Args
  <2>3. calls' = Append(calls, NewCall("validate_setup_config", wizard.draft))
    BY <1>2 DEF Save, Request, Ask
  <2>4. QED
    BY <2>2, <2>3, ExpectedAsked DEF WizardWaits, Commands
<1>3. CASE Validated
  <2>1. calls # <<>> /\ Finish
    BY <1>3 DEF Validated, Queried, GoesOn, Answered
  <2>2. CASE here
    BY <1>3, <2>2 DEF Validated, NewWizard, WizardWaits, PageTypes, Wizard
  <2>3. CASE ~here
    <3>1. wizard' = wizard
      BY <1>3, <2>3 DEF Validated
    <3>2. QED
      BY <2>1, <2>3, <3>1, AfterDone, ExpectedBehind DEF WizardWaits
  <2>4. QED
    BY <2>2, <2>3
<1>4. CASE AddAnother
  BY <1>4 DEF AddAnother, NewWizard, WizardWaits
<1>5. QED
  BY <1>1, <1>2, <1>3, <1>4 DEF WizardSteps

LEMMA PlanWaitsItself ==
  ASSUME TypeInv, PlanWaits, PlanSteps
  PROVE  PlanWaits'
<1> USE DEF TypeInv
<1>1. ASSUME NEW d \in Dests, RunBackup(d)
      PROVE  PlanWaits'
  <2>1. QueueGoesOn({}) /\ plan' = plan
    BY <1>1, TriggeredIsAllowed, Asked DEF RunBackup, Request, Ask, Commands
  <2>2. QED
    BY <2>1, PlanWaitsOn DEF QueueGoesOn
<1>2. CASE EditForm
  BY <1>2 DEF EditForm, context, PlanWaits, Expects, PageTypes, Plan
<1>3. CASE RunJob
  <2>1. plan.path \in Folders
    BY <1>3 DEF RunJob, CanRunJob, PageTypes, Plan
  <2>2. plan.path \in Args /\ Allowed("form_init", plan.path)
    BY <2>1 DEF Allowed, Args, Dests
  <2>3. calls' = Append(calls, NewCall("form_init", plan.path))
    BY <1>3 DEF RunJob, Request, Ask
  <2>4. QED
    BY <2>2, <2>3, ExpectedAsked DEF PlanWaits, Commands, PlanCommands
<1>4. CASE (RunJobInitialised /\ Finish /\ JobFailed) \/ RunJobBackedUp
  <2>1. calls # <<>> /\ Finish
    BY <1>4 DEF RunJobInitialised, RunJobBackedUp, Queried, GoesOn, Answered
  <2>2. CASE here
    <3>1. ~plan'.running
      BY <1>4, <2>2 DEF RunJobBackedUp, JobFailed, PageTypes, Plan
    <3>2. QED
      BY <3>1 DEF PlanWaits
  <2>3. CASE ~here
    <3>1. plan' = plan
      BY <1>4, <2>3 DEF RunJobBackedUp, JobFailed
    <3>2. QED
      BY <2>1, <2>3, <3>1, AfterDone, ExpectedBehind DEF PlanWaits
  <2>4. QED
    BY <2>2, <2>3
<1>5. CASE RunJobInitialised /\ Continue("form_backup", arg) /\ plan' = plan
  <2>1. calls # <<>> /\ Head(calls).cmd = "form_init"
    BY <1>5 DEF RunJobInitialised, Queried, GoesOn, Answered
  <2>2. arg \in Args /\ Allowed("form_backup", arg) /\ "form_backup" \in Commands
    BY <2>1, ArgIsAllowed DEF Allowed, Commands
  <2>3. CASE here
    BY <1>5, <2>1, <2>2, <2>3, ExpectedNext DEF PlanWaits, PlanCommands
  <2>4. CASE ~here
    <3>1. Under(Tail(calls)) \subseteq Under(calls')
      BY <1>5, <2>1, <2>2, WentOn
    <3>2. QED
      BY <1>5, <2>1, <2>4, <3>1, ExpectedBehind DEF PlanWaits
  <2>5. QED
    BY <2>3, <2>4
<1>6. QED
  BY <1>1, <1>2, <1>3, <1>4, <1>5 DEF PlanSteps, RunJobInitialised

\* Who of the Recovery Key page answers what.
LEMMA FormQueue ==
  ASSUME TypeInv, RecoverySteps, ~KeychainFound, ~KeychainLoaded
  PROVE  Keeps({"set_password", "verify_password", "clear_password"})
<1> DEFINE own == {"set_password", "verify_password", "clear_password"}
<1> USE DEF TypeInv
<1>1. (\E mode \in Modes : SetMode(mode)) \/ PasswordRun => calls' = calls
  BY DEF SetMode, PasswordRun, Run, context
<1>2. CASE HandleSave \/ HandleChange \/ HandleRevoke
  <2>1. PICK cmd \in own, a \in Passwords \cup {None} :
          /\ calls' = Append(calls, NewCall(cmd, a))
          /\ cmd = "clear_password" \/ a \in Passwords
    BY <1>2 DEF HandleSave, HandleChange, Submit, HandleRevoke, Request, Ask
  <2>2. a \in Args /\ Allowed(cmd, a) /\ cmd \in Commands \ {"refresh"}
    BY <2>1 DEF Allowed, Args, Commands
  <2>3. QED
    BY <2>1, <2>2, Asked DEF QueueGoesOn
<1>3. CASE PasswordSaved \/ PasswordCleared \/ (PasswordVerified /\ Finish)
  <2>1. calls # <<>> /\ Head(calls).cmd \in own /\ calls' = Tail(calls)
    BY <1>3 DEF PasswordSaved, PasswordCleared, PasswordVerified, Queried, GoesOn,
       Answered, Finish, Done
  <2>2. QED
    BY <2>1, Over DEF QueueGoesOn
<1>4. CASE PasswordVerified /\ Continue("set_password", arg)
  <2>1. calls # <<>> /\ Head(calls).cmd = "verify_password"
    BY <1>4 DEF PasswordVerified, Queried, GoesOn, Answered
  <2>2. arg \in Args /\ Allowed("set_password", arg)
    BY <2>1, ArgIsAllowed DEF Allowed
  <2>3. QED
    BY <1>4, <2>1, <2>2, NextAsked DEF QueueGoesOn, Commands
<1>5. QED
  BY <1>1, <1>2, <1>3, <1>4 DEF RecoverySteps, PasswordVerified, Keeps

LEMMA KeychainQueue ==
  ASSUME TypeInv, HandleRevoke \/ KeychainFound \/ KeychainLoaded
  PROVE  Keeps({"has_keychain", "load_keychain", "clear_password"})
<1> DEFINE own == {"has_keychain", "load_keychain", "clear_password"}
<1> USE DEF TypeInv
<1>1. /\ None \in Args
      /\ \A cmd \in own : cmd \in Commands \ {"refresh"} /\ Allowed(cmd, None)
  BY DEF Allowed, Args, Commands
<1>2. CASE HandleRevoke
  BY <1>1, <1>2, Asked DEF HandleRevoke, Request, Ask, QueueGoesOn
<1>3. CASE KeychainLoaded \/ (KeychainFound /\ Finish)
  <2>1. calls # <<>> /\ Head(calls).cmd \in own /\ calls' = Tail(calls)
    BY <1>3 DEF KeychainLoaded, KeychainFound, Queried, GoesOn, Answered, Finish, Done
  <2>2. QED
    BY <2>1, Over DEF QueueGoesOn
<1>4. CASE KeychainFound /\ Continue("load_keychain", None)
  <2>1. calls # <<>> /\ Head(calls).cmd \in own
    BY <1>4 DEF KeychainFound, Queried, GoesOn, Answered
  <2>2. QED
    BY <1>1, <1>4, <2>1, NextAsked DEF QueueGoesOn
<1>5. QED
  BY <1>2, <1>3, <1>4 DEF KeychainFound

\* The Recovery Key page: its effect, and its forms.
LEMMA KeychainWaitsItself ==
  ASSUME TypeInv, KeychainWaits, RecoverySteps
  PROVE  KeychainWaits'
<1> USE DEF TypeInv
<1> DEFINE own == {"has_keychain", "load_keychain"}
<1>1. page' = page
  BY DEF RecoverySteps, SetMode, HandleSave, HandleChange, Submit, HandleRevoke,
     PasswordRun, KeychainFound, KeychainLoaded, PasswordSaved, PasswordVerified,
     PasswordCleared, Rest, context
<1>2. CASE KeychainFound
  <2>1. calls # <<>> /\ Head(calls).cmd = "has_keychain"
    BY <1>2 DEF KeychainFound, Queried, GoesOn, Answered
  <2>2. None \in Args /\ Allowed("load_keychain", None) /\ "load_keychain" \in Commands
    BY DEF Allowed, Args, Commands
  <2>3. CASE here /\ keychain = None
    <3>1. ~recovery'.checking
      BY <1>2, <2>3 DEF KeychainFound, PageTypes, Recovery
    <3>2. QED
      BY <3>1 DEF KeychainWaits
  <2>4. CASE here /\ keychain # None
    <3>1. Continue("load_keychain", None)
      BY <1>2, <2>4 DEF KeychainFound
    <3>2. Expects(own)'
      BY <2>1, <2>2, <2>4, <3>1, ExpectedNext
    <3>3. QED
      BY <3>2 DEF KeychainWaits
  <2>5. CASE ~here
    <3>1. recovery' = recovery
      BY <1>2, <2>5 DEF KeychainFound
    <3>2. Under(Tail(calls)) \subseteq Under(calls')
      BY <1>2, <2>1, <2>2, WentOn, AfterDone DEF KeychainFound
    <3>3. QED
      BY <1>1, <2>1, <2>5, <3>1, <3>2, ExpectedBehind DEF KeychainWaits
  <2>6. QED
    BY <2>3, <2>4, <2>5
<1>3. CASE KeychainLoaded
  <2>1. calls # <<>> /\ Finish
    BY <1>3 DEF KeychainLoaded, Queried, GoesOn, Answered
  <2>2. CASE here
    BY <1>3, <2>2 DEF KeychainLoaded, KeychainWaits, PageTypes, Recovery
  <2>3. CASE ~here
    <3>1. recovery' = recovery
      BY <1>3, <2>3 DEF KeychainLoaded
    <3>2. QED
      BY <1>1, <2>1, <2>3, <3>1, AfterDone, ExpectedBehind DEF KeychainWaits
  <2>4. QED
    BY <2>2, <2>3
<1>4. CASE ~KeychainFound /\ ~KeychainLoaded
  <2>1. recovery'.checking = recovery.checking
    BY <1>4 DEF RecoverySteps, SetMode, HandleSave, HandleChange, Submit, HandleRevoke,
       PasswordRun, PasswordSaved, PasswordVerified, PasswordCleared, FormFailed,
       PageTypes, Recovery
  <2>2. Keeps({"set_password", "verify_password", "clear_password"})
    BY <1>4, FormQueue
  <2>3. own \cap {"set_password", "verify_password", "clear_password"} = {}
    OBVIOUS
  <2>4. QED
    BY <1>1, <2>1, <2>2, <2>3, StillExpected DEF KeychainWaits
<1>5. QED
  BY <1>2, <1>3, <1>4

\* A form whose command has failed waits on if another is under way.
LEMMA FormFailedWaits ==
  ASSUME TypeInv, FormWaits, calls # <<>>, Finish, FormFailed
  PROVE  FormWaits'
<1>1. CASE here
  <2>1. SUFFICES ASSUME recovery'.saving
                 PROVE  Expects({"set_password", "verify_password"})'
    BY DEF FormWaits
  <2>2. PICK i \in 2..Len(calls) :
          calls[i].here /\ calls[i].cmd \in {"set_password", "verify_password"}
    BY <1>1, <2>1 DEF FormFailed, TypeInv, PageTypes, Recovery
  <2>3. /\ i - 1 \in 1..Len(Tail(calls))
        /\ Tail(calls)[i - 1] = calls[i]
    BY <2>2, HeadTailProperties, LenProperties DEF TypeInv, Queued
  <2>4. calls[i] \in Under(calls')
    BY <2>3 DEF Under, Finish, Done
  <2>5. QED
    BY <2>2, <2>4 DEF Expects
<1>2. CASE ~here
  <2>1. recovery' = recovery
    BY <1>2 DEF FormFailed
  <2>2. QED
    BY <1>2, <2>1, AfterDone, ExpectedBehind DEF FormWaits, TypeInv
<1>3. QED
  BY <1>1, <1>2

LEMMA FormWaitsItself ==
  ASSUME TypeInv, FormWaits, RecoverySteps
  PROVE  FormWaits'
<1> USE DEF TypeInv
<1> DEFINE own == {"set_password", "verify_password"}
<1>1. CASE (\E mode \in Modes : SetMode(mode)) \/ PasswordRun
  BY <1>1 DEF SetMode, PasswordRun, Run, FormWaits, Expects, PageTypes, Recovery
<1>2. CASE HandleSave \/ HandleChange
  <2>1. PICK cmd \in own, pw \in Passwords : calls' = Append(calls, NewCall(cmd, pw))
    BY <1>2 DEF HandleSave, HandleChange, Submit, Request, Ask
  <2>2. pw \in Args /\ Allowed(cmd, pw) /\ cmd \in Commands
    BY DEF Allowed, Args, Commands
  <2>3. Expects(own)'
    BY <2>1, <2>2, ExpectedAsked
  <2>4. QED
    BY <2>3 DEF FormWaits
<1>3. CASE HandleRevoke \/ KeychainFound \/ KeychainLoaded
  <2>1. recovery'.saving = recovery.saving
    BY <1>3 DEF HandleRevoke, KeychainFound, KeychainLoaded, PageTypes, Recovery
  <2>2. Keeps({"has_keychain", "load_keychain", "clear_password"})
    BY <1>3, KeychainQueue
  <2>3. own \cap {"has_keychain", "load_keychain", "clear_password"} = {}
    OBVIOUS
  <2>4. QED
    BY <2>1, <2>2, <2>3, StillExpected DEF FormWaits
<1>4. CASE PasswordSaved \/ PasswordCleared
  <2>1. calls # <<>> /\ Finish
    BY <1>4 DEF PasswordSaved, PasswordCleared, Queried, GoesOn, Answered
  <2>2. CASE FormFailed
    BY <2>1, <2>2, FormFailedWaits
  <2>3. CASE here /\ ~FormFailed
    <3>1. ~recovery'.saving
      BY <1>4, <2>3 DEF PasswordSaved, PasswordCleared, PageTypes, Recovery
    <3>2. QED
      BY <3>1 DEF FormWaits
  <2>4. CASE ~here /\ ~FormFailed
    <3>1. recovery' = recovery
      BY <1>4, <2>4 DEF PasswordSaved, PasswordCleared
    <3>2. QED
      BY <2>1, <2>4, <3>1, AfterDone, ExpectedBehind DEF FormWaits
  <2>5. QED
    BY <2>2, <2>3, <2>4
<1>5. CASE PasswordVerified /\ Finish /\ FormFailed
  BY <1>5, FormFailedWaits DEF PasswordVerified, Queried, GoesOn, Answered
<1>6. CASE PasswordVerified /\ Continue("set_password", arg) /\ recovery' = recovery
  <2>1. calls # <<>> /\ Head(calls).cmd = "verify_password"
    BY <1>6 DEF PasswordVerified, Queried, GoesOn, Answered
  <2>2. arg \in Args /\ Allowed("set_password", arg) /\ "set_password" \in Commands
    BY <2>1, ArgIsAllowed DEF Allowed, Commands
  <2>3. CASE here
    <3>1. Expects(own)'
      BY <1>6, <2>1, <2>2, <2>3, ExpectedNext
    <3>2. QED
      BY <3>1 DEF FormWaits
  <2>4. CASE ~here
    <3>1. Under(Tail(calls)) \subseteq Under(calls')
      BY <1>6, <2>1, <2>2, WentOn
    <3>2. QED
      BY <1>6, <2>1, <2>4, <3>1, ExpectedBehind DEF FormWaits
  <2>5. QED
    BY <2>3, <2>4
<1>7. QED
  BY <1>1, <1>2, <1>3, <1>4, <1>5, <1>6 DEF RecoverySteps, PasswordVerified

\* Who of the lab's pages answers what.
LEMMA DrillQueue ==
  ASSUME TypeInv, HandleRunDrill \/ DrillRun \/ HealthReported
  PROVE  Keeps({"drill_page", "drill_health", "health_report"})
<1> DEFINE own == {"drill_page", "drill_health", "health_report"}
<1> USE DEF TypeInv
<1>1. /\ None \in Args
      /\ \A cmd \in own : cmd \in Commands \ {"refresh"} /\ Allowed(cmd, None)
  BY DEF Allowed, Args, Commands
<1>2. CASE HandleRunDrill
  BY <1>1, <1>2, Asked DEF HandleRunDrill, Request, Ask, QueueGoesOn
<1>3. CASE HealthReported \/ (DrillRun /\ Finish)
  <2>1. calls # <<>> /\ Head(calls).cmd \in own /\ calls' = Tail(calls)
    BY <1>3 DEF HealthReported, DrillRun, Queried, GoesOn, Answered, Finish, Done
  <2>2. QED
    BY <2>1, Over DEF QueueGoesOn
<1>4. CASE DrillRun /\ Continue("drill_health", None)
  <2>1. calls # <<>> /\ Head(calls).cmd \in own
    BY <1>4 DEF DrillRun, Queried, GoesOn, Answered
  <2>2. QED
    BY <1>1, <1>4, <2>1, NextAsked DEF QueueGoesOn
<1>5. QED
  BY <1>2, <1>3, <1>4 DEF DrillRun

LEMMA StepQueue ==
  ASSUME TypeInv, LabSteps, ~HandleRunDrill, ~DrillRun, ~HealthReported
  PROVE  Keeps(LabCommands)
<1> USE DEF TypeInv
<1>1. /\ None \in Args
      /\ \A cmd \in LabCommands \cup {"health_report"} :
           cmd \in Commands \ {"refresh"} /\ Allowed(cmd, None)
  BY DEF Allowed, Args, Commands, LabCommands
<1>2. ASSUME NEW cmd \in LabCommands, StartStep(cmd)
      PROVE  Keeps(LabCommands)
  BY <1>1, <1>2, Asked DEF StartStep, Request, Ask, QueueGoesOn
<1>3. ASSUME NEW cmd \in LabCommands, Answered(cmd), Finish
      PROVE  Keeps(LabCommands)
  BY <1>3, Over DEF Queried, GoesOn, Answered, Finish, Done, QueueGoesOn
<1>4. ASSUME NEW cmd \in LabCommands, Answered(cmd), Continue("health_report", None)
      PROVE  Keeps(LabCommands)
  BY <1>1, <1>4, NextAsked DEF Queried, GoesOn, Answered, QueueGoesOn
<1>5. CASE LabRun
  BY <1>5 DEF LabRun, Run, Keeps
<1>6. QED
  BY <1>2, <1>3, <1>4, <1>5 DEF LabSteps, StepFailed, Queried, GoesOn, ToolsProbed,
     LabCreated, LabBackedUp, TransportPrepared, RepositoryChecked, RestoreDrilled,
     LabCommands

\* The pages of the test lab.  A call that is not told of leaves its step as it is.
LEMMA StepEnded ==
  ASSUME TypeInv, LabWaits, calls # <<>>, NEW cmd \in LabCommands, Head(calls).cmd = cmd,
         NEW state \in {"done", "error"}, Ended(cmd, state),
         Under(Tail(calls)) \subseteq Under(calls')
  PROVE  LabWaits'
<1> SUFFICES ASSUME NEW c \in LabCommands, steps'[c] = "running"
             PROVE  Expects({c})'
  BY DEF LabWaits
<1>1. steps[c] = "running" /\ (c # cmd \/ ~here)
  BY DEF Ended, TypeInv, PageTypes
<1>2. Expects({c})
  BY <1>1 DEF LabWaits
<1>3. QED
  BY <1>1, <1>2, ExpectedBehind DEF TypeInv

LEMMA StepStarted ==
  ASSUME TypeInv, LabWaits, NEW cmd \in LabCommands, StartStep(cmd)
  PROVE  LabWaits'
<1>1. /\ None \in Args /\ Allowed(cmd, None) /\ cmd \in Commands
      /\ calls' = Append(calls, NewCall(cmd, None))
  BY DEF StartStep, Request, Ask, Args, Allowed, LabCommands, Commands
<1>2. Keeps({})
  BY <1>1, NewCallIsQueued DEF TypeInv, Keeps
<1>3. ASSUME NEW c \in LabCommands, steps'[c] = "running"
      PROVE  Expects({c})'
  <2>1. CASE c = cmd
    BY <1>1, <2>1, ExpectedAsked DEF TypeInv
  <2>2. CASE c # cmd
    <3>1. steps[c] = "running"
      BY <1>3, <2>2 DEF StartStep, Started
    <3>2. QED
      BY <1>2, <3>1, StillExpected DEF LabWaits
  <2>3. QED
    BY <2>1, <2>2
<1>4. QED
  BY <1>3 DEF LabWaits

LEMMA LabWaitsItself ==
  ASSUME TypeInv, LabWaits, LabSteps
  PROVE  LabWaits'
<1> USE DEF TypeInv
<1>1. ASSUME NEW cmd \in LabCommands, StepFailed(cmd)
      PROVE  LabWaits'
  BY <1>1, StepEnded, AfterDone DEF StepFailed, Queried, GoesOn, Answered
<1>2. CASE ToolsProbed \/ LabCreated \/ TransportPrepared
  <2>1. PICK cmd \in LabCommands : Answered(cmd) /\ Ended(cmd, "done") /\ Finish
    BY <1>2 DEF ToolsProbed, LabCreated, TransportPrepared, Queried, GoesOn, LabCommands
  <2>2. QED
    BY <2>1, StepEnded, AfterDone DEF Queried, GoesOn, Answered
<1>3. CASE LabBackedUp \/ RepositoryChecked \/ RestoreDrilled
  <2>1. PICK cmd \in LabCommands :
          Answered(cmd) /\ Ended(cmd, "done") /\ Continue("health_report", None)
    BY <1>3 DEF LabBackedUp, RepositoryChecked, RestoreDrilled, GoesOn, LabCommands
  <2>2. None \in Args /\ Allowed("health_report", None) /\ "health_report" \in Commands
    BY DEF Args, Allowed, Commands
  <2>3. Under(Tail(calls)) \subseteq Under(calls')
    BY <2>1, <2>2, WentOn DEF Queried, GoesOn, Answered
  <2>4. QED
    BY <2>1, <2>3, StepEnded DEF Queried, GoesOn, Answered
<1>4. CASE HandleRunDrill \/ DrillRun \/ HealthReported
  <2>1. steps' = steps
    BY <1>4 DEF HandleRunDrill, DrillRun, HealthReported
  <2>2. Keeps({"drill_page", "drill_health", "health_report"})
    BY <1>4, DrillQueue
  <2>3. \A cmd \in LabCommands : {cmd} \cap {"drill_page", "drill_health", "health_report"} = {}
    BY DEF LabCommands
  <2>4. QED
    BY <2>1, <2>2, <2>3, StillExpected DEF LabWaits
<1>5. CASE LabRun
  BY <1>5 DEF LabRun, Run, LabWaits, Expects
<1>6. QED
  BY <1>1, <1>2, <1>3, <1>4, <1>5, StepStarted DEF LabSteps

LEMMA DrillWaitsItself ==
  ASSUME TypeInv, DrillWaits, LabSteps
  PROVE  DrillWaits'
<1> USE DEF TypeInv
<1> DEFINE own == {"drill_page", "drill_health"}
<1>1. CASE HandleRunDrill
  <2>1. None \in Args /\ Allowed("drill_page", None) /\ "drill_page" \in Commands
    BY DEF Args, Allowed, Commands
  <2>2. calls' = Append(calls, NewCall("drill_page", None))
    BY <1>1 DEF HandleRunDrill, Request, Ask
  <2>3. Expects(own)'
    BY <2>1, <2>2, ExpectedAsked
  <2>4. QED
    BY <2>3 DEF DrillWaits
<1>2. CASE DrillRun /\ Continue("drill_health", None) /\ drillPage'.running = drillPage.running
  <2>1. calls # <<>> /\ Head(calls).cmd = "drill_page"
    BY <1>2 DEF DrillRun, Queried, GoesOn, Answered
  <2>2. None \in Args /\ Allowed("drill_health", None) /\ "drill_health" \in Commands
    BY DEF Args, Allowed, Commands
  <2>3. CASE here
    <3>1. Expects(own)'
      BY <1>2, <2>1, <2>2, <2>3, ExpectedNext
    <3>2. QED
      BY <3>1 DEF DrillWaits
  <2>4. CASE ~here
    <3>1. Under(Tail(calls)) \subseteq Under(calls')
      BY <1>2, <2>1, <2>2, WentOn
    <3>2. QED
      BY <1>2, <2>1, <2>4, <3>1, ExpectedBehind DEF DrillWaits
  <2>5. QED
    BY <2>3, <2>4
<1>3. CASE /\ Answered("drill_page") \/ Answered("drill_health")
           /\ Finish
           /\ drillPage' = IF here THEN [drillPage EXCEPT !.running = FALSE] ELSE drillPage
  <2>1. CASE here
    BY <1>3, <2>1 DEF DrillWaits, PageTypes, DrillPage
  <2>2. CASE ~here
    BY <1>3, <2>2, AfterDone, ExpectedBehind DEF DrillWaits, Queried, GoesOn, Answered
  <2>3. QED
    BY <2>1, <2>2
<1>4. CASE HealthReported /\ Head(calls).cmd = "health_report"
  <2>1. calls # <<>> /\ calls' = Tail(calls) /\ drillPage' = drillPage
    BY <1>4 DEF HealthReported, Queried, GoesOn, Answered, Finish, Done
  <2>2. Keeps({"health_report"})
    BY <1>4, <2>1, Over DEF QueueGoesOn
  <2>3. own \cap {"health_report"} = {}
    OBVIOUS
  <2>4. QED
    BY <2>1, <2>2, <2>3, StillExpected DEF DrillWaits
<1>5. CASE ~HandleRunDrill /\ ~DrillRun /\ ~HealthReported
  <2>1. drillPage' = drillPage
    BY <1>5 DEF LabSteps, StartStep, StepFailed, LabRun, ToolsProbed, LabCreated,
       LabBackedUp, TransportPrepared, RepositoryChecked, RestoreDrilled
  <2>2. Keeps(LabCommands)
    BY <1>5, StepQueue
  <2>3. own \cap LabCommands = {}
    BY DEF LabCommands
  <2>4. QED
    BY <2>1, <2>2, <2>3, StillExpected DEF DrillWaits
<1>6. DrillRun => \/ Continue("drill_health", None) /\ drillPage'.running = drillPage.running
                  \/ Finish /\ drillPage' = IF here THEN [drillPage EXCEPT !.running = FALSE]
                                          ELSE drillPage
  BY DEF DrillRun, PageTypes, DrillPage
<1>7. HealthReported => \/ Head(calls).cmd = "health_report"
                        \/ /\ Answered("drill_health") /\ Finish
                           /\ drillPage' = IF here THEN [drillPage EXCEPT !.running = FALSE]
                                           ELSE drillPage
  BY DEF HealthReported, Queried, GoesOn, Answered
<1>8. QED
  BY <1>1, <1>2, <1>3, <1>4, <1>5, <1>6, <1>7 DEF DrillRun, GoesOn

LEMMA RefreshWaitsItself ==
  ASSUME TypeInv, RefreshWaits, HealthSteps
  PROVE  RefreshWaits'
<1> USE DEF TypeInv
<1>1. CASE HandleRefresh
  <2>1. Merged \in [setup : ClientSetupState, flags : Flags]
    BY DEF ContextTypes, Merged
  <2>2. Merged \in Args /\ Allowed("refresh", Merged) /\ "refresh" \in Commands
    BY <2>1 DEF Allowed, Args, Commands
  <2>3. calls' = Append(calls, NewCall("refresh", Merged))
    BY <1>1 DEF HandleRefresh, Request, Ask
  <2>4. QED
    BY <2>2, <2>3, ExpectedAsked DEF RefreshWaits
<1>2. CASE Refreshed
  <2>1. calls # <<>> /\ Finish /\ refreshing' = (refreshing /\ ~here)
    BY <1>2 DEF Refreshed, Queried, GoesOn, Answered
  <2>2. ASSUME refreshing'
        PROVE  Expects({"refresh"})'
    <3>1. refreshing /\ ~here
      BY <2>1, <2>2
    <3>2. QED
      BY <2>1, <3>1, AfterDone, ExpectedBehind DEF RefreshWaits
  <2>3. QED
    BY <2>2 DEF RefreshWaits
<1>3. QED
  BY <1>1, <1>2 DEF HealthSteps
-----------------------------------------------------------------------------
\* All pages on the steps of each.
LEMMA WaitsAll ==
  ASSUME TypeInv, WaitInv, NEW own, Keeps(own), UNCHANGED page,
         (wizard' = wizard /\ "validate_setup_config" \notin own) \/ WizardWaits',
         (plan' = plan /\ PlanCommands \cap own = {}) \/ PlanWaits',
         (recovery' = recovery /\ RecoveryCommands \cap own = {})
           \/ (KeychainWaits' /\ FormWaits'),
         ((UNCHANGED <<steps, drillPage>>) /\ LabPageCommands \cap own = {})
           \/ (LabWaits' /\ DrillWaits'),
         (refreshing' = refreshing /\ "refresh" \notin own) \/ RefreshWaits'
  PROVE  WaitInv'
<1>1. WizardWaits'
  BY WizardWaitsOn DEF WaitInv
<1>2. PlanWaits'
  BY PlanWaitsOn DEF WaitInv
<1>3. KeychainWaits' /\ FormWaits'
  BY RecoveryWaitsOn DEF WaitInv
<1>4. LabWaits' /\ DrillWaits'
  BY LabWaitsOn DEF WaitInv
<1>5. RefreshWaits'
  BY RefreshWaitsOn DEF WaitInv
<1>6. QED
  BY <1>1, <1>2, <1>3, <1>4, <1>5 DEF WaitInv

LEMMA WaitsOfContext ==
  ASSUME TypeInv, WaitInv, Context
  PROVE  WaitInv'
<1>1. Keeps(ContextCommands)
  BY QueueOfContext DEF Context, QueueGoesOn
<1>2. page' = page
  BY DEF Context, ContextSteps, ToolsFound, TimerFires, RestOfRun, JobInitialised,
     JobBackedUp, RestOfJobs, PeerReports, ToggleOffline
<1>3. /\ "validate_setup_config" \notin ContextCommands
      /\ "refresh" \notin ContextCommands
      /\ PlanCommands \cap ContextCommands = {}
      /\ RecoveryCommands \cap ContextCommands = {}
      /\ LabPageCommands \cap ContextCommands = {}
  BY DEF ContextCommands, JobCommands, PlanCommands, RecoveryCommands, LabPageCommands,
     LabCommands
<1>4. UNCHANGED <<wizard, plan, recovery, steps, drillPage, refreshing>>
  BY DEF Context
<1>5. QED
  BY <1>1, <1>2, <1>3, <1>4, WaitsAll

LEMMA WaitsOfWizard ==
  ASSUME TypeInv, WaitInv, SetupWizard
  PROVE  WaitInv'
<1>1. Keeps(WizardCommands) /\ WizardWaits'
  BY QueueOfWizard, WizardWaitsItself DEF SetupWizard, QueueGoesOn, WaitInv
<1>2. page' = page
  BY DEF SetupWizard, WizardSteps, EditSourceFolders, HandlePresetPeer, ClearPeerTarget,
     EditRetention, Prev, NextStep, Save, Validated, Applied, Rejected, AddAnother,
     context
<1>3. /\ "refresh" \notin WizardCommands
      /\ PlanCommands \cap WizardCommands = {}
      /\ RecoveryCommands \cap WizardCommands = {}
      /\ LabPageCommands \cap WizardCommands = {}
  BY DEF WizardCommands, PlanCommands, RecoveryCommands, LabPageCommands, LabCommands
<1>4. UNCHANGED <<plan, recovery, steps, drillPage, refreshing>>
  BY DEF SetupWizard
<1>5. QED
  BY <1>1, <1>2, <1>3, <1>4, WaitsAll

LEMMA WaitsOfPlan ==
  ASSUME TypeInv, WaitInv, BackupPlan
  PROVE  WaitInv'
<1>1. Keeps(PlanCommands) /\ PlanWaits'
  BY QueueOfPlan, PlanWaitsItself DEF BackupPlan, QueueGoesOn, WaitInv
<1>2. page' = page
  BY DEF BackupPlan, PlanSteps, RunBackup, EditForm, RunJob, RunJobInitialised,
     RunJobBackedUp, context
<1>3. /\ "validate_setup_config" \notin PlanCommands
      /\ "refresh" \notin PlanCommands
      /\ RecoveryCommands \cap PlanCommands = {}
      /\ LabPageCommands \cap PlanCommands = {}
  BY DEF PlanCommands, RecoveryCommands, LabPageCommands, LabCommands
<1>4. UNCHANGED <<wizard, recovery, steps, drillPage, refreshing>>
  BY DEF BackupPlan
<1>5. QED
  BY <1>1, <1>2, <1>3, <1>4, WaitsAll

LEMMA WaitsOfRecovery ==
  ASSUME TypeInv, WaitInv, RecoveryKey
  PROVE  WaitInv'
<1>1. Keeps(RecoveryCommands) /\ KeychainWaits' /\ FormWaits'
  BY QueueOfRecovery, KeychainWaitsItself, FormWaitsItself
  DEF RecoveryKey, QueueGoesOn, WaitInv
<1>2. page' = page
  BY DEF RecoveryKey, RecoverySteps, SetMode, HandleSave, HandleChange, Submit,
     HandleRevoke, PasswordRun, KeychainFound, KeychainLoaded, PasswordSaved,
     PasswordVerified, PasswordCleared, Rest, context
<1>3. /\ "validate_setup_config" \notin RecoveryCommands
      /\ "refresh" \notin RecoveryCommands
      /\ PlanCommands \cap RecoveryCommands = {}
      /\ LabPageCommands \cap RecoveryCommands = {}
  BY DEF PlanCommands, RecoveryCommands, LabPageCommands, LabCommands
<1>4. UNCHANGED <<wizard, plan, steps, drillPage, refreshing>>
  BY DEF RecoveryKey
<1>5. QED
  BY <1>1, <1>2, <1>3, <1>4, WaitsAll

LEMMA WaitsOfLabPages ==
  ASSUME TypeInv, WaitInv, Labs
  PROVE  WaitInv'
<1>1. Keeps(LabPageCommands) /\ LabWaits' /\ DrillWaits'
  BY QueueOfLabPages, LabWaitsItself, DrillWaitsItself DEF Labs, QueueGoesOn, WaitInv
<1>2. page' = page
  BY DEF Labs, LabSteps, StartStep, StepFailed, HandleRunDrill, LabRun, ToolsProbed,
     LabCreated, LabBackedUp, TransportPrepared, RepositoryChecked, RestoreDrilled,
     DrillRun, HealthReported, RestOfLab
<1>3. /\ "validate_setup_config" \notin LabPageCommands
      /\ "refresh" \notin LabPageCommands
      /\ PlanCommands \cap LabPageCommands = {}
      /\ RecoveryCommands \cap LabPageCommands = {}
  BY DEF PlanCommands, RecoveryCommands, LabPageCommands, LabCommands
<1>4. UNCHANGED <<wizard, plan, recovery, refreshing>>
  BY DEF Labs
<1>5. QED
  BY <1>1, <1>2, <1>3, <1>4, WaitsAll

LEMMA WaitsOfHealthPages ==
  ASSUME TypeInv, WaitInv, HealthChecks
  PROVE  WaitInv'
<1>1. Keeps(HealthCommands) /\ RefreshWaits'
  BY QueueOfHealthPages, RefreshWaitsItself DEF HealthChecks, WaitInv
<1>2. page' = page
  BY DEF HealthChecks, HealthSteps, HandleRefresh, Refreshed
<1>3. /\ "validate_setup_config" \notin HealthCommands
      /\ PlanCommands \cap HealthCommands = {}
      /\ RecoveryCommands \cap HealthCommands = {}
      /\ LabPageCommands \cap HealthCommands = {}
  BY DEF HealthCommands, PlanCommands, RecoveryCommands, LabPageCommands, LabCommands
<1>4. UNCHANGED <<wizard, plan, recovery, steps, drillPage>>
  BY DEF HealthChecks
<1>5. QED
  BY <1>1, <1>2, <1>3, <1>4, WaitsAll

\* A page that is mounted waits for nothing, but the Recovery Key's for its effect.
LEMMA WaitsOfUnmount ==
  ASSUME Unmount, page' = "recovery" => Expects({"has_keychain", "load_keychain"})'
  PROVE  WaitInv'
  BY DEF Unmount, NewWizard, NewPlan, NewRecovery, InitialSteps, WaitInv, WizardWaits,
     PlanWaits, KeychainWaits, FormWaits, LabWaits, DrillWaits, RefreshWaits

LEMMA WaitsOfNavigate ==
  ASSUME TypeInv, NEW path, Navigate(path)
  PROVE  WaitInv'
<1>1. page' = "recovery" => NewCall("has_keychain", None) \in Under(calls')
  BY QueueOfNavigate DEF TypeInv
<1>2. /\ NewCall("has_keychain", None).cmd = "has_keychain"
      /\ NewCall("has_keychain", None).here
  BY DEF NewCall
<1>3. page' = "recovery" => Expects({"has_keychain", "load_keychain"})'
  BY <1>1, <1>2 DEF Expects
<1>4. QED
  BY <1>3, WaitsOfUnmount DEF Navigate

LEMMA WaitsAlways == Spec => []WaitInv
<1>1. Init => WaitInv
  BY DEF Init, ContextInit, NewWizard, NewPlan, NewRecovery, InitialSteps, WaitInv,
     WizardWaits, PlanWaits, KeychainWaits, FormWaits, LabWaits, DrillWaits, RefreshWaits
<1>2. TypeInv /\ WaitInv /\ [Next]_vars => WaitInv'
  <2> SUFFICES ASSUME TypeInv, WaitInv, [Next]_vars
               PROVE  WaitInv'
    OBVIOUS
  <2>1. CASE Restart /\ Unmount
    BY <2>1, WaitsOfUnmount DEF Restart
  <2>2. CASE UNCHANGED vars
    BY <2>2 DEF vars, context, WaitInv, WizardWaits, PlanWaits, KeychainWaits, FormWaits,
       LabWaits, DrillWaits, RefreshWaits, Expects
  <2>3. QED
    BY <2>1, <2>2, WaitsOfNavigate, WaitsOfContext, WaitsOfWizard, WaitsOfPlan,
       WaitsOfRecovery, WaitsOfLabPages, WaitsOfHealthPages DEF Next
<1>3. QED
  BY <1>1, <1>2, TypesAlways, PTL DEF Spec

\* No page waits for ever, and none takes its button back too early: whatever waits has a
\* call under way that the page will be told of, for any number of calls and of pages
\* that are left and opened again before they are answered.
THEOREM WaitingPagesHaveCalls == Spec => []WaitingPageHasCall
<1>1. \A cmd : Waiting(cmd) <=> Expects({cmd})
  BY DEF Waiting, Expects, Under
<1>2. Expects(PlanCommands) => Waiting("form_init") \/ Waiting("form_backup")
  BY <1>1 DEF Expects, PlanCommands
<1>3. \A a, b : Expects({a, b}) => Waiting(a) \/ Waiting(b)
  BY <1>1 DEF Expects
<1>4. WaitInv => WaitingPageHasCall
  BY <1>1, <1>2, <1>3 DEF WaitInv, WizardWaits, PlanWaits, KeychainWaits, FormWaits,
     LabWaits, DrillWaits, RefreshWaits, WaitingPageHasCall
<1>5. QED
  BY <1>4, WaitsAlways, PTL
=============================================================================
