--------------------------- MODULE SftpReloadProofs ---------------------------
(***************************************************************************)
(* For any number of users and of restarts: the file steps of the agent    *)
(* and of the SFTP container never lose a reload.                          *)
(***************************************************************************)
EXTENDS SftpReload, TLAPS

\* What the two sides do to a user's files leaves them of their type.
LEMMA FilesStayTyped ==
  ASSUME NEW f \in UserFiles,
         NEW j \in {"torn", "written"},
         NEW c \in {"empty", "key"}
  PROVE  /\ [f EXCEPT !.dir = TRUE] \in UserFiles
         /\ [f EXCEPT !.json = j] \in UserFiles
         /\ WithKeys(f, c) \in UserFiles
         /\ SetUp(f) \in UserFiles
<1>1. [f EXCEPT !.dir = TRUE] \in UserFiles
  BY DEF UserFiles
<1>2. [f EXCEPT !.json = j] \in UserFiles
  BY DEF UserFiles
<1>3. WithKeys(f, c) \in UserFiles
  BY DEF UserFiles, WithKeys
<1>4. SetUp(f) \in UserFiles
  <2>1. CASE f.keys = "none"
    BY <2>1 DEF UserFiles, SetUp
  <2>2. CASE f.keys # "none"
    BY <2>2 DEF UserFiles, SetUp
  <2>3. QED
    BY <2>1, <2>2
<1>5. QED
  BY <1>1, <1>2, <1>3, <1>4

\* The plain types of the variables.
Types ==
  /\ files \in [Users -> UserFiles]
  /\ trigger \in BOOLEAN
  /\ agent \in [Users -> Activity]
  /\ admitted \subseteq Users
  /\ watcher \in {"boot", "poll", "start", "setup", "dead"}
  /\ todo \subseteq Users
  /\ accounts \subseteq Users
  /\ sshd \in BOOLEAN
  /\ pidFile \in BOOLEAN
  /\ restarts \in 0..MaxRestarts

LEMMA TypesHold == Spec => []Types
<1>1. Init => Types
  <2>1. NoFiles \in UserFiles /\ Idle \in Activity
    BY DEF NoFiles, UserFiles, Idle, Activity
  <2>2. 0 \in 0..MaxRestarts
    BY MaxRestartsAssumption
  <2>3. QED
    BY <2>1, <2>2 DEF Init, Types
<1>2. Types /\ [Next]_vars => Types'
  <2> SUFFICES ASSUME Types, [Next]_vars
               PROVE  Types'
    OBVIOUS
  <2> USE DEF Types, Activity, Calls, At, GoTo, agentVars, containerVars
  <2>1. ASSUME NEW u \in Users, NEW call \in Calls, Call(u, call)
        PROVE  Types'
    <3>1. FirstPc(call) \in {"dir", "keys"}
      BY DEF FirstPc
    <3>2. [call |-> call, pc |-> FirstPc(call)] \in Activity
      BY <3>1
    <3>3. QED
      BY <2>1, <3>2 DEF Call
  <2>2. ASSUME NEW u \in Users, AgentStep(u)
        PROVE  Types'
    <3>1. CASE MakeDir(u)
      <4>1. files' \in [Users -> UserFiles]
        BY <3>1, FilesStayTyped DEF MakeDir
      <4>2. agent' \in [Users -> Activity]
        BY <3>1 DEF MakeDir
      <4>3. QED
        BY <3>1, <4>1, <4>2 DEF MakeDir
    <3>2. CASE WriteKeys(u)
      <4>1. \A c \in {"empty", "key"} : WithKeys(files[u], c) \in UserFiles
        BY FilesStayTyped
      <4>2. files' \in [Users -> UserFiles]
        BY <3>2, <4>1 DEF WriteKeys
      <4>3. agent' \in [Users -> Activity]
        BY <3>2 DEF WriteKeys
      <4>4. QED
        BY <3>2, <4>2, <4>3 DEF WriteKeys
    <3>3. CASE WriteKeysFails(u)
      BY <3>3 DEF WriteKeysFails, Idle
    <3>4. CASE Truncate(u)
      <4>1. files' \in [Users -> UserFiles]
        BY <3>4, FilesStayTyped DEF Truncate
      <4>2. agent' \in [Users -> Activity]
        BY <3>4 DEF Truncate
      <4>3. QED
        BY <3>4, <4>1, <4>2 DEF Truncate
    <3>5. CASE Fill(u)
      <4>1. files' \in [Users -> UserFiles]
        BY <3>5, FilesStayTyped DEF Fill
      <4>2. agent' \in [Users -> Activity]
        BY <3>5 DEF Fill
      <4>3. QED
        BY <3>5, <4>1, <4>2 DEF Fill
    <3>6. CASE TriggerReload(u)
      BY <3>6 DEF TriggerReload, Idle
    <3>7. QED
      BY <2>2, <3>1, <3>2, <3>3, <3>4, <3>5, <3>6 DEF AgentStep
  <2>3. CASE Watcher
    <3>1. CASE BeginSetup
      BY <3>1 DEF BeginSetup, Directories
    <3>2. ASSUME NEW u \in Users, SetUpUser(u)
          PROVE  Types'
      <4>1. files' \in [Users -> UserFiles]
        <5>1. SetUp(files[u]) \in UserFiles
          BY FilesStayTyped
        <5>2. QED
          BY <3>2, <5>1 DEF SetUpUser
      <4>2. QED
        BY <3>2, <4>1 DEF SetUpUser
    <3>3. CASE EndSetup
      BY <3>3 DEF EndSetup, Signal
    <3>4. CASE TakeTrigger
      BY <3>4 DEF TakeTrigger
    <3>5. QED
      BY <2>3, <3>1, <3>2, <3>3, <3>4 DEF Watcher
  <2>4. CASE WritePidFile
    BY <2>4 DEF WritePidFile
  <2>5. CASE AgentRestarts
    BY <2>5, MaxRestartsAssumption DEF AgentRestarts, Idle
  <2>6. CASE ContainerRestarts
    <3>1. accounts' \subseteq Users /\ pidFile' \in BOOLEAN
      <4>1. UNCHANGED <<accounts, pidFile>> \/ (accounts' \in {accounts, {}} /\ ~pidFile')
        BY <2>6 DEF ContainerRestarts
      <4>2. CASE UNCHANGED <<accounts, pidFile>>
        BY <4>2
      <4>3. CASE accounts' \in {accounts, {}} /\ ~pidFile'
        <5>1. accounts' = accounts \/ accounts' = {}
          BY <4>3
        <5>2. pidFile' = FALSE
          BY <2>6, <4>3 DEF ContainerRestarts
        <5>3. QED
          BY <5>1, <5>2
      <4>4. QED
        BY <4>1, <4>2, <4>3
    <3>2. restarts' \in 0..MaxRestarts
      BY <2>6, MaxRestartsAssumption DEF ContainerRestarts
    <3>3. QED
      BY <2>6, <3>1, <3>2 DEF ContainerRestarts
  <2>7. CASE UNCHANGED vars
    BY <2>7 DEF vars
  <2>8. QED
    BY <2>1, <2>2, <2>3, <2>4, <2>5, <2>6, <2>7 DEF Next
<1>3. QED
  BY <1>1, <1>2, PTL DEF Spec
-----------------------------------------------------------------------------
(***************************************************************************)
(* Why no reload is lost.  A user's directory and user.json are complete   *)
(* when its AuthorizeKey returns, and stay so until its next call, which   *)
(* takes it out of `admitted'; so every later setup lists it and sets it   *)
(* up.  No call writes a file before the directory is there: user.json is  *)
(* rewritten only behind one of the writes that need it.                   *)
(***************************************************************************)
Complete(u) == files[u].dir /\ files[u].json = "written"

InProgress(u) ==
  /\ files[u].dir \/ files[u] = NoFiles
  /\ agent[u].pc \in {"truncate", "fill"} => files[u].dir
  /\ agent[u].call = "authorize" /\ agent[u].pc # "keys" => files[u].dir
  /\ agent[u].call = "authorize" /\ agent[u].pc = "trigger" => Complete(u)

AdmittedInv ==
  /\ \A u \in Users : InProgress(u)
  /\ \A u \in admitted : Complete(u) /\ At(u, "idle")

ReloadInv == Types /\ AdmittedInv /\ NoLostReload

\* The agent's own steps: between two calls nothing touches a user's files.
LEMMA AdmittedStep == Types /\ AdmittedInv /\ [Next]_vars => AdmittedInv'
<1> SUFFICES ASSUME Types, AdmittedInv, [Next]_vars
             PROVE  AdmittedInv'
  OBVIOUS
<1> USE DEF Types, UserFiles, Activity, Calls, At, GoTo, agentVars, containerVars,
            AdmittedInv, InProgress, Complete
<1>1. ASSUME NEW u \in Users, NEW call \in Calls, Call(u, call)
      PROVE  AdmittedInv'
  BY <1>1 DEF Call, FirstPc
<1>2. ASSUME NEW u \in Users, AgentStep(u)
      PROVE  AdmittedInv'
  <2>1. CASE MakeDir(u)
    BY <2>1 DEF MakeDir
  <2>2. CASE WriteKeys(u)
    <3>1. \A c \in {"empty", "key"} :
            /\ WithKeys(files[u], c).dir = files[u].dir
            /\ WithKeys(files[u], c).json = files[u].json
      BY DEF WithKeys
    <3>2. files' = files \/ \E c \in {"empty", "key"} :
                              files' = [files EXCEPT ![u] = WithKeys(files[u], c)]
      BY <2>2 DEF WriteKeys
    <3>3. \A v \in Users : files'[v].dir = files[v].dir
                            /\ files'[v].json = files[v].json
      BY <3>1, <3>2
    <3>4. files[u].dir /\ admitted' = admitted
      BY <2>2 DEF WriteKeys
    <3>5. /\ agent'[u].call = agent[u].call
          /\ agent'[u].pc \in {"truncate", "trigger"}
          /\ agent[u].call = "authorize" => agent'[u].pc = "truncate"
          /\ agent[u].pc = "keys"
          /\ \A v \in Users \ {u} : agent'[v] = agent[v]
      BY <2>2 DEF WriteKeys
    <3>6. \A v \in Users \ {u} : files'[v] = files[v]
      BY <3>2
    <3>7. \A v \in Users : files'[v].dir \/ files'[v] = NoFiles
      BY <3>3, <3>4, <3>6
    <3>8. QED
      BY <3>3, <3>4, <3>5, <3>7
  <2>3. CASE WriteKeysFails(u)
    BY <2>3 DEF WriteKeysFails, Idle
  <2>4. CASE Truncate(u)
    BY <2>4 DEF Truncate
  <2>5. CASE Fill(u)
    BY <2>5 DEF Fill
  <2>6. CASE TriggerReload(u)
    BY <2>6 DEF TriggerReload, Idle
  <2>7. QED
    BY <1>2, <2>1, <2>2, <2>3, <2>4, <2>5, <2>6 DEF AgentStep
<1>3. CASE Watcher
  <2>1. CASE BeginSetup \/ EndSetup \/ TakeTrigger
    BY <2>1 DEF BeginSetup, EndSetup, Signal, TakeTrigger
  <2>2. ASSUME NEW u \in Users, SetUpUser(u)
        PROVE  AdmittedInv'
    <3>1. /\ SetUp(files[u]).dir = files[u].dir
          /\ SetUp(files[u]).json = files[u].json
      BY DEF SetUp
    <3>2. \A v \in Users : files'[v].dir = files[v].dir
                            /\ files'[v].json = files[v].json
      BY <2>2, <3>1 DEF SetUpUser
    <3>3. UNCHANGED agentVars
      BY <2>2 DEF SetUpUser
    <3>4. \A v \in Users : files'[v] = files[v] \/ files[v].json = "written"
      BY <2>2 DEF SetUpUser
    <3>5. \A v \in Users : files'[v].dir \/ files'[v] = NoFiles
      <4>1. NoFiles.json # "written"
        BY DEF NoFiles
      <4>2. QED
        BY <3>2, <3>4, <4>1
    <3>6. QED
      BY <3>2, <3>3, <3>5
  <2>3. QED
    BY <1>3, <2>1, <2>2 DEF Watcher
<1>4. CASE WritePidFile
  BY <1>4 DEF WritePidFile
<1>5. CASE AgentRestarts
  BY <1>5 DEF AgentRestarts, Idle
<1>6. CASE ContainerRestarts
  BY <1>6 DEF ContainerRestarts
<1>7. CASE UNCHANGED vars
  BY <1>7 DEF vars
<1>8. QED
  BY <1>1, <1>2, <1>3, <1>4, <1>5, <1>6, <1>7 DEF Next
-----------------------------------------------------------------------------
LEMMA NoLostReloadStep == ReloadInv /\ AdmittedInv' /\ [Next]_vars => NoLostReload'
<1> SUFFICES ASSUME ReloadInv, AdmittedInv', [Next]_vars,
                    NEW v \in admitted'
             PROVE  \/ IsSetUp(v)'
                    \/ trigger'
                    \/ watcher' \in {"boot", "start"}
                    \/ v \in todo'
  BY DEF NoLostReload
<1> USE DEF ReloadInv, Types, UserFiles, Activity, Calls, At, GoTo, agentVars,
            containerVars, AdmittedInv, NoLostReload, IsSetUp
<1>1. ASSUME NEW u \in Users, NEW call \in Calls, Call(u, call)
      PROVE  IsSetUp(v)' \/ trigger' \/ watcher' \in {"boot", "start"} \/ v \in todo'
  BY <1>1 DEF Call
<1>2. ASSUME NEW u \in Users, AgentStep(u)
      PROVE  IsSetUp(v)' \/ trigger' \/ watcher' \in {"boot", "start"} \/ v \in todo'
  <2>1. CASE TriggerReload(u)
    BY <2>1 DEF TriggerReload
  <2>2. CASE ~TriggerReload(u)
    <3>1. v \in admitted /\ UNCHANGED <<trigger, watcher, todo, accounts>>
      BY <1>2, <2>2 DEF AgentStep, MakeDir, WriteKeys, WriteKeysFails, Truncate, Fill
    <3>2. agent[u].pc # "idle"
      BY <1>2, <2>2 DEF AgentStep, MakeDir, WriteKeys, WriteKeysFails, Truncate, Fill
    <3>3. files'[v] = files[v]
      BY <1>2, <2>2, <3>1, <3>2
      DEF AgentStep, MakeDir, WriteKeys, WriteKeysFails, Truncate, Fill
    <3>4. QED
      BY <3>1, <3>3
  <2>3. QED
    BY <2>1, <2>2
<1>3. CASE BeginSetup
  BY <1>3 DEF BeginSetup, Directories, Complete
<1>4. ASSUME NEW u \in Users, SetUpUser(u)
      PROVE  IsSetUp(v)' \/ trigger' \/ watcher' \in {"boot", "start"} \/ v \in todo'
  <2>1. CASE u = v
    <3>1. files[v].json = "written" /\ SetUp(files[v]).owned
      BY <1>4, <2>1 DEF Complete, SetUp, SetUpUser
    <3>2. QED
      BY <1>4, <2>1, <3>1 DEF SetUpUser
  <2>2. CASE u # v
    BY <1>4, <2>2 DEF SetUpUser
  <2>3. QED
    BY <2>1, <2>2
<1>5. CASE EndSetup
  BY <1>5 DEF EndSetup, Signal
<1>6. CASE TakeTrigger
  BY <1>6 DEF TakeTrigger
<1>7. CASE WritePidFile
  BY <1>7 DEF WritePidFile
<1>8. CASE AgentRestarts
  BY <1>8 DEF AgentRestarts
<1>9. CASE ContainerRestarts
  BY <1>9 DEF ContainerRestarts
<1>10. CASE UNCHANGED vars
  BY <1>10 DEF vars
<1>11. QED
  BY <1>1, <1>2, <1>3, <1>4, <1>5, <1>6, <1>7, <1>8, <1>9, <1>10 DEF Next, Watcher

LEMMA ReloadInvHolds == Spec => []ReloadInv
<1>1. Init => AdmittedInv /\ NoLostReload
  BY DEF Init, AdmittedInv, InProgress, NoLostReload, Idle
<1>2. ReloadInv /\ [Next]_vars => AdmittedInv' /\ NoLostReload'
  BY AdmittedStep, NoLostReloadStep DEF ReloadInv
<1>3. QED
  BY <1>1, <1>2, TypesHold, PTL DEF Spec, ReloadInv

\* The shared volume, the two containers' progress and the trigger keep their types;
\* no user without a directory has files or is admitted (sftp/manager.go,
\* entrypoint.sh, reload-watcher.sh).
THEOREM ReloadTypeCorrect == Spec => []TypeOK
<1>1. ReloadInv => TypeOK
  BY DEF ReloadInv, Types, AdmittedInv, InProgress, Complete, Directories, TypeOK
<1>2. QED
  BY <1>1, ReloadInvHolds, PTL

\* reload-watcher.sh removes the trigger before setup_users lists the directories, and
\* TriggerReload writes it after the files: no user the agent has admitted is missed,
\* not even when the watcher ends itself.
THEOREM ReloadIsNeverLost == Spec => []NoLostReload
<1>1. ReloadInv => NoLostReload
  BY DEF ReloadInv
<1>2. QED
  BY <1>1, ReloadInvHolds, PTL
=============================================================================
