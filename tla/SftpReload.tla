------------------------------ MODULE SftpReload ------------------------------
(***************************************************************************)
(* How an SFTP user comes into being: the agent (sftp/manager.go) writes   *)
(* the user's files into the shared state volume, one after the other, and *)
(* drops a reload trigger; the watcher in the SFTP container polls for the *)
(* trigger, removes it and sets every user up (docker/sftp/*.sh).  Either  *)
(* container may restart between any two steps.  Calls for one user follow *)
(* each other here; that they may overlap is HostAgent's subject.  So a    *)
(* user.json is whole or, for a moment, empty, on which jq prints nothing  *)
(* and does not fail: `set -e' never ends a setup half way.  A definition  *)
(* Name_Bug is a variant of Name with a plausible mistake, which the       *)
(* properties must notice; no action uses it.                              *)
(***************************************************************************)
EXTENDS Naturals

CONSTANTS Users,        \* the allocations' SFTP users
          MaxRestarts   \* bound: restarts of the two containers, together

ASSUME MaxRestartsAssumption == MaxRestarts \in Nat

VARIABLES files,     \* /state/users/<user>/ as both containers see it
          trigger,   \* /state/reload-trigger exists
          agent,     \* what the agent is doing for each user
          admitted,  \* users whose last call was an AuthorizeKey that returned
          watcher,   \* where entrypoint.sh and reload-watcher.sh are
          todo,      \* user directories setup_users has still to visit
          accounts,  \* Linux accounts of the SFTP container
          sshd,      \* entrypoint.sh has become sshd
          pidFile,   \* /var/run/sshd.pid exists
          restarts

agentVars     == <<agent, admitted>>
containerVars == <<watcher, todo, accounts, sshd, pidFile>>
vars == <<files, trigger, agentVars, containerVars, restarts>>

Calls == {"provision", "authorize", "deauthorize"}
Idle  == [call |-> "none", pc |-> "idle"]

\* json and keys are user.json and authorized_keys; a file being rewritten is
\* empty for a moment ("torn").  owned: authorized_keys belongs to the user.
UserFiles == [dir : BOOLEAN, json : {"none", "torn", "written"},
              keys : {"none", "empty", "key"}, owned : BOOLEAN]

Activity == [call : Calls \cup {"none"},
             pc : {"idle", "dir", "keys", "truncate", "fill", "trigger"}]

NoFiles == [dir |-> FALSE, json |-> "none", keys |-> "none", owned |-> FALSE]

Directories == {u \in Users : files[u].dir}

Init ==
  /\ files = [u \in Users |-> NoFiles]
  /\ trigger = FALSE
  /\ agent = [u \in Users |-> Idle]
  /\ admitted = {}
  /\ watcher = "boot"
  /\ todo = {}
  /\ accounts = {}
  /\ sshd = FALSE
  /\ pidFile = FALSE
  /\ restarts = 0
-----------------------------------------------------------------------------
(***************************************************************************)
(* The agent.                                                              *)
(***************************************************************************)
At(u, pc)   == agent[u].pc = pc
GoTo(u, pc) == agent' = [agent EXCEPT ![u].pc = pc]

\* The first file access of each call.
FirstPc(call) == IF call = "provision" THEN "dir" ELSE "keys"

\* Create provisions a user once; keys come and go after that.
Call(u, call) ==
  /\ At(u, "idle")
  /\ call = "provision" => ~files[u].dir
  /\ agent' = [agent EXCEPT ![u] = [call |-> call, pc |-> FirstPc(call)]]
  /\ admitted' = admitted \ {u}
  /\ UNCHANGED <<files, trigger, containerVars, restarts>>

MakeDir(u) ==
  /\ At(u, "dir")
  /\ files' = [files EXCEPT ![u].dir = TRUE]
  /\ GoTo(u, "truncate")
  /\ UNCHANGED <<trigger, admitted, containerVars, restarts>>

\* os.WriteFile truncates a file it finds, whose owner stays, and creates one as
\* root otherwise.
WithKeys(f, content) == [f EXCEPT !.keys = content]

WriteKeys(u) ==
  /\ At(u, "keys")
  /\ files[u].dir
  /\ \/ /\ agent[u].call = "provision"
        /\ files' = IF files[u].keys = "none"
                    THEN [files EXCEPT ![u] = WithKeys(@, "empty")] ELSE files
        /\ GoTo(u, "trigger")
     \/ /\ agent[u].call = "authorize"
        /\ files' = [files EXCEPT ![u] = WithKeys(@, "key")]
        /\ GoTo(u, "truncate")
     \/ /\ agent[u].call = "deauthorize"
        /\ files' = [files EXCEPT ![u] = WithKeys(@, "empty")]
        /\ GoTo(u, IF files[u].json = "written" THEN "truncate" ELSE "trigger")
  /\ UNCHANGED <<trigger, admitted, containerVars, restarts>>

\* Variant: a missing directory is no error to AuthorizeKey either.
WriteKeysFails_Shrugs(u) ==
  /\ At(u, "keys")
  /\ ~files[u].dir
  /\ GoTo(u, "trigger")
  /\ UNCHANGED <<files, trigger, admitted, containerVars, restarts>>

\* Without the directory AuthorizeKey fails; DeauthorizeKey shrugs it off.
WriteKeysFails(u) ==
  /\ At(u, "keys")
  /\ ~files[u].dir
  /\ IF agent[u].call = "authorize"
     THEN agent' = [agent EXCEPT ![u] = Idle] ELSE GoTo(u, "trigger")
  /\ UNCHANGED <<files, trigger, admitted, containerVars, restarts>>

Truncate(u) ==
  /\ At(u, "truncate")
  /\ files' = [files EXCEPT ![u].json = "torn"]
  /\ GoTo(u, "fill")
  /\ UNCHANGED <<trigger, admitted, containerVars, restarts>>

Fill(u) ==
  /\ At(u, "fill")
  /\ files' = [files EXCEPT ![u].json = "written"]
  /\ GoTo(u, IF agent[u].call = "provision" THEN "keys" ELSE "trigger")
  /\ UNCHANGED <<trigger, admitted, containerVars, restarts>>

TriggerReload(u) ==
  /\ At(u, "trigger")
  /\ trigger' = TRUE
  /\ admitted' = IF agent[u].call = "authorize" THEN admitted \cup {u}
                 ELSE admitted
  /\ agent' = [agent EXCEPT ![u] = Idle]
  /\ UNCHANGED <<files, containerVars, restarts>>
-----------------------------------------------------------------------------
(***************************************************************************)
(* The SFTP container.  "boot": entrypoint.sh begins; "poll": the watcher  *)
(* looks for the trigger; "start": it has removed it and is about to run   *)
(* setup_users; "setup": setup_users visits the directories it listed;     *)
(* "dead": it has sent SIGHUP to its own process group.                    *)
(***************************************************************************)

BeginSetup ==
  /\ watcher \in {"boot", "start"}
  /\ watcher' = "setup"
  /\ todo' = Directories
  /\ UNCHANGED <<files, trigger, agentVars, accounts, sshd, pidFile, restarts>>

\* The directory of a user that has been set up.
SetUp(f) == [f EXCEPT !.owned = TRUE,
                      !.keys = IF f.keys = "none" THEN "empty" ELSE f.keys]

\* Variant: only an authorized_keys file the container creates gets its owner.
SetUpUser_NoChown(u) ==
  /\ watcher = "setup"
  /\ u \in todo
  /\ todo' = todo \ {u}
  /\ IF files[u].json = "written"
     THEN /\ accounts' = accounts \cup {u}
          /\ files' = IF files[u].keys = "none"
                      THEN [files EXCEPT ![u] = SetUp(files[u])]
                      ELSE files
     ELSE UNCHANGED <<accounts, files>>
  /\ UNCHANGED <<trigger, agentVars, watcher, sshd, pidFile, restarts>>

\* A user whose user.json is missing, or torn so that jq prints nothing, is
\* skipped; otherwise it gets an account and its authorized_keys.
SetUpUser(u) ==
  /\ watcher = "setup"
  /\ u \in todo
  /\ todo' = todo \ {u}
  /\ IF files[u].json = "written"
     THEN /\ accounts' = accounts \cup {u}
          /\ files' = [files EXCEPT ![u] = SetUp(files[u])]
     ELSE UNCHANGED <<accounts, files>>
  /\ UNCHANGED <<trigger, agentVars, watcher, sshd, pidFile, restarts>>

\* After the last directory: the first time the watcher and sshd start; later sshd
\* is sent SIGHUP.  Where sshd.pid does not exist yet the signal goes to process 0,
\* the sender's own group, and ends the watcher.
Signal == watcher' = IF sshd => pidFile THEN "poll" ELSE "dead"

\* Variant: the trigger is removed after the reload.
EndSetup_RemovesTrigger ==
  /\ watcher = "setup"
  /\ todo = {}
  /\ Signal
  /\ sshd' = TRUE
  /\ trigger' = FALSE
  /\ UNCHANGED <<files, agentVars, todo, accounts, pidFile, restarts>>

EndSetup ==
  /\ watcher = "setup"
  /\ todo = {}
  /\ Signal
  /\ sshd' = TRUE
  /\ UNCHANGED <<files, trigger, agentVars, todo, accounts, pidFile, restarts>>

\* sshd writes its pid file some time after it has started.
WritePidFile ==
  /\ sshd
  /\ ~pidFile
  /\ pidFile' = TRUE
  /\ UNCHANGED <<files, trigger, agentVars, watcher, todo, accounts, sshd, restarts>>

TakeTrigger ==
  /\ watcher = "poll"
  /\ trigger
  /\ trigger' = FALSE
  /\ watcher' = "start"
  /\ UNCHANGED <<files, agentVars, todo, accounts, sshd, pidFile, restarts>>
-----------------------------------------------------------------------------
AgentRestarts ==
  /\ restarts < MaxRestarts
  /\ restarts' = restarts + 1
  /\ agent' = [u \in Users |-> Idle]
  /\ UNCHANGED <<files, trigger, admitted, containerVars>>

\* A restarted container keeps its accounts, and the pid file (which names process 1
\* again) unless sshd could remove it as it stopped; a recreated one has neither.
ContainerRestarts ==
  /\ restarts < MaxRestarts
  /\ restarts' = restarts + 1
  /\ watcher' = "boot"
  /\ todo' = {}
  /\ sshd' = FALSE
  /\ \/ UNCHANGED <<accounts, pidFile>>
     \/ accounts' \in {accounts, {}} /\ pidFile' = FALSE
  /\ UNCHANGED <<files, trigger, agentVars>>
-----------------------------------------------------------------------------
AgentStep(u) ==
  \/ MakeDir(u)
  \/ WriteKeys(u)
  \/ WriteKeysFails(u)
  \/ Truncate(u)
  \/ Fill(u)
  \/ TriggerReload(u)

Watcher ==
  \/ BeginSetup
  \/ \E u \in Users : SetUpUser(u)
  \/ EndSetup
  \/ TakeTrigger

Next ==
  \/ \E u \in Users, call \in Calls : Call(u, call)
  \/ \E u \in Users : AgentStep(u)
  \/ Watcher
  \/ WritePidFile
  \/ AgentRestarts
  \/ ContainerRestarts

Spec == Init /\ [][Next]_vars

\* The container runs under `restart: unless-stopped', the watcher loops as long as it
\* lives, and sshd starts.
FairSpec == Spec /\ WF_vars(Watcher) /\ WF_vars(WritePidFile)
-----------------------------------------------------------------------------
\* The variables have their types; only a user with a directory has files and can be
\* admitted, although DeauthorizeKey passes over the missing one.
TypeOK ==
  /\ files \in [Users -> UserFiles]
  /\ \A u \in Users : files[u].dir \/ files[u] = NoFiles
  /\ trigger \in BOOLEAN
  /\ agent \in [Users -> Activity]
  /\ admitted \subseteq Directories
  /\ watcher \in {"boot", "poll", "start", "setup", "dead"}
  /\ todo \subseteq Users
  /\ accounts \subseteq Users
  /\ sshd \in BOOLEAN
  /\ pidFile \in BOOLEAN
  /\ restarts \in 0..MaxRestarts

IsSetUp(u)  == u \in accounts /\ files[u].owned
CanLogIn(u) == sshd /\ IsSetUp(u) /\ files[u].keys = "key"

\* No reload request is lost: a user the agent has admitted is set up, or a reload
\* that will list its directory, or has it on its list, is under way or requested.
\* It rests on the trigger being removed before the directories are listed, and on
\* its being written after the files.  A watcher that is dead leaves the request
\* where the next boot of the container finds every directory.
NoLostReload ==
  \A u \in admitted :
    \/ IsSetUp(u)
    \/ trigger
    \/ watcher \in {"boot", "start"}
    \/ u \in todo

\* An owner whose key the agent says is authorized can log in in the end, whatever
\* restarts in between, unless the watcher dies of its own SIGHUP; and once the
\* container is restarted after that, it can.
AdmittedCanLogIn ==
  \A u \in Users :
    u \in admitted ~> CanLogIn(u) \/ u \notin admitted \/ watcher = "dead"
=============================================================================
