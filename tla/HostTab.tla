------------------------------- MODULE HostTab -------------------------------
(***************************************************************************)
(* The Host tab of the desktop client (Host.tsx): its sections, one of     *)
(* which is open, over the compose stack of this machine.                  *)
(***************************************************************************)
EXTENDS HostStackPanel, TailscalePanel, AllocationsPanel, AgentPanels

NewPanel(section, h) ==
  CASE section = "stack"       -> NewStackPanel(h.token)
    [] section = "tailscale"   -> NewTailPanel(h.env)
    [] section = "settings"    -> NewSettingsPanel
    [] section = "allocations" -> NewAllocPanel(h.token)
    [] section = "diagnostics" -> NewDiagnosticsPanel(h.token)

\* The .env file of an agent that has a token.
Keyed(env) == [bind |-> env.bind, addr |-> env.addr, token |-> agent.token]

\* A machine that hosts nothing yet, or one whose .env was edited since the tab last read
\* it, or since its containers were created.
Init ==
  /\ \E token \in Tokens, alloc \in {"ABSENT", "PENDING_KEY"} :
       agent = [token |-> token, alloc |-> alloc, config |-> CHOOSE c \in Configs : TRUE]
  /\ \/ /\ saved = [bind |-> "loopback", addr |-> "", token |-> ""]
        /\ running = None
        /\ agent.alloc = "ABSENT"
        /\ host = [token |-> None, env |-> NoEnv, connected |-> FALSE, section |-> "stack"]
     \/ \E old, new \in {[bind |-> "loopback", addr |-> ""]}
                        \cup {[bind |-> "overlay", addr |-> addr] : addr \in Addrs} :
          /\ saved = Keyed(new)
          /\ running = old
          /\ \E env \in {Keyed(old), Keyed(new)} :
               host = [token |-> agent.token, env |-> env, connected |-> FALSE,
                       section |-> "stack"]
  /\ panel = NewStackPanel(host.token)
  /\ calls = Mounted("stack", host.token)
  /\ timers = {}
  /\ clicks = 0

\* The application ends with all that is under way, and the tab is opened when it has been
\* started again: token and environment are kept.  To leave the tab and open it later is the
\* same when nothing is under way; handlers that go on without their tab are left out.
Reopen ==
  /\ Click
  /\ host' = [host EXCEPT !.connected = FALSE, !.section = "stack"]
  /\ panel' = NewStackPanel(host.token)
  /\ calls' = Mounted("stack", host.token)
  /\ timers' = {}
  /\ UNCHANGED world

\* Another section is opened; what the one before has asked for goes on.
OpenSection ==
  \E section \in Sections \ {host.section} :
    /\ Click
    /\ Len(calls) < MaxCalls
    /\ host' = [host EXCEPT !.section = section]
    /\ panel' = NewPanel(section, host)
    /\ calls' = Left \o Mounted(section, host.token)
    /\ timers' = {[t EXCEPT !.here = FALSE] : t \in timers}
    /\ UNCHANGED world

Next ==
  \/ Reopen
  \/ OpenSection
  \/ StackSteps
  \/ TailSteps
  \/ AllocSteps
  \/ AgentPanelSteps

Spec == Init /\ [][Next]_shared
-----------------------------------------------------------------------------
Commands == ComposeOps \cup RowOps \cup
  {"refresh_stack", "get_info", "get_status", "write_env", "read_env", "token_hint", "logs",
   "ts_refresh", "ts_agent", "ts_write", "ts_restart", "ts_overlay", "list", "create",
   "get_config", "patch_config", "diag_refresh", "verify"}

\* The variables have their types.
TypeOK ==
  /\ host \in Host
  /\ panel \in CASE host.section = "stack"       -> StackPanel
                 [] host.section = "tailscale"   -> TailPanel
                 [] host.section = "settings"    -> SettingsPanel
                 [] host.section = "allocations" -> AllocPanel
                 [] host.section = "diagnostics" -> DiagnosticsPanel
  /\ \A i \in 1..Len(calls) : calls[i].cmd \in Commands /\ calls[i].here \in BOOLEAN
  /\ \A t \in timers : t.cmd \in Commands /\ t.here \in BOOLEAN
  /\ saved \in HostEnvValues /\ None \notin {saved.bind, saved.addr, saved.token}
  /\ running \in [bind : Binds, addr : Addrs \cup {""}] \cup {None}
  /\ agent \in Agent
  /\ clicks \in 0..MaxClicks

\* Whether the end of this call, or of what follows it, gives a button back.
EndsBusy(call) ==
  /\ call.here
  /\ call.cmd \in {"refresh_stack", "get_info", "get_status"} => call.arg.op # None

\* A section that shows that it is working has something under way that will end this,
\* however many operations overlap: its buttons do not stay disabled.  The same holds of
\* the row of the allocation.
BusyHasWork ==
  /\ panel.busy # None => \/ \E i \in 1..Len(calls) : EndsBusy(calls[i])
                          \/ \E t \in timers : t.here
  /\ host.section = "allocations" /\ panel.row.busy # None =>
       \E i \in 1..Len(calls) : calls[i].here /\ calls[i].cmd = panel.row.busy

\* An invite that leads to the host's own machine is only made after the host has said
\* that he wants it, or if the agent did not say what its address is: whatever .env was
\* like when it was last read, and whatever environment the containers run with.
LoopbackInviteWasTold ==
  host.section = "allocations" /\ panel.row.invite # None =>
    panel.row.invite.address # "loopback" \/ panel.row.invite.told

\* When no call is under way and .env could be read, the section for the network says so if
\* the agent runs with another address than .env has: as a warning, or in the button to save
\* and restart.  It says nothing while what it heard last of the agent no longer holds and
\* the agent does not answer.
MismatchIsSaid ==
  (/\ host.section = "tailscale" /\ running # None
   /\ panel.overlay = running.addr
   /\ calls = <<>>
   /\ saved.addr \notin {"", running.addr} /\ panel.env.addr # None)
  => MismatchShown \/ panel.restart
=============================================================================
