--------------------------- MODULE HostStackPanel ---------------------------
(***************************************************************************)
(* The section for the compose stack (HostStackPanel.tsx): its containers, *)
(* its token and its logs.  Every operation shows itself in "busy" and     *)
(* takes that back when it ends, whatever it shows by then.                *)
(***************************************************************************)
EXTENDS HostContext

ComposeOps == {"compose_up", "compose_down", "compose_restart"}

StackPanel ==
  [env : HostEnvValues, edit : Tokens \cup {None}, known : BOOLEAN, running : BOOLEAN,
   api : {"checking", "unreachable", "reachable", "authed", "denied"},
   busy : {"saving", "hint", "logs", None} \cup ComposeOps]

NewStackPanel(token) ==
  [env |-> NoEnv, edit |-> token, known |-> FALSE, running |-> FALSE, api |-> "checking",
   busy |-> None]

StackShown == host.section = "stack"

\* The buttons.
CanSaveToken == StackShown /\ panel.edit # None /\ panel.busy # "saving"
CanHint      == StackShown /\ panel.busy # "hint"
CanConnect   == StackShown /\ panel.edit # None
CanRefresh   == StackShown /\ panel.busy = None
CanCompose(op) ==
  /\ StackShown
  /\ panel.known
  /\ panel.busy = None
  /\ op # "compose_up" => panel.running

\* It is typed, pasted or generated.
EditToken ==
  /\ Click
  /\ StackShown
  /\ \E t \in (Tokens \cup {None}) \ {panel.edit} : panel' = [panel EXCEPT !.edit = t]
  /\ UNCHANGED <<host, calls, timers, world>>

SaveEnvAndToken ==
  /\ CanSaveToken
  /\ Ask("write_env", [panel.env EXCEPT !.token = panel.edit])
  /\ panel' = [panel EXCEPT !.busy = "saving"]
  /\ UNCHANGED <<host, timers, world>>

FetchTokenHint ==
  /\ CanHint
  /\ Ask("token_hint", None)
  /\ panel' = [panel EXCEPT !.busy = "hint"]
  /\ UNCHANGED <<host, timers, world>>

Connect ==
  /\ CanConnect
  /\ Click
  /\ Len(calls) < MaxCalls
  /\ TokenChange(panel.edit, panel,
                 Append(calls, NewCall("get_info", [token |-> panel.edit, op |-> None])))
  /\ UNCHANGED <<timers, world>>

RefreshStack ==
  /\ CanRefresh
  /\ Ask("refresh_stack", [token |-> host.token, op |-> None])
  /\ UNCHANGED <<host, panel, timers, world>>

Compose(op) ==
  /\ CanCompose(op)
  /\ Ask(op, host.token)
  /\ panel' = [panel EXCEPT !.busy = op]
  /\ UNCHANGED <<host, timers, world>>

ShowLogs ==
  /\ StackShown
  /\ Ask("logs", None)
  /\ panel' = [panel EXCEPT !.busy = "logs"]
  /\ UNCHANGED <<host, timers, world>>
-----------------------------------------------------------------------------
\* The token is the tab's once it is saved, and the file is read again.
EnvWritten ==
  /\ Answered("write_env")
  /\ \/ /\ WriteEnv(arg)
        /\ TokenChange(arg.token, panel,
                       Append(Tail(calls), [Head(calls) EXCEPT !.cmd = "read_env"]))
     \/ /\ Patch([panel EXCEPT !.busy = None])
        /\ Done
        /\ UNCHANGED <<saved, host>>
  /\ UNCHANGED <<timers, running, agent, clicks>>

EnvRead ==
  /\ Answered("read_env")
  /\ Done
  /\ \E env \in ReadEnv : Patch([panel EXCEPT !.env = env, !.busy = None])
  /\ UNCHANGED <<host, timers, world, clicks>>

\* The agent's log may hold the token.
TokenHinted ==
  /\ Answered("token_hint")
  /\ Done
  /\ \/ running # None /\ Patch([panel EXCEPT !.edit = agent.token, !.busy = None])
     \/ Patch([panel EXCEPT !.busy = None])
  /\ UNCHANGED <<host, timers, world, clicks>>

LogsShown ==
  /\ Answered("logs")
  /\ Done
  /\ Patch([panel EXCEPT !.busy = None])
  /\ UNCHANGED <<host, timers, world, clicks>>

\* The handler sleeps for some seconds, then refreshes.
Composed(op) ==
  /\ Answered(op)
  /\ Done
  /\ \/ /\ IF op = "compose_down" THEN ComposeDown ELSE ComposeUp
        /\ timers' = timers \cup {[cmd |-> "refresh_stack", here |-> here,
                                   arg |-> [token |-> arg, op |-> op]]}
        /\ UNCHANGED panel
     \/ /\ ComposeFailed
        /\ Patch([panel EXCEPT !.busy = None])
        /\ UNCHANGED timers
  /\ UNCHANGED <<host, clicks>>

StackWaited ==
  \E t \in timers :
    /\ t.cmd = "refresh_stack"
    /\ timers' = timers \ {t}
    /\ calls' = Append(calls, t)
    /\ UNCHANGED <<host, panel, world, clicks>>

StackRefreshed ==
  /\ Answered("refresh_stack")
  /\ AndThen("get_info", arg)
  /\ \E env \in ReadEnv :
       Patch([panel EXCEPT !.env = env, !.known = TRUE, !.running = (running # None)])
  /\ UNCHANGED <<host, timers, world, clicks>>

\* Variant: the button is only given back when the agent can be reached.
ApiChecked_StaysBusy(result) ==
  Patch([panel EXCEPT !.api = result,
                      !.busy = IF arg.op = None \/ result = "unreachable" THEN @ ELSE None])

\* checkApi is over, and the operation that it ends.
ApiChecked(result) ==
  Patch([panel EXCEPT !.api = result, !.busy = IF arg.op = None THEN @ ELSE None])

InfoAnswered ==
  /\ Answered("get_info")
  /\ \/ /\ running # None /\ arg.token # None
        /\ AndThen("get_status", arg)
        /\ Patch([panel EXCEPT !.api = "reachable"])
     \/ /\ running # None /\ arg.token = None
        /\ Done
        /\ ApiChecked("reachable")
     \/ Done /\ ApiChecked("unreachable")
  /\ UNCHANGED <<host, timers, world, clicks>>

\* handleConnected is told even if another section is open; nothing takes it back.
StatusAnswered ==
  /\ Answered("get_status")
  /\ Done
  /\ \/ /\ Authed(arg.token)
        /\ ApiChecked("authed")
        /\ host' = [host EXCEPT !.connected = TRUE]
     \/ ApiChecked("denied") /\ UNCHANGED host
  /\ UNCHANGED <<timers, world, clicks>>

StackSteps ==
  \/ EditToken
  \/ SaveEnvAndToken
  \/ FetchTokenHint
  \/ Connect
  \/ RefreshStack
  \/ \E op \in ComposeOps : Compose(op) \/ Composed(op)
  \/ ShowLogs
  \/ EnvWritten
  \/ EnvRead
  \/ TokenHinted
  \/ LogsShown
  \/ StackWaited
  \/ StackRefreshed
  \/ InfoAnswered
  \/ StatusAnswered
=============================================================================
