----------------------------- MODULE HostContext -----------------------------
(***************************************************************************)
(* What the sections of the Host tab (Host.tsx) share, and what they work  *)
(* on: the .env file of the compose stack, the containers with the         *)
(* environment they were created with, and the agent's own data, which     *)
(* outlives its container.  One section is open at a time.  The API of the *)
(* agent is reached through the commands of the Rust process, in order.    *)
(* There is one allocation, and one setting in the agent's configuration.  *)
(***************************************************************************)
EXTENDS CommandQueue

CONSTANTS Addrs,    \* addresses of this machine in overlay networks
          Tokens,   \* API tokens
          Configs,  \* what the agent's configuration may say
          None      \* nothing, or a key that is not set

\* A key that is not set is no value of a key, and an address is none of what stands for no
\* address; there is a configuration to start from.
ASSUME HostAssumption ==
  /\ None \notin Addrs \cup Tokens \cup Configs \cup {"", "loopback", "any", "overlay"}
  /\ None \notin {"compose_up", "compose_down", "compose_restart"}
  /\ Addrs \cap {"", "loopback"} = {}
  /\ Configs # {}

VARIABLES
  host,      \* token, lastKnownEnv, whether the agent was reached, open section
  panel,     \* state of the section that is open
  timers,    \* handlers that wait for containers to come up
  saved,     \* the .env file
  running,   \* environment of the containers, None if there are none
  agent      \* token, allocation, configuration

shared == <<host, panel, calls, timers, saved, running, agent, clicks>>
world  == <<saved, running, agent>>

Sections == {"stack", "tailscale", "settings", "allocations", "diagnostics"}

Binds == {"loopback", "any", "overlay"}

\* Partial<HostEnvValues>; the ports are left out.
HostEnvValues == [bind : Binds \cup {None}, addr : Addrs \cup {"", None},
                  token : Tokens \cup {"", None}]

NoEnv == [bind |-> None, addr |-> None, token |-> None]

Host == [token : Tokens \cup {None}, env : HostEnvValues, connected : BOOLEAN,
         section : Sections]

AllocationStates == {"ABSENT", "DRAFT", "PENDING_KEY", "READY", "SUSPENDED", "EXPIRED",
                     "RETIRING", "RETIRED", "DELETED"}

Agent == [token : Tokens, alloc : AllocationStates, config : Configs]

ReachabilityClass == {"overlay_ready", "local_test_only", "advertised_blocked",
                      "unsafe_public", "unknown"}

ClassifyReachability(env) ==
  LET bind      == IF env.bind = None THEN "loopback" ELSE env.bind
      addressed == env.addr \notin {"", None}
  IN CASE bind = "any"                      -> "unsafe_public"
       [] bind = "loopback" /\ addressed    -> "advertised_blocked"
       [] bind = "loopback" /\ ~addressed   -> "local_test_only"
       [] bind = "overlay" /\ addressed     -> "overlay_ready"
       [] bind = "overlay" /\ ~addressed    -> "unknown"
-----------------------------------------------------------------------------
\* host_agent_read_env; the bridge answers nothing at all when it fails.
ReadEnv == {saved, NoEnv}

\* Variant: the file has nothing but the keys that are given.
WriteEnv_DropsOthers(env) == saved' = env

\* host_agent_write_env: keys that are not given keep their lines.  That the file cannot be
\* read, which it takes for an empty one, or is torn while it is written, is left out.
WriteEnv(env) ==
  saved' = [key \in DOMAIN saved |-> IF env[key] = None THEN saved[key] ELSE env[key]]

\* docker compose up -d: containers whose environment has changed are made anew; a
\* token that is set becomes the agent's.
ComposeUp ==
  /\ running' = [bind |-> saved.bind, addr |-> saved.addr]
  /\ agent' = IF saved.token = "" THEN agent ELSE [agent EXCEPT !.token = saved.token]
  /\ UNCHANGED saved

ComposeDown == running' = None /\ UNCHANGED <<saved, agent>>

\* It may fail after it has removed the containers it was to replace.
ComposeFailed == running' \in {running, None} /\ UNCHANGED <<saved, agent>>

\* A request of the API with this token is answered.
Authed(token) == running # None /\ token = agent.token
-----------------------------------------------------------------------------
\* What the effects of a section ask for when it is opened or the token has changed.
Mounted(section, token) ==
  CASE section = "stack"     -> <<NewCall("refresh_stack", [token |-> token, op |-> None])>>
    [] section = "tailscale" -> <<NewCall("ts_refresh", token)>>
    [] section \notin {"stack", "tailscale"} ->
         IF token = None THEN <<>>
         ELSE <<NewCall(CASE section = "settings"    -> "get_config"
                          [] section = "allocations" -> "list"
                          [] section = "diagnostics" -> "diag_refresh", token)>>

\* The loads that show that they are under way.
Loading(section, token) ==
  IF section = "tailscale" \/ (section \in {"allocations", "diagnostics"} /\ token # None)
  THEN "load" ELSE None

Patch(p) == panel' = IF here THEN p ELSE panel

\* handleTokenChange, and the effects of the open section if it is another token.
TokenChange(token, p, more) ==
  /\ host' = [host EXCEPT !.token = token]
  /\ IF token = host.token
     THEN panel' = p /\ calls' = more
     ELSE /\ panel' = CASE host.section = "stack"    -> [p EXCEPT !.edit = token]
                        [] host.section = "settings" -> p
                        [] OTHER -> [p EXCEPT !.busy = Loading(host.section, token)]
          /\ calls' = more \o Mounted(host.section, token)
=============================================================================
