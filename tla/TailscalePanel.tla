--------------------------- MODULE TailscalePanel ---------------------------
(***************************************************************************)
(* The section for the overlay network (TailscalePanel.tsx): it edits the  *)
(* address that SFTP is bound to and the one that invites advertise, and   *)
(* compares them with what the running agent says.                         *)
(***************************************************************************)
EXTENDS HostContext

TailPanel ==
  [env : HostEnvValues, known : BOOLEAN, overlay : Addrs \cup {"", None},
   restart : BOOLEAN, busy : {"load", "save", "refresh-overlay", None}]

NewTailPanel(env) ==
  [env |-> env, known |-> FALSE, overlay |-> None, restart |-> FALSE, busy |-> "load"]

TailShown == host.section = "tailscale"

\* The warnings that the agent runs with another address than .env has.
MismatchShown ==
  /\ panel.overlay # None
  /\ panel.env.addr \notin {"", None, panel.overlay}

CanApply          == TailShown /\ panel.known
CanSaveAndRefresh == TailShown /\ panel.busy = None
CanRefreshOverlay == CanSaveAndRefresh /\ panel.overlay # None /\ host.token # None

\* onEnvChange, and the effect of the section, open again by now or not.
EnvChange(p, env) ==
  /\ host' = [host EXCEPT !.env = env]
  /\ panel' = IF TailShown THEN [p EXCEPT !.env = env] ELSE p

\* A name of the overlay's DNS is refused.
ApplyTailscaleIp(bind) == [panel EXCEPT !.env.bind = bind, !.restart = TRUE]

\* Variant: an edit of the advertised address asks for no restart.
ApplyAdvertisedAddress_NoRestart(addr) == [panel EXCEPT !.env.addr = addr]

ApplyAdvertisedAddress(addr) == [panel EXCEPT !.env.addr = addr, !.restart = TRUE]

\* The buttons at the machine's addresses.
Apply ==
  /\ Click
  /\ CanApply
  /\ \/ panel' = ApplyTailscaleIp("overlay")
     \/ \E addr \in Addrs : panel' = ApplyAdvertisedAddress(addr)
  /\ UNCHANGED <<host, calls, timers, world>>

\* The two fields.
EditEnv ==
  /\ Click
  /\ TailShown
  /\ \/ \E bind \in Binds \ {panel.env.bind} : panel' = ApplyTailscaleIp(bind)
     \/ \E addr \in (Addrs \cup {""}) \ {panel.env.addr} :
          panel' = ApplyAdvertisedAddress(addr)
  /\ UNCHANGED <<host, calls, timers, world>>

RefreshAll ==
  /\ CanSaveAndRefresh
  /\ Ask("ts_refresh", host.token)
  /\ panel' = [panel EXCEPT !.busy = "load"]
  /\ UNCHANGED <<host, timers, world>>

SaveAndRestart ==
  /\ CanSaveAndRefresh
  /\ Ask("ts_write", [env |-> panel.env, restart |-> panel.restart, token |-> host.token])
  /\ panel' = [panel EXCEPT !.busy = "save"]
  /\ UNCHANGED <<host, timers, world>>

DoRefreshOverlay ==
  /\ CanRefreshOverlay
  /\ Ask("ts_overlay", host.token)
  /\ panel' = [panel EXCEPT !.busy = "refresh-overlay"]
  /\ UNCHANGED <<host, timers, world>>
-----------------------------------------------------------------------------
\* The agent is asked only with a token.
TsRefreshed ==
  /\ Answered("ts_refresh")
  /\ IF arg = None THEN Done ELSE AndThen("ts_agent", arg)
  /\ \E env \in ReadEnv :
       EnvChange(IF here THEN [panel EXCEPT !.known = TRUE,
                                            !.busy = IF arg = None THEN None ELSE @]
                 ELSE panel, env)
  /\ UNCHANGED <<timers, world, clicks>>

OverlayAnswered ==
  /\ Answered("ts_agent") \/ Answered("ts_overlay")
  /\ Done
  /\ \/ /\ Authed(arg)
        /\ Patch([panel EXCEPT !.overlay = running.addr, !.busy = None])
     \/ Patch([panel EXCEPT !.busy = None])
  /\ UNCHANGED <<host, timers, world, clicks>>

\* What is left of saveAndRestart: restartNeeded is put back and all is read again.
Saved(p) == [p EXCEPT !.restart = FALSE, !.busy = "load"]

TsWritten ==
  /\ Answered("ts_write")
  /\ \/ /\ WriteEnv(arg.env)
        /\ IF arg.restart
           THEN AndThen("ts_restart", arg.token) /\ EnvChange(panel, arg.env)
           ELSE /\ AndThen("ts_refresh", arg.token)
                /\ EnvChange(IF here THEN Saved(panel) ELSE panel, arg.env)
     \/ /\ Patch([panel EXCEPT !.busy = None])
        /\ Done
        /\ UNCHANGED <<saved, host>>
  /\ UNCHANGED <<timers, running, agent, clicks>>

TsRestarted ==
  /\ Answered("ts_restart")
  /\ Done
  /\ \/ /\ ComposeUp
        /\ timers' = timers \cup {[cmd |-> "ts_refresh", here |-> here, arg |-> arg]}
        /\ UNCHANGED panel
     \/ /\ ComposeFailed
        /\ Patch([panel EXCEPT !.busy = None])
        /\ UNCHANGED timers
  /\ UNCHANGED <<host, clicks>>

TsWaited ==
  \E t \in timers :
    /\ t.cmd = "ts_refresh"
    /\ timers' = timers \ {t}
    /\ calls' = Append(calls, t)
    /\ panel' = IF t.here THEN Saved(panel) ELSE panel
    /\ UNCHANGED <<host, world, clicks>>

TailSteps ==
  \/ Apply
  \/ EditEnv
  \/ RefreshAll
  \/ SaveAndRestart
  \/ DoRefreshOverlay
  \/ TsRefreshed
  \/ OverlayAnswered
  \/ TsWritten
  \/ TsRestarted
  \/ TsWaited
=============================================================================
