-------------------------- MODULE AllocationsPanel --------------------------
(***************************************************************************)
(* The section for the allocations (AllocationsPanel.tsx).  Its row is     *)
(* that of the allocation as it was listed last; the agent, the owner and  *)
(* the quota poller go on, and the agent refuses what its state forbids.   *)
(***************************************************************************)
EXTENDS HostContext

\* An invite: where it leads, and whether the host was told that this may be no address
\* of an overlay, or the agent's was not known.
Invite == [address : Addrs \cup {"overlay", "loopback"}, told : BOOLEAN]

RowOps == {"invite", "import", "suspend", "resume", "retire", "delete"}

Row == [busy : RowOps \cup {None}, invite : Invite \cup {None}, response : BOOLEAN,
        confirm : SUBSET {"unknown", "local", "suspend", "retire", "delete"}]

NewRow == [busy |-> None, invite |-> None, response |-> FALSE, confirm |-> {}]

AllocPanel ==
  [list : AllocationStates, overlay : Addrs \cup {"", None}, creating : BOOLEAN, row : Row,
   busy : {"load", "create", None}]

NewAllocPanel(token) ==
  [list |-> "ABSENT", overlay |-> None, creating |-> FALSE, row |-> NewRow,
   busy |-> Loading("allocations", token)]

AllocShown == host.section = "allocations" /\ host.token # None

\* States in which a row offers an operation, which are those in which the agent does it.
From(op) ==
  CASE op = "invite"  -> {"DRAFT", "EXPIRED"}
    [] op = "import"  -> {"PENDING_KEY"}
    [] op = "suspend" -> {"READY"}
    [] op = "resume"  -> {"SUSPENDED"}
    [] op = "retire"  -> AllocationStates \ {"ABSENT", "DELETED", "RETIRING", "RETIRED"}
    [] op = "delete"  -> AllocationStates \ {"ABSENT", "DELETED"}

To(op) ==
  CASE op = "invite"              -> "PENDING_KEY"
    [] op \in {"import", "resume"} -> "READY"
    [] op = "suspend"             -> "SUSPENDED"
    [] op = "retire"              -> "RETIRING"
    [] op = "delete"              -> "DELETED"

Offered(op) == AllocShown /\ panel.list \in From(op)

\* What the agent does meanwhile: the owner submits, an invite lapses, a quota is used up
\* or freed, a retirement ends.  Nobody sees it while another section is open.
AgentMoves ==
  {<<"PENDING_KEY", "READY">>, <<"PENDING_KEY", "EXPIRED">>, <<"READY", "SUSPENDED">>,
   <<"SUSPENDED", "READY">>, <<"RETIRING", "RETIRED">>}

AgentStep ==
  /\ AllocShown
  /\ running # None
  /\ \E move \in AgentMoves :
       agent.alloc = move[1] /\ agent' = [agent EXCEPT !.alloc = move[2]]
  /\ UNCHANGED <<host, panel, calls, timers, saved, running, clicks>>
-----------------------------------------------------------------------------
PanelReach == ClassifyReachability(host.env)

\* The confirmation that an invite needs, of what .env was like when last read.
Needed == CASE PanelReach = "unknown"         -> {"unknown"}
            [] PanelReach = "local_test_only" -> {"local"}
            [] OTHER                          -> {}

\* Variant: the agent's own address is not looked at.
InviteAllowed_AnyAgent == PanelReach \notin {"advertised_blocked", "unsafe_public"}

\* .env must not be known to lead nowhere, and the agent must have an address if .env has.
InviteAllowed ==
  /\ PanelReach \notin {"advertised_blocked", "unsafe_public"}
  /\ ~(PanelReach = "overlay_ready" /\ panel.overlay = "")

\* The button, or that of a question.
InviteClicked ==
  /\ Offered("invite")
  /\ panel.row.busy = None \/ panel.row.confirm \cap {"unknown", "local"} # {}
  /\ InviteAllowed

ConfirmInvite ==
  /\ Click
  /\ InviteClicked
  /\ ~(Needed \subseteq panel.row.confirm)
  /\ panel' = [panel EXCEPT !.row.confirm = (@ \ {"unknown"}) \cup Needed]
  /\ UNCHANGED <<host, calls, timers, world>>

\* With the operation goes whether its user was told.
RowCall(op, told) == Ask(op, [op |-> op, token |-> host.token, told |-> told])

DoGenerateInvite ==
  /\ InviteClicked
  /\ Needed \subseteq panel.row.confirm
  /\ RowCall("invite", Needed # {} \/ panel.overlay = None)
  /\ panel' = [panel EXCEPT !.row.busy = "invite",
                            !.row.confirm = @ \ {"unknown", "local"}]
  /\ UNCHANGED <<host, timers, world>>

\* A response is pasted, or read from a file.
EnterResponse ==
  /\ Click
  /\ Offered("import")
  /\ panel' = [panel EXCEPT !.row.response = ~@]
  /\ UNCHANGED <<host, calls, timers, world>>

DoImportResponse ==
  /\ Offered("import")
  /\ panel.row.response /\ panel.row.busy = None
  /\ RowCall("import", FALSE)
  /\ panel' = [panel EXCEPT !.row.busy = "import"]
  /\ UNCHANGED <<host, timers, world>>

DoResume ==
  /\ Offered("resume")
  /\ panel.row.busy = None
  /\ RowCall("resume", FALSE)
  /\ panel' = [panel EXCEPT !.row.busy = "resume"]
  /\ UNCHANGED <<host, timers, world>>

\* The first click of doSuspend, doRetire and doDelete.
AskFirst(op) ==
  /\ Click
  /\ Offered(op)
  /\ op \notin panel.row.confirm /\ panel.row.busy = None
  /\ panel' = [panel EXCEPT !.row.confirm = @ \cup {op}]
  /\ UNCHANGED <<host, calls, timers, world>>

\* The second, on a button that is never disabled.
DoConfirmed(op) ==
  /\ Offered(op)
  /\ op \in panel.row.confirm
  /\ RowCall(op, FALSE)
  /\ panel' = [panel EXCEPT !.row.busy = op]
  /\ UNCHANGED <<host, timers, world>>

Cancel ==
  /\ Click
  /\ AllocShown
  /\ \E c \in panel.row.confirm :
       /\ c \in {"suspend", "retire", "delete"} => Offered(c)
       /\ c \in {"unknown", "local"} => Offered("invite")
       /\ panel' = [panel EXCEPT !.row.confirm = @ \ {c}]
  /\ UNCHANGED <<host, calls, timers, world>>
-----------------------------------------------------------------------------
\* sftpHostForInvite: the overlay's address, else the one SFTP is bound to.
InviteAddress ==
  CASE running.addr # ""                              -> running.addr
    [] running.addr = "" /\ running.bind = "overlay" -> "overlay"
    [] OTHER                                          -> "loopback"

Agreed == /\ Authed(arg.token)
          /\ agent.alloc \in From(arg.op)
          /\ agent' = [agent EXCEPT !.alloc = To(arg.op)]

RowEnded(row) == [row EXCEPT !.busy = None, !.confirm = @ \ {arg.op}]

RowLoads == AndThen("list", arg.token)

\* What an operation leaves in the row, and in the panel that lists all again.
RowAnswered ==
  /\ \E op \in RowOps : Answered(op)
  /\ \/ /\ Agreed
        /\ LET done == RowEnded(panel.row)
               row  == CASE arg.op = "invite" ->
                              [done EXCEPT !.invite = [address |-> InviteAddress,
                                                       told |-> arg.told]]
                         [] arg.op = "import" -> [done EXCEPT !.response = FALSE]
                         [] OTHER             -> done
           IN  Patch([panel EXCEPT !.busy = "load", !.row = row])
        /\ IF here THEN RowLoads ELSE Done
     \/ /\ Patch([panel EXCEPT !.row = RowEnded(@)])
        /\ Done
        /\ UNCHANGED agent
  /\ UNCHANGED <<host, timers, saved, running, clicks>>

LoadAllocations ==
  /\ AllocShown
  /\ panel.busy = None
  /\ Ask("list", host.token)
  /\ panel' = [panel EXCEPT !.busy = "load"]
  /\ UNCHANGED <<host, timers, world>>

\* The agent's overlay may stay unknown; a row that is gone is forgotten.
Listed ==
  /\ Answered("list")
  /\ Done
  /\ \/ /\ Authed(arg)
        /\ \E overlay \in {running.addr, None} :
             Patch([panel EXCEPT !.list = agent.alloc, !.overlay = overlay, !.busy = None,
                                 !.row = IF agent.alloc = "DELETED" THEN NewRow ELSE @])
     \/ Patch([panel EXCEPT !.busy = None])
  /\ UNCHANGED <<host, timers, world, clicks>>

ToggleCreate ==
  /\ Click
  /\ AllocShown
  /\ panel' = [panel EXCEPT !.creating = ~@]
  /\ UNCHANGED <<host, calls, timers, world>>

DoCreate ==
  /\ AllocShown
  /\ panel.creating /\ panel.busy = None
  /\ agent.alloc = "ABSENT"
  /\ Ask("create", host.token)
  /\ panel' = [panel EXCEPT !.busy = "create"]
  /\ UNCHANGED <<host, timers, world>>

Created ==
  /\ Answered("create")
  /\ \/ /\ Authed(arg)
        /\ agent.alloc = "ABSENT"
        /\ agent' = [agent EXCEPT !.alloc = "DRAFT"]
        /\ Patch([panel EXCEPT !.creating = FALSE, !.busy = "load"])
        /\ IF here THEN AndThen("list", arg) ELSE Done
     \/ /\ Patch([panel EXCEPT !.busy = None])
        /\ Done
        /\ UNCHANGED agent
  /\ UNCHANGED <<host, timers, saved, running, clicks>>

AllocSteps ==
  \/ AgentStep
  \/ ConfirmInvite
  \/ DoGenerateInvite
  \/ EnterResponse
  \/ DoImportResponse
  \/ DoResume
  \/ \E op \in {"suspend", "retire", "delete"} : AskFirst(op) \/ DoConfirmed(op)
  \/ Cancel
  \/ RowAnswered
  \/ LoadAllocations
  \/ Listed
  \/ ToggleCreate
  \/ DoCreate
  \/ Created
=============================================================================
