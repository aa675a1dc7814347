--------------------------- MODULE HostTabProofs ---------------------------
(***************************************************************************)
(* For any tokens, addresses and bounds: the sections of the Host tab have *)
(* their buttons back, no invite leads to the host's own machine unknown   *)
(* to him, and a mismatch of addresses is said.  Calls outlive the section *)
(* that asked for them, so the invariants are about the order of what is   *)
(* in the queue: TypeInv says what each command may be asked with, BusyInv *)
(* what ends each wait, EnvInv that a section only sees the answers to its *)
(* own calls after what the others have asked for before, and LeadInv what *)
(* the section for the allocations may rely on when it makes an invite.    *)
(***************************************************************************)
EXTENDS HostTab, SequenceTheorems, TLAPS

Key       == Tokens \cup {None}
StackArg  == [token : Key, op : ComposeOps \cup {None}]
WriteArg  == [env : HostEnvValues, restart : BOOLEAN, token : Key]
ConfigArg == [token : Key, draft : Configs]
RowArg    == [op : RowOps, token : Key, told : BOOLEAN]

Args == Key \cup StackArg \cup HostEnvValues \cup WriteArg \cup ConfigArg \cup RowArg

StackChecks == {"refresh_stack", "get_info", "get_status"}

KeyCommands == ComposeOps \cup {"ts_refresh", "ts_agent", "ts_overlay", "ts_restart", "list",
                                "create", "get_config", "diag_refresh"}

\* What a command may be asked with.
Allowed(cmd, a) ==
  /\ cmd \in StackChecks => a \in StackArg
  /\ cmd = "write_env" => a \in HostEnvValues /\ a.token \in Tokens
  /\ cmd \in KeyCommands => a \in Key
  /\ cmd = "ts_write" => a \in WriteArg
  /\ cmd = "patch_config" => a \in ConfigArg
  /\ cmd \in RowOps => a \in RowArg /\ a.op = cmd

Call == [cmd : Commands, arg : Args, here : BOOLEAN]

Sent == {c \in Call : Allowed(c.cmd, c.arg)}

Queued(q) == q \in Seq(Sent)

\* The calls in a queue, in whatever order.
Under(q) == {q[i] : i \in 1..Len(q)}

\* The commands that each section asks for and waits for.
CommandsOf(section) ==
  CASE section = "stack" ->
         StackChecks \cup ComposeOps \cup {"write_env", "read_env", "token_hint", "logs"}
    [] section = "tailscale" ->
         {"ts_refresh", "ts_agent", "ts_write", "ts_restart", "ts_overlay"}
    [] section = "settings"    -> {"get_config", "patch_config"}
    [] section = "allocations" -> RowOps \cup {"list", "create"}
    [] section = "diagnostics" -> {"diag_refresh", "verify"}

PanelOf(section) ==
  CASE section = "stack"       -> StackPanel
    [] section = "tailscale"   -> TailPanel
    [] section = "settings"    -> SettingsPanel
    [] section = "allocations" -> AllocPanel
    [] section = "diagnostics" -> DiagnosticsPanel

\* Handlers that sleep after they have made containers.
Slept == {t \in Sent : /\ t.cmd \in {"refresh_stack", "ts_refresh"}
                       /\ t.cmd = "refresh_stack" => t.arg.op # None}

OfSection(c) == c.here => c.cmd \in CommandsOf(host.section)

\* A draft of the configuration is there as soon as it is shown or saved.
DraftIsKnown ==
  host.section = "settings" /\ panel.draft = None =>
    /\ panel.config = None
    /\ \A c \in Under(calls) : c.here => c.cmd # "patch_config"

WorldTypes ==
  /\ saved \in [bind : Binds, addr : Addrs \cup {""}, token : Tokens \cup {""}]
  /\ running \in [bind : Binds, addr : Addrs \cup {""}] \cup {None}
  /\ agent \in Agent

TypeInv ==
  /\ host \in Host
  /\ panel \in PanelOf(host.section)
  /\ Queued(calls)
  /\ timers \subseteq Slept
  /\ \A c \in Under(calls) \cup timers : OfSection(c)
  /\ DraftIsKnown
  /\ WorldTypes
  /\ clicks \in 0..MaxClicks
-----------------------------------------------------------------------------
\* Its end gives the buttons of the section back.
Frees(c) ==
  /\ c.here
  /\ c.cmd \notin RowOps \cup {"get_config"}
  /\ c.cmd \in StackChecks => c.arg.op # None

PanelWaits == panel.busy # None => \E c \in Under(calls) \cup timers : Frees(c)

RowWaits ==
  host.section = "allocations" /\ panel.row.busy # None =>
    \E c \in Under(calls) : c.here /\ c.cmd = panel.row.busy

BusyInv == PanelWaits /\ RowWaits
-----------------------------------------------------------------------------
\* The calls of as come before those of bs.
First(q, as, bs) == \A i, j \in 1..Len(q) : q[i] \in as /\ q[j] \in bs => i < j

\* What is asked for by a click and changes the containers, or the address in .env.
Movers == ComposeOps \cup {"ts_write"}

OfOthers(section) == {c \in Sent : c.cmd \in Movers \ CommandsOf(section)}

Shown == {c \in Sent : c.here}

InOrder == First(calls, OfOthers(host.section), Shown)

\* Writes of .env that give an address: with a new token the one that was read, and in the
\* section for the network the one that was entered.
TokenWrites == {c \in Sent : c.cmd = "write_env" /\ c.arg.addr # None}
TailWrites  == {c \in Sent : c.cmd = "ts_write"}

EnvInv ==
  /\ InOrder
  /\ First(calls, TokenWrites, TailWrites)
  /\ \A c \in Under(calls) \cap TokenWrites : c.arg.addr = saved.addr
  /\ host.section = "stack" /\ panel.env.addr # None =>
       panel.env.addr = saved.addr /\ Under(calls) \cap TailWrites = {}
-----------------------------------------------------------------------------
\* Of what changes the containers, only a restart may be under way.
Settled == \A c \in Under(calls) : c.cmd \notin Movers

\* This environment has an address to advertise.
Leads(env) == env.addr \notin {"", None}

Restarts == \E c \in Under(calls) : c.cmd = "ts_restart"

\* The restart that is to come finds an address in .env if the tab knows of one.
RestartLeads == Restarts /\ Leads(host.env) => saved.addr # ""

Unaddressed == running # None /\ running.addr = ""

\* What the section has heard of the agent it heard after all that others had asked for;
\* containers that lost their address since then lost it to .env.
AgentLeads ==
  host.section = "allocations" /\ panel.overlay # None =>
    /\ Settled
    /\ panel.overlay # "" /\ Unaddressed => saved.addr = "" /\ ~Leads(host.env)

Silent == {c \in Sent : c.cmd = "invite" /\ c.here /\ ~c.arg.told}

\* An invite that is made without a word to the host finds an agent with an address.
InviteLeads ==
  Under(calls) \cap Silent # {} =>
    /\ Settled
    /\ ~Unaddressed
    /\ Restarts => saved.addr # ""

LeadInv == RestartLeads /\ AgentLeads /\ InviteLeads /\ LoopbackInviteWasTold
-----------------------------------------------------------------------------
\* Without an edit that waits to be saved, the section for the network shows the address
\* that .env has, or will read it.
EnvIsRead ==
  host.section = "tailscale" /\ ~panel.restart =>
    \/ panel.env.addr \in {None, saved.addr}
    \/ \E c \in Under(calls) : c.cmd = "ts_refresh"
-----------------------------------------------------------------------------
\* The queue q2 is q, or what is behind its first call, and then calls of the set new.
GoesOn(q, q2, new) ==
  \E k \in {0, 1} :
    /\ k <= Len(q) /\ Len(q) - k <= Len(q2)
    /\ \A i \in 1..(Len(q) - k) : q2[i] = q[i + k]
    /\ \A i \in 1..Len(q2) : i > Len(q) - k => q2[i] \in new

LEMMA SameGoesOn ==
  ASSUME NEW q, Queued(q), NEW new
  PROVE  GoesOn(q, q, new)
<1>1. Len(q) \in Nat
  BY LenProperties DEF Queued
<1>2. QED
  BY <1>1 DEF GoesOn

LEMMA TailGoesOn ==
  ASSUME NEW q, Queued(q), q # <<>>, NEW new
  PROVE  Queued(Tail(q)) /\ GoesOn(q, Tail(q), new)
<1>1. /\ Len(q) \in Nat \ {0}
      /\ Tail(q) \in Seq(Sent)
      /\ Len(Tail(q)) = Len(q) - 1
      /\ \A i \in 1..Len(Tail(q)) : Tail(q)[i] = q[i + 1]
  BY HeadTailProperties, EmptySeq, LenProperties DEF Queued
<1>2. QED
  BY <1>1 DEF GoesOn, Queued

\* One more call.
LEMMA AppendGoesOn ==
  ASSUME NEW q, Queued(q), NEW q2, Queued(q2), NEW new, GoesOn(q, q2, new),
         NEW c \in Sent, c \in new
  PROVE  Queued(Append(q2, c)) /\ GoesOn(q, Append(q2, c), new)
<1>1. /\ Append(q2, c) \in Seq(Sent)
      /\ Len(q) \in Nat /\ Len(q2) \in Nat
      /\ Len(Append(q2, c)) = Len(q2) + 1
      /\ \A i \in 1..Len(q2) : Append(q2, c)[i] = q2[i]
      /\ Append(q2, c)[Len(q2) + 1] = c
  BY AppendProperties, LenProperties DEF Queued
<1>2. PICK k \in {0, 1} :
        /\ k <= Len(q) /\ Len(q) - k <= Len(q2)
        /\ \A i \in 1..(Len(q) - k) : q2[i] = q[i + k]
        /\ \A i \in 1..Len(q2) : i > Len(q) - k => q2[i] \in new
  BY DEF GoesOn
<1> DEFINE q3 == Append(q2, c)
<1>3. Len(q) - k <= Len(q3)
  BY <1>1, <1>2
<1>4. \A i \in 1..(Len(q) - k) : q3[i] = q[i + k]
  BY <1>1, <1>2
<1>5. ASSUME NEW i \in 1..Len(q3), i > Len(q) - k
      PROVE  q3[i] \in new
  <2>1. CASE i \in 1..Len(q2)
    BY <1>1, <1>2, <1>5, <2>1
  <2>2. CASE i = Len(q2) + 1
    BY <1>1, <2>2
  <2>3. QED
    BY <1>1, <2>1, <2>2
<1>6. QED
  BY <1>1, <1>2, <1>3, <1>4, <1>5 DEF GoesOn, Queued

\* What is in the queue then, and what is not.
LEMMA UnderNext ==
  ASSUME NEW q, Queued(q), NEW q2, Queued(q2), NEW new, GoesOn(q, q2, new)
  PROVE  /\ Under(q2) \subseteq Under(q) \cup new
         /\ \A c \in Under(q) : c \in Under(q2) \/ (q # <<>> /\ c = Head(q))
<1>1. Len(q) \in Nat /\ Len(q2) \in Nat
  BY LenProperties DEF Queued
<1>2. PICK k \in {0, 1} :
        /\ k <= Len(q) /\ Len(q) - k <= Len(q2)
        /\ \A i \in 1..(Len(q) - k) : q2[i] = q[i + k]
        /\ \A i \in 1..Len(q2) : i > Len(q) - k => q2[i] \in new
  BY DEF GoesOn
<1>3. ASSUME NEW i \in 1..Len(q2)
      PROVE  q2[i] \in Under(q) \cup new
  <2>1. CASE i > Len(q) - k
    BY <1>2, <2>1
  <2>2. CASE i <= Len(q) - k
    <3>1. i \in 1..(Len(q) - k) /\ i + k \in 1..Len(q)
      BY <1>1, <1>2, <2>2
    <3>2. QED
      BY <1>2, <3>1 DEF Under
  <2>3. QED
    BY <1>1, <2>1, <2>2
<1>4. ASSUME NEW i \in 1..Len(q)
      PROVE  q[i] \in Under(q2) \/ (q # <<>> /\ q[i] = Head(q))
  <2>1. CASE i - k >= 1
    <3>1. i - k \in 1..(Len(q) - k) /\ i - k \in 1..Len(q2) /\ (i - k) + k = i
      BY <1>1, <1>2, <2>1
    <3>2. q2[i - k] = q[i]
      BY <1>2, <3>1
    <3>3. QED
      BY <3>1, <3>2 DEF Under
  <2>2. CASE i - k < 1
    <3>1. i = 1
      BY <1>1, <1>2, <2>2
    <3>2. q # <<>>
      BY <1>1 DEF Queued
    <3>3. Head(q) = q[1]
      BY <3>2, HeadTailProperties DEF Queued
    <3>4. QED
      BY <3>1, <3>2, <3>3
  <2>3. QED
    BY <1>1, <2>1, <2>2
<1>5. QED
  BY <1>3, <1>4 DEF Under

LEMMA HeadIsUnder ==
  ASSUME NEW q, Queued(q), q # <<>>
  PROVE  /\ Head(q) \in Sent /\ Head(q) \in Under(q)
         /\ Under(q) = Under(Tail(q)) \cup {Head(q)}
<1>1. /\ Head(q) \in Sent
      /\ Len(q) \in Nat \ {0}
      /\ Head(q) = q[1]
  BY HeadTailProperties, EmptySeq, LenProperties DEF Queued
<1>2. Head(q) \in Under(q)
  BY <1>1 DEF Under
<1>3. /\ Tail(q) \in Seq(Sent)
      /\ Len(Tail(q)) = Len(q) - 1
      /\ \A i \in 1..Len(Tail(q)) : Tail(q)[i] = q[i + 1]
  BY HeadTailProperties, EmptySeq, LenProperties DEF Queued
<1>4. Under(Tail(q)) \subseteq Under(q)
  BY <1>1, <1>3 DEF Under
<1>5. \A c \in Under(q) : c \in Under(Tail(q)) \/ c = Head(q)
  BY UnderNext, TailGoesOn
<1>6. QED
  BY <1>1, <1>2, <1>4, <1>5

LEMMA UnderAppend ==
  ASSUME NEW q, Queued(q), NEW c
  PROVE  Under(Append(q, c)) = Under(q) \cup {c}
<1>1. q \in Seq(Sent \cup {c})
  BY SeqMonotonic DEF Queued
<1>2. /\ Len(q) \in Nat
      /\ Len(Append(q, c)) = Len(q) + 1
      /\ \A i \in 1..Len(q) : Append(q, c)[i] = q[i]
      /\ Append(q, c)[Len(q) + 1] = c
  BY <1>1, AppendProperties, LenProperties
<1>3. 1..(Len(q) + 1) = (1..Len(q)) \cup {Len(q) + 1}
  BY <1>2
<1>4. QED
  BY <1>2, <1>3 DEF Under
-----------------------------------------------------------------------------
\* The calls of as come before those of bs, and it stays so if none of as is added.
LEMMA StaysFirst ==
  ASSUME NEW q, Queued(q), NEW q2, Queued(q2), NEW new, GoesOn(q, q2, new),
         NEW as, NEW bs, First(q, as, bs), new \cap as = {}
  PROVE  First(q2, as, bs)
<1>1. Len(q) \in Nat /\ Len(q2) \in Nat
  BY LenProperties DEF Queued
<1>2. PICK k \in {0, 1} :
        /\ k <= Len(q) /\ Len(q) - k <= Len(q2)
        /\ \A i \in 1..(Len(q) - k) : q2[i] = q[i + k]
        /\ \A i \in 1..Len(q2) : i > Len(q) - k => q2[i] \in new
  BY DEF GoesOn
<1>3. SUFFICES ASSUME NEW i \in 1..Len(q2), NEW j \in 1..Len(q2), q2[i] \in as, q2[j] \in bs
               PROVE  i < j
  BY DEF First
<1>4. i <= Len(q) - k
  <2>1. q2[i] \notin new
    BY <1>3
  <2>2. i > Len(q) - k => q2[i] \in new
    BY <1>2
  <2>3. QED
    BY <1>1, <1>2, <2>1, <2>2
<1>5. CASE j > Len(q) - k
  BY <1>1, <1>2, <1>4, <1>5
<1>6. CASE j <= Len(q) - k
  <2>1. /\ i \in 1..(Len(q) - k) /\ j \in 1..(Len(q) - k)
        /\ i + k \in 1..Len(q) /\ j + k \in 1..Len(q)
    BY <1>1, <1>2, <1>4, <1>6
  <2>2. q[i + k] \in as /\ q[j + k] \in bs
    BY <1>2, <1>3, <2>1
  <2>3. i + k < j + k
    BY <2>1, <2>2 DEF First
  <2>4. QED
    BY <1>1, <1>2, <2>1, <2>3
<1>7. QED
  BY <1>1, <1>2, <1>5, <1>6

\* Nothing comes before the first call.
LEMMA NoneBeforeHead ==
  ASSUME NEW q, Queued(q), q # <<>>, NEW as, NEW bs, First(q, as, bs), Head(q) \in bs
  PROVE  Under(q) \cap as = {}
<1>1. Head(q) = q[1] /\ Len(q) \in Nat \ {0}
  BY HeadTailProperties, EmptySeq, LenProperties DEF Queued
<1>2. SUFFICES ASSUME NEW i \in 1..Len(q), q[i] \in as
               PROVE  FALSE
  BY DEF Under
<1>3. i < 1
  <2>1. 1 \in 1..Len(q) /\ q[1] \in bs
    BY <1>1
  <2>2. QED
    BY <1>2, <2>1 DEF First
<1>4. QED
  BY <1>1, <1>3

\* A call of as may be added while there is none of bs.
LEMMA AddedFirst ==
  ASSUME NEW q, Queued(q), NEW c \in Sent, NEW as, NEW bs,
         Under(q) \cap bs = {}, c \notin bs
  PROVE  First(Append(q, c), as, bs)
<1>1. Under(Append(q, c)) = Under(q) \cup {c}
  BY UnderAppend
<1>2. \A j \in 1..Len(Append(q, c)) : Append(q, c)[j] \notin bs
  BY <1>1 DEF Under
<1>3. QED
  BY <1>2 DEF First
-----------------------------------------------------------------------------
\* What only a click asks for, in the section where it is; and what one step alone adds.
Clicked == Movers \cup RowOps \cup {"write_env"}
Marked  == {"write_env", "ts_restart", "invite", "patch_config"}

\* The calls that a step may add to the queue.
Fresh == {c \in Sent : OfSection(c) /\ (c.cmd \in Clicked => c.here)}
Plain == {c \in Fresh : c.cmd \notin Marked}

Goes(new) == Queued(calls') /\ GoesOn(calls, calls', new)

Adds(c) == Queued(calls') /\ c \in Under(calls') /\ Under(calls') \subseteq Under(calls) \cup {c}

LEMMA GoesWider ==
  ASSUME NEW new, NEW wider, new \subseteq wider, Goes(new)
  PROVE  Goes(wider)
  BY DEF Goes, GoesOn

LEMMA SameQueue ==
  ASSUME Queued(calls), calls' = calls
  PROVE  Goes(Fresh) /\ Goes(Plain)
  BY SameGoesOn DEF Goes

LEMMA Over ==
  ASSUME Queued(calls), calls # <<>>, Done
  PROVE  /\ Goes(Fresh) /\ Goes(Plain)
         /\ Under(calls') \subseteq Under(calls)
<1>1. Under(calls) = Under(Tail(calls)) \cup {Head(calls)}
  BY HeadIsUnder
<1>2. QED
  BY <1>1, TailGoesOn DEF Goes, Done

LEMMA Added ==
  ASSUME Queued(calls), NEW c \in Fresh, calls' = Append(calls, c)
  PROVE  Goes(Fresh) /\ Goes(Plain \cup {c}) /\ (c \in Plain => Goes(Plain)) /\ Adds(c)
<1>1. c \in Sent
  BY DEF Fresh
<1>2. /\ GoesOn(calls, calls, Fresh) /\ GoesOn(calls, calls, Plain)
      /\ GoesOn(calls, calls, Plain \cup {c})
  BY SameGoesOn
<1>3. QED
  BY <1>1, <1>2, AppendGoesOn, UnderAppend DEF Goes, Adds

LEMMA NewIsFresh ==
  ASSUME NEW cmd \in Commands, cmd \in CommandsOf(host.section),
         NEW a \in Args, Allowed(cmd, a)
  PROVE  /\ NewCall(cmd, a) \in Fresh
         /\ cmd \notin Marked => NewCall(cmd, a) \in Plain
         /\ NewCall(cmd, a).cmd = cmd /\ NewCall(cmd, a).arg = a /\ NewCall(cmd, a).here
<1>1. NewCall(cmd, a) \in Call
  BY DEF NewCall, Call
<1>2. NewCall(cmd, a).cmd = cmd /\ NewCall(cmd, a).arg = a /\ NewCall(cmd, a).here
  BY DEF NewCall
<1>3. QED
  BY <1>1, <1>2 DEF Fresh, Plain, Sent, OfSection

LEMMA AskAdds ==
  ASSUME Queued(calls), NEW cmd \in Commands, cmd \in CommandsOf(host.section),
         NEW a \in Args, Allowed(cmd, a), Ask(cmd, a)
  PROVE  /\ Goes(Fresh) /\ Goes(Plain \cup {NewCall(cmd, a)})
         /\ cmd \notin Marked => Goes(Plain)
         /\ Adds(NewCall(cmd, a))
         /\ NewCall(cmd, a).cmd = cmd /\ NewCall(cmd, a).arg = a /\ NewCall(cmd, a).here
<1>1. calls' = Append(calls, NewCall(cmd, a))
  BY DEF Ask
<1> DEFINE c == NewCall(cmd, a)
<1>2. c \in Fresh /\ (cmd \notin Marked => c \in Plain)
  BY NewIsFresh
<1>3. c.cmd = cmd /\ c.arg = a /\ c.here
  BY NewIsFresh
<1> HIDE DEF c
<1>4. /\ Goes(Fresh) /\ Goes(Plain \cup {c}) /\ (cmd \notin Marked => Goes(Plain))
      /\ Adds(c)
  BY <1>1, <1>2, Added DEF c
<1>5. QED
  BY <1>3, <1>4 DEF c

\* The first call, and what its handler asks for next.
Following(q, cmd, a) == [Head(q) EXCEPT !.cmd = cmd, !.arg = a]

LEMMA FollowingIsFresh ==
  ASSUME Queued(calls), calls # <<>>, NEW cmd \in Commands, NEW a \in Args, Allowed(cmd, a),
         here => cmd \in CommandsOf(host.section), cmd \notin Clicked
  PROVE  /\ Following(calls, cmd, a) \in Fresh
         /\ cmd \notin Marked => Following(calls, cmd, a) \in Plain
         /\ Following(calls, cmd, a).cmd = cmd
         /\ Following(calls, cmd, a).arg = a
         /\ Following(calls, cmd, a).here = here
<1>1. Head(calls) \in Call
  BY HeadIsUnder DEF Sent
<1>2. /\ Following(calls, cmd, a) \in Call
      /\ Following(calls, cmd, a).cmd = cmd
      /\ Following(calls, cmd, a).arg = a
      /\ Following(calls, cmd, a).here = here
  BY <1>1 DEF Call, Following, here
<1>3. QED
  BY <1>2 DEF Fresh, Plain, Sent, OfSection

LEMMA NextQueued ==
  ASSUME Queued(calls), calls # <<>>, NEW c \in Fresh, NEW new, Plain \subseteq new, c \in new
  PROVE  /\ Queued(Append(Tail(calls), c))
         /\ GoesOn(calls, Append(Tail(calls), c), new)
         /\ Under(Append(Tail(calls), c)) = Under(Tail(calls)) \cup {c}
         /\ Under(Tail(calls)) \subseteq Under(calls)
<1>1. c \in Sent
  BY DEF Fresh
<1>2. Queued(Tail(calls)) /\ GoesOn(calls, Tail(calls), new)
  BY TailGoesOn
<1>3. QED
  BY <1>1, <1>2, AppendGoesOn, UnderAppend, HeadIsUnder

LEMMA NextAdds ==
  ASSUME Queued(calls), calls # <<>>, NEW cmd \in Commands, NEW a \in Args, Allowed(cmd, a),
         here => cmd \in CommandsOf(host.section), cmd \notin Clicked, AndThen(cmd, a)
  PROVE  /\ Goes(Fresh) /\ Goes(Plain \cup {Following(calls, cmd, a)})
         /\ cmd \notin Marked => Goes(Plain)
         /\ Adds(Following(calls, cmd, a))
         /\ Following(calls, cmd, a).cmd = cmd
         /\ Following(calls, cmd, a).arg = a
         /\ Following(calls, cmd, a).here = here
<1> DEFINE c == Following(calls, cmd, a)
<1>1. calls' = Append(Tail(calls), c)
  BY DEF AndThen, Following
<1>2. c \in Fresh /\ (cmd \notin Marked => c \in Plain)
  BY FollowingIsFresh
<1>3. Plain \subseteq Fresh
  BY DEF Plain
<1>4. /\ Goes(Fresh)
      /\ Goes(Plain \cup {c})
      /\ Adds(c)
  BY <1>1, <1>2, <1>3, NextQueued DEF Goes, Adds
<1>5. cmd \notin Marked => Goes(Plain)
  BY <1>1, <1>2, NextQueued DEF Goes
<1>6. QED
  BY <1>2, <1>4, <1>5, FollowingIsFresh

\* The call that a section makes when it is opened or the token has changed.
MountCall(section, token) ==
  CASE section = "stack"       -> NewCall("refresh_stack", [token |-> token, op |-> None])
    [] section = "tailscale"   -> NewCall("ts_refresh", token)
    [] section = "settings"    -> NewCall("get_config", token)
    [] section = "allocations" -> NewCall("list", token)
    [] section = "diagnostics" -> NewCall("diag_refresh", token)

LEMMA MountCallIsSent ==
  ASSUME NEW section \in Sections, NEW token \in Key
  PROVE  /\ MountCall(section, token) \in Sent
         /\ MountCall(section, token).cmd \in CommandsOf(section)
         /\ MountCall(section, token).cmd \notin Clicked \cup Marked
         /\ MountCall(section, token).here
<1>1. [token |-> token, op |-> None] \in StackArg
  BY DEF StackArg
<1>2. PICK cmd \in {"refresh_stack", "ts_refresh", "get_config", "list", "diag_refresh"},
           a \in Args :
        /\ MountCall(section, token) = NewCall(cmd, a)
        /\ cmd \in CommandsOf(section)
        /\ Allowed(cmd, a)
  <2>1. CASE section = "stack"
    BY <1>1, <2>1 DEF MountCall, CommandsOf, Allowed, Args, StackChecks, KeyCommands,
                      ComposeOps, RowOps
  <2>2. CASE section = "tailscale"
    BY <2>2 DEF MountCall, CommandsOf, Allowed, Args, StackChecks, KeyCommands,
                ComposeOps, RowOps
  <2>3. CASE section = "settings"
    BY <2>3 DEF MountCall, CommandsOf, Allowed, Args, StackChecks, KeyCommands,
                ComposeOps, RowOps
  <2>4. CASE section = "allocations"
    BY <2>4 DEF MountCall, CommandsOf, Allowed, Args, StackChecks, KeyCommands,
                ComposeOps, RowOps
  <2>5. CASE section = "diagnostics"
    BY <2>5 DEF MountCall, CommandsOf, Allowed, Args, StackChecks, KeyCommands,
                ComposeOps, RowOps
  <2>6. QED
    BY <2>1, <2>2, <2>3, <2>4, <2>5 DEF Sections
<1>3. NewCall(cmd, a).cmd = cmd /\ NewCall(cmd, a).arg = a /\ NewCall(cmd, a).here
  BY DEF NewCall
<1>4. cmd \in Commands /\ cmd \notin Clicked \cup Marked
  BY DEF Commands, Clicked, Marked, Movers, RowOps, ComposeOps
<1>5. NewCall(cmd, a) \in Call
  BY <1>4 DEF NewCall, Call
<1>6. QED
  BY <1>2, <1>3, <1>4, <1>5 DEF Sent

LEMMA MountedIs ==
  ASSUME NEW section \in Sections, NEW token \in Key, NEW q, Queued(q)
  PROVE  \/ q \o Mounted(section, token) = q /\ token = None
                                             /\ section \notin {"stack", "tailscale"}
         \/ q \o Mounted(section, token) = Append(q, MountCall(section, token))
<1>1. \/ Mounted(section, token) = <<>> /\ token = None
                                       /\ section \notin {"stack", "tailscale"}
      \/ Mounted(section, token) = <<MountCall(section, token)>>
  BY DEF Mounted, MountCall, Sections
<1>2. Append(q, MountCall(section, token)) = q \o <<MountCall(section, token)>>
  BY MountCallIsSent, AppendIsConcat DEF Queued
<1>3. q \o <<>> = q
  BY ConcatEmptySeq DEF Queued
<1>4. QED
  BY <1>1, <1>2, <1>3

LEMMA MountGoesOn ==
  ASSUME host.section \in Sections, Queued(calls), NEW q, Queued(q), NEW token \in Key,
         NEW new, Plain \subseteq new, GoesOn(calls, q, new),
         calls' = q \o Mounted(host.section, token)
  PROVE  Goes(new) /\ Under(q) \subseteq Under(calls')
<1>1. MountCall(host.section, token) \in Plain
  BY MountCallIsSent DEF Plain, Fresh, OfSection
<1>2. CASE calls' = q
  BY <1>2 DEF Goes
<1>3. CASE calls' = Append(q, MountCall(host.section, token))
  BY <1>1, <1>3, MountCallIsSent, AppendGoesOn, UnderAppend DEF Goes
<1>4. QED
  BY <1>2, <1>3, MountedIs
LEMMA TokenChangeGoesOn ==
  ASSUME host.section \in Sections, Queued(calls), NEW q, Queued(q), NEW token \in Key,
         NEW new, Plain \subseteq new, GoesOn(calls, q, new), NEW p, TokenChange(token, p, q)
  PROVE  Goes(new) /\ Under(q) \subseteq Under(calls')
<1>1. calls' = q \/ calls' = q \o Mounted(host.section, token)
  BY DEF TokenChange
<1>2. CASE calls' = q
  BY <1>2 DEF Goes
<1>3. CASE calls' = q \o Mounted(host.section, token)
  BY <1>3, MountGoesOn
<1>4. QED
  BY <1>1, <1>2, <1>3
-----------------------------------------------------------------------------
\* The first call is asked with what it needs, and if it is waited for, its section is
\* shown.
LEMMA HeadFacts ==
  ASSUME TypeInv, calls # <<>>
  PROVE  /\ Queued(calls) /\ Head(calls) \in Sent
         /\ arg \in Args /\ Allowed(Head(calls).cmd, arg) /\ here \in BOOLEAN
         /\ here => Head(calls).cmd \in CommandsOf(host.section)
         /\ host.section \in Sections
<1>1. Head(calls) \in Sent /\ Head(calls) \in Under(calls)
  BY HeadIsUnder DEF TypeInv
<1>2. QED
  BY <1>1 DEF TypeInv, OfSection, Sent, Call, arg, here, Host

LEMMA OneSection ==
  ASSUME NEW s \in Sections, NEW t \in Sections, NEW cmd, cmd \in CommandsOf(s),
         cmd \in CommandsOf(t)
  PROVE  s = t
<1>1. /\ CommandsOf("stack") \cap (CommandsOf("tailscale") \cup CommandsOf("settings")
                \cup CommandsOf("allocations") \cup CommandsOf("diagnostics")) = {}
      /\ CommandsOf("tailscale") \cap (CommandsOf("settings")
                \cup CommandsOf("allocations") \cup CommandsOf("diagnostics")) = {}
      /\ CommandsOf("settings") \cap (CommandsOf("allocations")
                \cup CommandsOf("diagnostics")) = {}
      /\ CommandsOf("allocations") \cap CommandsOf("diagnostics") = {}
  BY DEF CommandsOf, StackChecks, ComposeOps, RowOps
<1>2. QED
  BY <1>1 DEF Sections

\* The handlers that sleep.
Sleeps == timers' \subseteq {t \in Slept : OfSection(t)}

QueueStep(marked) == Goes(Fresh) /\ (marked \/ Goes(Plain)) /\ Sleeps

LEMMA StillSleep ==
  ASSUME TypeInv, timers' \subseteq timers
  PROVE  Sleeps
  BY DEF TypeInv, Sleeps

\* The steps of each section go on with the queue like this.
LEMMA QueueOfStackClicks ==
  ASSUME TypeInv
  PROVE  /\ EditToken => QueueStep(FALSE)
         /\ SaveEnvAndToken => QueueStep(TRUE)
         /\ FetchTokenHint => QueueStep(FALSE)
         /\ Connect => QueueStep(FALSE)
         /\ RefreshStack => QueueStep(FALSE)
         /\ \A op \in ComposeOps : Compose(op) => QueueStep(FALSE)
         /\ ShowLogs => QueueStep(FALSE)
<1> USE DEF QueueStep
<1>1. Queued(calls) /\ host \in Host /\ (StackShown => panel \in StackPanel)
  BY DEF TypeInv, PanelOf, StackShown
<1>2. StackShown => CommandsOf(host.section) = CommandsOf("stack")
  BY DEF StackShown
<1>3. host.token \in Key /\ host.section \in Sections
  BY <1>1 DEF Host, Key
<1>4. ASSUME EditToken PROVE QueueStep(FALSE)
  BY <1>1, <1>4, SameQueue, StillSleep DEF EditToken
<1>5. ASSUME SaveEnvAndToken PROVE QueueStep(TRUE)
  <2> DEFINE env == [panel.env EXCEPT !.token = panel.edit]
  <2>1. env \in HostEnvValues /\ env.token \in Tokens
    BY <1>1, <1>5 DEF SaveEnvAndToken, CanSaveToken, StackPanel, HostEnvValues
  <2>2. env \in Args /\ Allowed("write_env", env)
    BY <2>1 DEF Args, Allowed, StackChecks, KeyCommands, ComposeOps, RowOps
  <2>3. "write_env" \in Commands /\ "write_env" \in CommandsOf("stack")
    BY DEF Commands, CommandsOf
  <2>4. Ask("write_env", env) /\ StackShown /\ timers' = timers
    BY <1>5 DEF SaveEnvAndToken, CanSaveToken
  <2>5. QED
    BY <1>1, <1>2, <2>2, <2>3, <2>4, AskAdds, StillSleep
<1>6. ASSUME NEW cmd, NEW a, Ask(cmd, a), StackShown, timers' = timers,
             \/ cmd \in {"token_hint", "logs"} /\ a = None
             \/ cmd \in {"refresh_stack", "get_info"} /\ a = [token |-> host.token, op |-> None]
             \/ cmd \in ComposeOps /\ a = host.token
      PROVE  QueueStep(FALSE)
  <2>1. a \in Args /\ Allowed(cmd, a)
    BY <1>3, <1>6 DEF Args, Allowed, StackChecks, KeyCommands, ComposeOps, RowOps, Key,
       StackArg
  <2>2. cmd \in Commands /\ cmd \in CommandsOf("stack") /\ cmd \notin Marked
    BY <1>6 DEF Commands, CommandsOf, Marked, ComposeOps, StackChecks
  <2>3. QED
    BY <1>1, <1>2, <1>6, <2>1, <2>2, AskAdds, StillSleep
<1>7. ASSUME FetchTokenHint PROVE QueueStep(FALSE)
  BY <1>6, <1>7 DEF FetchTokenHint, CanHint
<1>8. ASSUME Connect PROVE QueueStep(FALSE)
  <2> DEFINE a == [token |-> panel.edit, op |-> None]
             q == Append(calls, NewCall("get_info", a))
  <2>1. panel.edit \in Tokens /\ StackShown
    BY <1>1, <1>8 DEF Connect, CanConnect, StackPanel
  <2>2. a \in Args /\ Allowed("get_info", a)
    BY <2>1 DEF Args, Allowed, StackChecks, KeyCommands, ComposeOps, RowOps, Key, StackArg
  <2>3. "get_info" \in Commands /\ "get_info" \in CommandsOf("stack") /\ "get_info" \notin Marked
    BY DEF Commands, CommandsOf, StackChecks, Marked
  <2>4. NewCall("get_info", a) \in Plain
    BY <1>2, <2>1, <2>2, <2>3, NewIsFresh
  <2>5. Queued(q) /\ GoesOn(calls, q, Plain) /\ GoesOn(calls, q, Fresh)
    BY <1>1, <2>4, SameGoesOn, AppendGoesOn DEF Plain, Fresh
  <2>6. panel.edit \in Key /\ Plain \subseteq Fresh
    BY <2>1 DEF Key, Plain
  <2>7. TokenChange(panel.edit, panel, q) /\ timers' = timers
    BY <1>8 DEF Connect
  <2> HIDE DEF q
  <2>8. QED
    BY <1>1, <1>3, <2>5, <2>6, <2>7, TokenChangeGoesOn, StillSleep
<1>9. ASSUME RefreshStack PROVE QueueStep(FALSE)
  BY <1>6, <1>9 DEF RefreshStack, CanRefresh
<1>10. ASSUME NEW op \in ComposeOps, Compose(op) PROVE QueueStep(FALSE)
  BY <1>6, <1>10 DEF Compose, CanCompose
<1>11. ASSUME ShowLogs PROVE QueueStep(FALSE)
  BY <1>6, <1>11 DEF ShowLogs
<1>12. QED
  BY <1>4, <1>5, <1>7, <1>8, <1>9, <1>10, <1>11

LEMMA QueueOfDone ==
  ASSUME TypeInv, calls # <<>>, Done, timers' = timers
  PROVE  QueueStep(FALSE)
  BY Over, StillSleep DEF TypeInv, QueueStep

LEMMA QueueOfNext ==
  ASSUME TypeInv, calls # <<>>, NEW cmd \in Commands, NEW a \in Args, Allowed(cmd, a),
         here => cmd \in CommandsOf(host.section), cmd \notin Clicked, cmd \notin Marked,
         AndThen(cmd, a), timers' = timers
  PROVE  QueueStep(FALSE)
  BY NextAdds, StillSleep DEF TypeInv, QueueStep

LEMMA QueueOfStackAnswers ==
  ASSUME TypeInv,
         \/ EnvWritten \/ EnvRead \/ TokenHinted \/ LogsShown \/ StackRefreshed
         \/ InfoAnswered \/ StatusAnswered
  PROVE  QueueStep(FALSE)
<1>1. calls # <<>>
  BY DEF EnvWritten, EnvRead, TokenHinted, LogsShown, StackRefreshed, InfoAnswered,
         StatusAnswered, Answered
<1>2. /\ Queued(calls) /\ Head(calls) \in Sent
      /\ arg \in Args /\ Allowed(Head(calls).cmd, arg)
      /\ here => Head(calls).cmd \in CommandsOf(host.section)
      /\ host.section \in Sections
  BY <1>1, HeadFacts
<1>3. CASE Done /\ timers' = timers
  BY <1>1, <1>3, QueueOfDone
<1>4. ASSUME EnvWritten, ~Done PROVE QueueStep(FALSE)
  <2> DEFINE q == Append(Tail(calls), Following(calls, "read_env", arg))
  <2>1. Head(calls).cmd = "write_env"
    BY <1>4 DEF EnvWritten, Answered
  <2>2. arg.token \in Key
    BY <1>2, <2>1 DEF Allowed, Key
  <2>3. here => host.section = "stack"
    BY <1>2, <2>1, OneSection DEF CommandsOf, Sections
  <2>4. /\ "read_env" \in Commands /\ Allowed("read_env", arg)
        /\ "read_env" \in CommandsOf("stack")
        /\ "read_env" \notin Clicked /\ "read_env" \notin Marked
    BY DEF Commands, Allowed, CommandsOf, Clicked, Marked, Movers, StackChecks,
       KeyCommands, ComposeOps, RowOps
  <2>5. [Head(calls) EXCEPT !.cmd = "read_env"] = Following(calls, "read_env", arg)
    BY <1>2 DEF Following, arg, Sent, Call
  <2>6. TokenChange(arg.token, panel, q) /\ timers' = timers
    BY <1>4, <2>5 DEF EnvWritten
  <2>7. Following(calls, "read_env", arg) \in Plain /\ Plain \subseteq Fresh
    BY <1>1, <1>2, <2>3, <2>4, FollowingIsFresh DEF Plain
  <2>8. Queued(q) /\ GoesOn(calls, q, Plain) /\ GoesOn(calls, q, Fresh)
    BY <1>1, <1>2, <2>7, NextQueued
  <2> HIDE DEF q
  <2>9. QED
    BY <1>2, <2>2, <2>6, <2>7, <2>8, TokenChangeGoesOn, StillSleep DEF QueueStep
<1>5. ASSUME NEW cmd \in {"get_info", "get_status"}, AndThen(cmd, arg), timers' = timers,
             Head(calls).cmd \in StackChecks
      PROVE  QueueStep(FALSE)
  <2>1. here => host.section = "stack"
    BY <1>2, <1>5, OneSection DEF CommandsOf, Sections
  <2>2. /\ cmd \in Commands /\ Allowed(cmd, arg) /\ cmd \in CommandsOf("stack")
        /\ cmd \notin Clicked /\ cmd \notin Marked
    BY <1>2, <1>5 DEF Commands, Allowed, CommandsOf, Clicked, Marked, Movers, StackChecks,
                      KeyCommands, ComposeOps, RowOps
  <2>3. QED
    BY <1>1, <1>2, <1>5, <2>1, <2>2, QueueOfNext
<1>6. EnvRead \/ TokenHinted \/ LogsShown \/ StatusAnswered => Done /\ timers' = timers
  BY DEF EnvRead, TokenHinted, LogsShown, StatusAnswered
<1>7. EnvWritten /\ Done => timers' = timers
  BY DEF EnvWritten
<1>8. CASE StackRefreshed
  BY <1>5, <1>8 DEF StackRefreshed, Answered, StackChecks
<1>9. CASE InfoAnswered
  BY <1>3, <1>5, <1>9 DEF InfoAnswered, Answered, StackChecks
<1>10. QED
  BY <1>3, <1>4, <1>6, <1>7, <1>8, <1>9

\* A handler that sleeps, in a section for which it may.
LEMMA AddsSleeper ==
  ASSUME TypeInv, calls # <<>>, NEW t \in Call, Allowed(t.cmd, t.arg),
         t.cmd \in {"refresh_stack", "ts_refresh"},
         t.cmd = "refresh_stack" => t.arg.op # None,
         t.here => t.cmd \in CommandsOf(host.section),
         Done, timers' = timers \cup {t}
  PROVE  QueueStep(FALSE)
<1>1. t \in Slept /\ OfSection(t)
  BY DEF Slept, Sent, OfSection
<1>2. Sleeps
  BY <1>1 DEF Sleeps, TypeInv
<1>3. QED
  BY <1>2, Over DEF TypeInv, QueueStep

LEMMA Awakes ==
  ASSUME TypeInv, NEW t \in timers, timers' = timers \ {t}, calls' = Append(calls, t)
  PROVE  QueueStep(FALSE) /\ Adds(t)
<1>1. t \in Slept /\ OfSection(t)
  BY DEF TypeInv
<1>2. t \in Plain /\ t \in Fresh
  BY <1>1 DEF Plain, Fresh, Slept, Clicked, Marked, Movers, ComposeOps, RowOps
<1>3. QED
  BY <1>2, Added, StillSleep DEF TypeInv, QueueStep

LEMMA QueueOfComposed ==
  ASSUME TypeInv, NEW op \in ComposeOps, Composed(op)
  PROVE  QueueStep(FALSE)
<1>1. calls # <<>> /\ Head(calls).cmd = op /\ Done
  BY DEF Composed, Answered
<1>2. CASE timers' = timers
  BY <1>1, <1>2, QueueOfDone
<1> DEFINE t == [cmd |-> "refresh_stack", here |-> here, arg |-> [token |-> arg, op |-> op]]
<1>3. CASE timers' = timers \cup {t}
  <2>1. /\ here \in BOOLEAN /\ Allowed(op, arg) /\ host.section \in Sections
        /\ here => op \in CommandsOf(host.section)
    BY <1>1, HeadFacts
  <2>2. arg \in Key
    BY <2>1 DEF Allowed, KeyCommands
  <2>3. here => host.section = "stack"
    BY <2>1, OneSection DEF CommandsOf, Sections
  <2>4. [token |-> arg, op |-> op] \in StackArg
    BY <2>2 DEF StackArg
  <2>5. t \in Call
    BY <2>1, <2>4 DEF Call, Args, Commands
  <2>6. Allowed(t.cmd, t.arg)
    BY <2>4 DEF Allowed, KeyCommands, ComposeOps, RowOps
  <2>7. t.here => t.cmd \in CommandsOf(host.section)
    BY <2>3 DEF CommandsOf, StackChecks
  <2>8. t.cmd = "refresh_stack" /\ t.arg.op # None
    BY HostAssumption DEF ComposeOps
  <2> HIDE DEF t
  <2>9. QED
    BY <1>1, <1>3, <2>5, <2>6, <2>7, <2>8, AddsSleeper
<1>4. QED
  BY <1>2, <1>3 DEF Composed

LEMMA QueueOfStack ==
  ASSUME TypeInv, StackSteps
  PROVE  QueueStep(SaveEnvAndToken)
<1>1. StackWaited => QueueStep(FALSE)
  BY Awakes DEF StackWaited
<1>2. QueueStep(FALSE) => QueueStep(SaveEnvAndToken)
  BY DEF QueueStep
<1>3. QueueStep(TRUE) /\ SaveEnvAndToken => QueueStep(SaveEnvAndToken)
  BY DEF QueueStep
<1>4. QED
  BY <1>1, <1>2, <1>3, QueueOfStackClicks, QueueOfStackAnswers, QueueOfComposed
  DEF StackSteps
-----------------------------------------------------------------------------
LEMMA QueueOfTailClicks ==
  ASSUME TypeInv
  PROVE  /\ Apply \/ EditEnv => QueueStep(FALSE)
         /\ RefreshAll \/ SaveAndRestart \/ DoRefreshOverlay => QueueStep(FALSE)
<1>1. Queued(calls) /\ host \in Host /\ (TailShown => panel \in TailPanel)
  BY DEF TypeInv, PanelOf, TailShown
<1>2. TailShown => CommandsOf(host.section) = CommandsOf("tailscale")
  BY DEF TailShown
<1>3. host.token \in Key
  BY <1>1 DEF Host, Key
<1>4. ASSUME Apply \/ EditEnv PROVE QueueStep(FALSE)
  BY <1>1, <1>4, SameQueue, StillSleep DEF Apply, EditEnv, QueueStep
<1>5. ASSUME NEW cmd, NEW a, Ask(cmd, a), TailShown, timers' = timers,
             \/ cmd \in {"ts_refresh", "ts_overlay"} /\ a = host.token
             \/ cmd = "ts_write" /\ a \in WriteArg
      PROVE  QueueStep(FALSE)
  <2>1. a \in Args /\ Allowed(cmd, a)
    BY <1>3, <1>5 DEF Args, Allowed, StackChecks, KeyCommands, ComposeOps, RowOps
  <2>2. cmd \in Commands /\ cmd \in CommandsOf("tailscale") /\ cmd \notin Marked
    BY <1>5 DEF Commands, CommandsOf, Marked
  <2>3. QED
    BY <1>1, <1>2, <1>5, <2>1, <2>2, AskAdds, StillSleep DEF QueueStep
<1>6. ASSUME SaveAndRestart PROVE QueueStep(FALSE)
  <2>1. TailShown
    BY <1>6 DEF SaveAndRestart, CanSaveAndRefresh
  <2>2. [env |-> panel.env, restart |-> panel.restart, token |-> host.token] \in WriteArg
    BY <1>1, <1>3, <2>1 DEF TailPanel, WriteArg
  <2>3. QED
    BY <1>5, <1>6, <2>1, <2>2 DEF SaveAndRestart
<1>7. RefreshAll \/ DoRefreshOverlay => QueueStep(FALSE)
  BY <1>5 DEF RefreshAll, DoRefreshOverlay, CanRefreshOverlay, CanSaveAndRefresh
<1>8. QED
  BY <1>4, <1>6, <1>7

LEMMA QueueOfTailAnswers ==
  ASSUME TypeInv, TsRefreshed \/ OverlayAnswered \/ TsWritten \/ TsRestarted
  PROVE  QueueStep(TsWritten)
<1>1. calls # <<>>
  BY DEF TsRefreshed, OverlayAnswered, TsWritten, TsRestarted, Answered
<1>2. /\ Queued(calls) /\ Head(calls) \in Sent
      /\ arg \in Args /\ Allowed(Head(calls).cmd, arg) /\ here \in BOOLEAN
      /\ here => Head(calls).cmd \in CommandsOf(host.section)
      /\ host.section \in Sections
  BY <1>1, HeadFacts
<1>3. QueueStep(FALSE) => QueueStep(TsWritten)
  BY DEF QueueStep
<1>4. CASE Done /\ timers' = timers
  BY <1>1, <1>3, <1>4, QueueOfDone
<1>5. Head(calls).cmd \in CommandsOf("tailscale")
  BY DEF TsRefreshed, OverlayAnswered, TsWritten, TsRestarted, Answered, CommandsOf
<1>6. here => host.section = "tailscale"
  BY <1>2, <1>5, OneSection DEF Sections
<1>7. ASSUME NEW cmd \in {"ts_agent", "ts_refresh", "ts_restart"}, NEW a \in Key,
             AndThen(cmd, a), timers' = timers, cmd = "ts_restart" => TsWritten
      PROVE  QueueStep(TsWritten)
  <2>1. /\ cmd \in Commands /\ a \in Args /\ Allowed(cmd, a)
        /\ cmd \in CommandsOf("tailscale") /\ cmd \notin Clicked
    BY <1>7 DEF Commands, Args, Allowed, CommandsOf, Clicked, Movers, StackChecks,
                KeyCommands, ComposeOps, RowOps
  <2>2. Goes(Fresh) /\ (cmd \notin Marked => Goes(Plain))
    BY <1>1, <1>2, <1>6, <1>7, <2>1, NextAdds
  <2>3. cmd \in Marked => TsWritten
    BY <1>7 DEF Marked
  <2>4. QED
    BY <1>7, <2>2, <2>3, StillSleep DEF QueueStep
<1>8. ASSUME TsRefreshed PROVE QueueStep(TsWritten)
  <2>1. arg \in Key
    BY <1>2, <1>8 DEF TsRefreshed, Answered, Allowed, KeyCommands
  <2>2. QED
    BY <1>4, <1>7, <1>8, <2>1 DEF TsRefreshed
<1>9. ASSUME TsWritten PROVE QueueStep(TsWritten)
  <2>1. arg.token \in Key
    BY <1>2, <1>9 DEF TsWritten, Answered, Allowed, WriteArg
  <2>2. QED
    BY <1>4, <1>7, <1>9, <2>1 DEF TsWritten
<1>10. ASSUME TsRestarted PROVE QueueStep(TsWritten)
  <2> DEFINE t == [cmd |-> "ts_refresh", here |-> here, arg |-> arg]
  <2>1. CASE timers' = timers
    BY <1>4, <1>10, <2>1 DEF TsRestarted
  <2>2. CASE timers' = timers \cup {t}
    <3>1. arg \in Key
      BY <1>2, <1>10 DEF TsRestarted, Answered, Allowed, KeyCommands
    <3>2. t \in Call /\ Allowed(t.cmd, t.arg)
      BY <1>2, <3>1 DEF Call, Args, Commands, Allowed, StackChecks, KeyCommands,
         ComposeOps, RowOps
    <3>3. t.here => t.cmd \in CommandsOf(host.section)
      BY <1>6 DEF CommandsOf
    <3>4. t.cmd = "ts_refresh"
      OBVIOUS
    <3>5. Done
      BY <1>10 DEF TsRestarted
    <3> HIDE DEF t
    <3>6. QED
      BY <1>1, <1>3, <2>2, <3>2, <3>3, <3>4, <3>5, AddsSleeper
  <2>3. QED
    BY <1>10, <2>1, <2>2 DEF TsRestarted
<1>11. CASE OverlayAnswered
  BY <1>4, <1>11 DEF OverlayAnswered
<1>12. QED
  BY <1>8, <1>9, <1>10, <1>11

LEMMA QueueOfTail ==
  ASSUME TypeInv, TailSteps
  PROVE  QueueStep(TsWritten)
<1>1. TsWaited => QueueStep(FALSE)
  BY Awakes DEF TsWaited
<1>2. QueueStep(FALSE) => QueueStep(TsWritten)
  BY DEF QueueStep
<1>3. QED
  BY <1>1, <1>2, QueueOfTailClicks, QueueOfTailAnswers DEF TailSteps

LEMMA QueueOfAllocClicks ==
  ASSUME TypeInv
  PROVE  /\ AgentStep \/ ConfirmInvite \/ EnterResponse \/ Cancel \/ ToggleCreate
              => QueueStep(FALSE)
         /\ \A op \in {"suspend", "retire", "delete"} :
              AskFirst(op) \/ DoConfirmed(op) => QueueStep(FALSE)
         /\ DoGenerateInvite => QueueStep(TRUE)
         /\ DoImportResponse \/ DoResume \/ LoadAllocations \/ DoCreate => QueueStep(FALSE)
<1>1. Queued(calls) /\ host \in Host
  BY DEF TypeInv
<1>2. AllocShown => CommandsOf(host.section) = CommandsOf("allocations")
  BY DEF AllocShown
<1>3. host.token \in Key
  BY <1>1 DEF Host, Key
<1>4. ASSUME UNCHANGED <<calls, timers>> PROVE QueueStep(FALSE)
  BY <1>1, <1>4, SameQueue, StillSleep DEF QueueStep
<1>5. AgentStep \/ ConfirmInvite \/ EnterResponse \/ Cancel \/ ToggleCreate
        => UNCHANGED <<calls, timers>>
  BY DEF AgentStep, ConfirmInvite, EnterResponse, Cancel, ToggleCreate
<1>6. ASSUME NEW op, AskFirst(op) PROVE UNCHANGED <<calls, timers>>
  BY <1>6 DEF AskFirst
<1>7. ASSUME NEW op \in RowOps, NEW told \in BOOLEAN, RowCall(op, told), AllocShown,
             timers' = timers
      PROVE  QueueStep(TRUE) /\ (op # "invite" => QueueStep(FALSE))
  <2> DEFINE a == [op |-> op, token |-> host.token, told |-> told]
  <2>1. a \in RowArg /\ a.op = op
    BY <1>3, <1>7 DEF RowArg
  <2>2. a \in Args /\ Allowed(op, a)
    BY <1>7, <2>1 DEF Args, Allowed, StackChecks, KeyCommands, ComposeOps, RowOps
  <2>3. op \in Commands /\ op \in CommandsOf("allocations") /\ (op # "invite" => op \notin Marked)
    BY <1>7 DEF Commands, CommandsOf, Marked, RowOps
  <2>4. Ask(op, a)
    BY <1>7 DEF RowCall
  <2>5. QED
    BY <1>1, <1>2, <1>7, <2>2, <2>3, <2>4, AskAdds, StillSleep DEF QueueStep
<1>8. ASSUME NEW cmd \in {"list", "create"}, Ask(cmd, host.token), AllocShown,
             timers' = timers
      PROVE  QueueStep(FALSE)
  <2>1. host.token \in Args /\ Allowed(cmd, host.token)
    BY <1>3, <1>8 DEF Args, Allowed, StackChecks, KeyCommands, ComposeOps, RowOps
  <2>2. cmd \in Commands /\ cmd \in CommandsOf("allocations") /\ cmd \notin Marked
    BY <1>8 DEF Commands, CommandsOf, Marked, RowOps
  <2>3. QED
    BY <1>1, <1>2, <1>8, <2>1, <2>2, AskAdds, StillSleep DEF QueueStep
<1>9. ASSUME NEW op \in {"suspend", "retire", "delete"}, DoConfirmed(op)
      PROVE  QueueStep(FALSE)
  BY <1>7, <1>9 DEF DoConfirmed, Offered, RowOps
<1>10. ASSUME DoGenerateInvite PROVE QueueStep(TRUE)
  <2>1. (Needed # {} \/ panel.overlay = None) \in BOOLEAN
    OBVIOUS
  <2>2. QED
    BY <1>7, <1>10, <2>1 DEF DoGenerateInvite, InviteClicked, Offered, RowOps
<1>11. DoImportResponse \/ DoResume => QueueStep(FALSE)
  BY <1>7 DEF DoImportResponse, DoResume, Offered, RowOps
<1>12. LoadAllocations \/ DoCreate => QueueStep(FALSE)
  BY <1>8 DEF LoadAllocations, DoCreate
<1>13. QED
  BY <1>4, <1>5, <1>6, <1>9, <1>10, <1>11, <1>12

LEMMA QueueOfAllocAnswers ==
  ASSUME TypeInv, RowAnswered \/ Listed \/ Created
  PROVE  QueueStep(FALSE)
<1>1. calls # <<>>
  BY DEF RowAnswered, Listed, Created, Answered
<1>2. /\ Queued(calls) /\ Head(calls) \in Sent
      /\ arg \in Args /\ Allowed(Head(calls).cmd, arg) /\ here \in BOOLEAN
      /\ here => Head(calls).cmd \in CommandsOf(host.section)
      /\ host.section \in Sections
  BY <1>1, HeadFacts
<1>3. CASE Done /\ timers' = timers
  BY <1>1, <1>3, QueueOfDone
<1>4. Head(calls).cmd \in CommandsOf("allocations")
  BY DEF RowAnswered, Listed, Created, Answered, CommandsOf
<1>5. here => host.section = "allocations"
  BY <1>2, <1>4, OneSection DEF Sections
<1>6. ASSUME NEW a \in Key, AndThen("list", a), timers' = timers
      PROVE  QueueStep(FALSE)
  <2>1. /\ "list" \in Commands /\ a \in Args /\ Allowed("list", a)
        /\ "list" \in CommandsOf("allocations")
        /\ "list" \notin Clicked /\ "list" \notin Marked
    BY <1>6 DEF Commands, Args, Allowed, CommandsOf, Clicked, Marked, Movers, StackChecks,
                KeyCommands, ComposeOps, RowOps
  <2>2. QED
    BY <1>1, <1>5, <1>6, <2>1, QueueOfNext
<1>7. CASE RowAnswered
  <2>1. arg.token \in Key
    BY <1>2, <1>7 DEF RowAnswered, Answered, Allowed, RowArg
  <2>2. QED
    BY <1>3, <1>6, <1>7, <2>1 DEF RowAnswered, RowLoads
<1>8. CASE Created
  <2>1. arg \in Key
    BY <1>2, <1>8 DEF Created, Answered, Allowed, KeyCommands
  <2>2. QED
    BY <1>3, <1>6, <1>8, <2>1 DEF Created
<1>9. CASE Listed
  BY <1>3, <1>9 DEF Listed
<1>10. QED
  BY <1>7, <1>8, <1>9

LEMMA QueueOfAlloc ==
  ASSUME TypeInv, AllocSteps
  PROVE  QueueStep(DoGenerateInvite)
<1>1. QueueStep(FALSE) => QueueStep(DoGenerateInvite)
  BY DEF QueueStep
<1>2. QueueStep(TRUE) /\ DoGenerateInvite => QueueStep(DoGenerateInvite)
  BY DEF QueueStep
<1>3. QED
  BY <1>1, <1>2, QueueOfAllocClicks, QueueOfAllocAnswers DEF AllocSteps

LEMMA QueueOfAgentPanels ==
  ASSUME TypeInv, AgentPanelSteps
  PROVE  QueueStep(SaveSettings)
<1>1. Queued(calls) /\ host \in Host
  BY DEF TypeInv
<1>2. host.token \in Key
  BY <1>1 DEF Host, Key
<1>3. ASSUME UNCHANGED <<calls, timers>> PROVE QueueStep(FALSE)
  BY <1>1, <1>3, SameQueue, StillSleep DEF QueueStep
<1>4. EditSettings \/ SavedFades => UNCHANGED <<calls, timers>>
  BY DEF EditSettings, SavedFades
<1>5. ConfigLoaded \/ SettingsSaved \/ DiagnosticsRefreshed \/ Verified
        => calls # <<>> /\ Done /\ timers' = timers
  BY DEF ConfigLoaded, SettingsSaved, DiagnosticsRefreshed, Verified, Answered
<1>6. ASSUME SaveSettings PROVE QueueStep(SaveSettings)
  <2> DEFINE a == [token |-> host.token, draft |-> panel.draft]
  <2>1. host.section = "settings"
    BY <1>6 DEF SaveSettings, SettingsShown
  <2>2. panel.draft \in Configs
    BY <1>6, <2>1 DEF SaveSettings, SettingsShown, TypeInv, DraftIsKnown, PanelOf,
       SettingsPanel
  <2>3. a \in ConfigArg
    BY <1>2, <2>2 DEF ConfigArg
  <2>4. a \in Args /\ Allowed("patch_config", a)
    BY <2>3 DEF Args, Allowed, StackChecks, KeyCommands, ComposeOps, RowOps
  <2>5. /\ "patch_config" \in Commands /\ "patch_config" \in CommandsOf(host.section)
    BY <2>1 DEF Commands, CommandsOf
  <2>6. Ask("patch_config", a) /\ timers' = timers
    BY <1>6 DEF SaveSettings
  <2>7. QED
    BY <1>1, <1>6, <2>4, <2>5, <2>6, AskAdds, StillSleep DEF QueueStep
<1>7. ASSUME NEW cmd, NEW a, Ask(cmd, a), host.section = "diagnostics", timers' = timers,
             \/ cmd = "diag_refresh" /\ a = host.token
             \/ cmd = "verify" /\ a = None
      PROVE  QueueStep(FALSE)
  <2>1. a \in Args /\ Allowed(cmd, a)
    BY <1>2, <1>7 DEF Args, Allowed, StackChecks, KeyCommands, ComposeOps, RowOps, Key
  <2>2. cmd \in Commands /\ cmd \in CommandsOf(host.section) /\ cmd \notin Marked
    BY <1>7 DEF Commands, CommandsOf, Marked
  <2>3. QED
    BY <1>1, <1>7, <2>1, <2>2, AskAdds, StillSleep DEF QueueStep
<1>8. RefreshDiagnostics \/ RunVerify => QueueStep(FALSE)
  BY <1>7 DEF RefreshDiagnostics, RunVerify, CanDiagnose
<1>9. QueueStep(FALSE) => QueueStep(SaveSettings)
  BY DEF QueueStep
<1>10. QED
  BY <1>3, <1>4, <1>5, <1>6, <1>8, <1>9, QueueOfDone DEF AgentPanelSteps

\* What is left behind goes on, and nothing waits for it.
LEMMA LeftCalls ==
  ASSUME Queued(calls)
  PROVE  /\ Queued(Left)
         /\ Len(Left) = Len(calls) /\ Len(calls) \in Nat
         /\ \A i \in 1..Len(calls) : /\ Left[i].cmd = calls[i].cmd
                                     /\ Left[i].arg = calls[i].arg
                                     /\ ~Left[i].here
         /\ \A c \in Under(Left) : ~c.here /\ \E d \in Under(calls) : c.cmd = d.cmd /\ c.arg = d.arg
<1>1. \A c \in Sent : /\ [c EXCEPT !.here = FALSE] \in Sent
                      /\ [c EXCEPT !.here = FALSE].cmd = c.cmd
                      /\ [c EXCEPT !.here = FALSE].arg = c.arg
                      /\ ~[c EXCEPT !.here = FALSE].here
  BY DEF Sent, Call
<1>2. Len(calls) \in Nat /\ \A i \in 1..Len(calls) : calls[i] \in Sent
  BY LenProperties, ElementOfSeq DEF Queued
<1>3. Left \in [1..Len(calls) -> Sent]
  BY <1>1, <1>2 DEF Left
<1>4. Left \in Seq(Sent)
  BY <1>2, <1>3, SeqDef
<1>5. Len(Left) = Len(calls)
  BY <1>2, <1>3, <1>4, LenProperties
<1>6. \A i \in 1..Len(calls) : /\ Left[i].cmd = calls[i].cmd
                               /\ Left[i].arg = calls[i].arg
                               /\ ~Left[i].here
  BY <1>1, <1>2 DEF Left
<1>7. \A c \in Under(Left) : ~c.here /\ \E d \in Under(calls) : c.cmd = d.cmd /\ c.arg = d.arg
  BY <1>5, <1>6 DEF Under
<1>8. QED
  BY <1>2, <1>4, <1>5, <1>6, <1>7 DEF Queued
-----------------------------------------------------------------------------
\* The types of the calls and sleepers, after a step within a section.
CallTypes == Queued(calls) /\ timers \subseteq Slept /\ \A c \in Under(calls) \cup timers : OfSection(c)

LEMMA TypesOfQueue ==
  ASSUME TypeInv, NEW marked, QueueStep(marked), host'.section = host.section
  PROVE  CallTypes'
<1>1. Queued(calls') /\ Under(calls') \subseteq Under(calls) \cup Fresh
  BY UnderNext DEF TypeInv, QueueStep, Goes
<1>2. \A c : OfSection(c) => OfSection(c)'
  BY DEF OfSection
<1>3. QED
  BY <1>1, <1>2 DEF CallTypes, TypeInv, QueueStep, Sleeps, Fresh

\* Who writes .env gives the keys he wants to change.
EnvFile == [bind : Binds, addr : Addrs \cup {""}, token : Tokens \cup {""}]

LEMMA Written ==
  ASSUME saved \in EnvFile, NEW env \in HostEnvValues, WriteEnv(env)
  PROVE  /\ saved' \in EnvFile
         /\ saved'.addr = IF env.addr = None THEN saved.addr ELSE env.addr
<1>1. DOMAIN saved = {"bind", "addr", "token"}
  BY DEF EnvFile
<1>2. saved' = [bind  |-> IF env.bind = None THEN saved.bind ELSE env.bind,
                addr  |-> IF env.addr = None THEN saved.addr ELSE env.addr,
                token |-> IF env.token = None THEN saved.token ELSE env.token]
  BY <1>1 DEF WriteEnv
<1>3. QED
  BY <1>2 DEF EnvFile, HostEnvValues

LEMMA ReadIsEnv ==
  ASSUME saved \in EnvFile, NEW env \in ReadEnv
  PROVE  /\ env \in HostEnvValues
         /\ env.addr = None \/ env.addr = saved.addr
<1>1. saved \in HostEnvValues /\ NoEnv \in HostEnvValues /\ NoEnv.addr = None
  BY DEF EnvFile, HostEnvValues, NoEnv
<1>2. QED
  BY <1>1 DEF ReadEnv

LEMMA WorldOfCompose ==
  ASSUME WorldTypes, ComposeUp \/ ComposeDown \/ ComposeFailed
  PROVE  WorldTypes'
<1>1. CASE ComposeUp
  <2>1. [bind |-> saved.bind, addr |-> saved.addr] \in [bind : Binds, addr : Addrs \cup {""}]
    BY DEF WorldTypes
  <2>2. saved.token # "" => saved.token \in Tokens
    BY DEF WorldTypes
  <2>3. agent' \in Agent
    BY <1>1, <2>2 DEF ComposeUp, WorldTypes, Agent
  <2>4. QED
    BY <1>1, <2>1, <2>3 DEF ComposeUp, WorldTypes
<1>2. CASE ComposeDown
  BY <1>2 DEF ComposeDown, WorldTypes
<1>3. CASE ComposeFailed
  BY <1>3 DEF ComposeFailed, WorldTypes
<1>4. QED
  BY <1>1, <1>2, <1>3

LEMMA WorldOfWrite ==
  ASSUME WorldTypes, NEW env \in HostEnvValues, WriteEnv(env), UNCHANGED <<running, agent>>
  PROVE  WorldTypes'
  BY Written DEF WorldTypes, EnvFile

\* The section that is open, and its draft if it has one.
PanelTypes == panel \in PanelOf(host.section) /\ DraftIsKnown

NoDraftIsAdded ==
  \A c \in Under(calls') : c.cmd = "patch_config" => c \in Under(calls)

LEMMA PlainHasNoDraft ==
  ASSUME TypeInv, Goes(Plain)
  PROVE  NoDraftIsAdded
<1>1. Under(calls') \subseteq Under(calls) \cup Plain
  BY UnderNext DEF TypeInv, Goes
<1>2. QED
  BY <1>1 DEF NoDraftIsAdded, Plain, Marked

LEMMA PanelKept ==
  ASSUME TypeInv, host'.section = host.section, NoDraftIsAdded, panel' = panel
  PROVE  PanelTypes'
<1>1. DraftIsKnown'
  BY DEF TypeInv, DraftIsKnown, NoDraftIsAdded
<1>2. QED
  BY <1>1 DEF PanelTypes, TypeInv

LEMMA PanelOfOthers ==
  ASSUME host'.section # "settings", panel' \in PanelOf(host'.section)
  PROVE  PanelTypes'
  BY DEF PanelTypes, DraftIsKnown

LEMMA TypesOfTokenChange ==
  ASSUME TypeInv, NEW token \in Key, NEW q, TokenChange(token, panel, q),
         NoDraftIsAdded
  PROVE  host' \in Host /\ host'.section = host.section /\ PanelTypes'
<1>1. host' \in Host /\ host'.section = host.section
  BY DEF TypeInv, TokenChange, Host, Key
<1>2. CASE panel' = panel
  BY <1>1, <1>2, PanelKept
<1>3. CASE host.section = "stack" /\ panel' = [panel EXCEPT !.edit = token]
  <2>1. panel' \in StackPanel
    BY <1>3 DEF TypeInv, PanelOf, StackPanel, Key
  <2>2. QED
    BY <1>1, <1>3, <2>1, PanelOfOthers DEF PanelOf
<1>4. CASE /\ host.section \in {"tailscale", "allocations", "diagnostics"}
           /\ panel' = [panel EXCEPT !.busy = Loading(host.section, token)]
  <2>1. panel' \in PanelOf(host.section)
    <3>1. CASE host.section = "tailscale"
      BY <1>4, <3>1 DEF TypeInv, PanelOf, TailPanel, Loading
    <3>2. CASE host.section = "allocations"
      BY <1>4, <3>2 DEF TypeInv, PanelOf, AllocPanel, Loading
    <3>3. CASE host.section = "diagnostics"
      BY <1>4, <3>3 DEF TypeInv, PanelOf, DiagnosticsPanel, Loading
    <3>4. QED
      BY <1>4, <3>1, <3>2, <3>3
  <2>2. QED
    BY <1>1, <1>4, <2>1, PanelOfOthers
<1>5. host.section \in Sections
  BY DEF TypeInv, Host
<1>6. QED
  BY <1>2, <1>3, <1>4, <1>5 DEF TokenChange, Sections
-----------------------------------------------------------------------------
\* The variables but the queue and the sleepers, after a step within a section.
Rest == host \in Host /\ PanelTypes /\ WorldTypes /\ clicks \in 0..MaxClicks

Types == Rest' /\ host'.section = host.section

LEMMA TypesThen ==
  ASSUME TypeInv, NEW marked, QueueStep(marked), Types
  PROVE  TypeInv' /\ host'.section = host.section
<1>1. CallTypes'
  BY TypesOfQueue DEF Types
<1>2. QED
  BY <1>1 DEF CallTypes, Types, Rest, PanelTypes, TypeInv

LEMMA CounterTypes ==
  ASSUME TypeInv, Click \/ clicks' = clicks
  PROVE  clicks' \in 0..MaxClicks
  BY QueueAssumption DEF TypeInv, Click

LEMMA WorldKept ==
  ASSUME TypeInv, UNCHANGED world
  PROVE  WorldTypes'
  BY DEF TypeInv, world, WorldTypes

\* A click that changes the open section only.
LEMMA PanelClicked ==
  ASSUME TypeInv, host' = host, UNCHANGED world, Click \/ clicks' = clicks, PanelTypes'
  PROVE  Types
  BY CounterTypes, WorldKept DEF Types, Rest, TypeInv

LEMMA TypesOfStackClicks ==
  ASSUME TypeInv,
         \/ EditToken \/ SaveEnvAndToken \/ FetchTokenHint \/ Connect \/ RefreshStack
         \/ ShowLogs \/ \E op \in ComposeOps : Compose(op)
  PROVE  Types
<1>1. /\ StackShown
      /\ UNCHANGED world
      /\ Click
  BY DEF EditToken, SaveEnvAndToken, CanSaveToken, FetchTokenHint, CanHint, Connect,
     CanConnect, RefreshStack, CanRefresh, ShowLogs, Compose, CanCompose, Ask
<1>2. panel \in StackPanel /\ host.section = "stack"
  BY <1>1 DEF StackShown, TypeInv, PanelOf
<1>3. ASSUME panel' \in StackPanel, host' = host PROVE Types
  <2>1. PanelTypes'
    BY <1>2, <1>3, PanelOfOthers DEF PanelOf
  <2>2. QED
    BY <1>1, <1>3, <2>1, PanelClicked
<1>4. CASE EditToken
  BY <1>2, <1>3, <1>4 DEF EditToken, StackPanel
<1>5. CASE SaveEnvAndToken
  BY <1>2, <1>3, <1>5 DEF SaveEnvAndToken, StackPanel
<1>6. CASE FetchTokenHint
  BY <1>2, <1>3, <1>6 DEF FetchTokenHint, StackPanel
<1>7. CASE Connect
  <2>1. panel.edit \in Key
    BY <1>2 DEF StackPanel, Key
  <2>2. NoDraftIsAdded
    BY <1>7, QueueOfStackClicks, PlainHasNoDraft DEF QueueStep
  <2>3. host' \in Host /\ host'.section = host.section /\ PanelTypes'
    BY <1>7, <2>1, <2>2, TypesOfTokenChange DEF Connect
  <2>4. QED
    BY <1>1, <2>3, CounterTypes, WorldKept DEF Types, Rest
<1>8. CASE RefreshStack
  BY <1>2, <1>3, <1>8 DEF RefreshStack
<1>9. CASE ShowLogs
  BY <1>2, <1>3, <1>9 DEF ShowLogs, StackPanel
<1>10. ASSUME NEW op \in ComposeOps, Compose(op) PROVE Types
  BY <1>2, <1>3, <1>10 DEF Compose, StackPanel
<1>11. QED
  BY <1>4, <1>5, <1>6, <1>7, <1>8, <1>9, <1>10

\* Where an answer is waited for, the section that asked is open.
LEMMA AnswererIsShown ==
  ASSUME TypeInv, calls # <<>>, NEW section \in Sections,
         Head(calls).cmd \in CommandsOf(section), here
  PROVE  host.section = section /\ panel \in PanelOf(section)
<1>1. host.section = section
  BY HeadFacts, OneSection
<1>2. QED
  BY <1>1 DEF TypeInv

\* The answer is put into the section, or nobody waits for it.
LEMMA Patched ==
  ASSUME TypeInv, calls # <<>>, NEW section \in Sections \ {"settings"},
         Head(calls).cmd \in CommandsOf(section), NoDraftIsAdded,
         host'.section = host.section, NEW p, Patch(p), here => p \in PanelOf(section)
  PROVE  PanelTypes'
<1>1. CASE here
  <2>1. panel' \in PanelOf(section) /\ host'.section = section
    BY <1>1, AnswererIsShown DEF Patch
  <2>2. QED
    BY <2>1, PanelOfOthers
<1>2. CASE ~here
  BY <1>2, PanelKept DEF Patch
<1>3. QED
  BY <1>1, <1>2

LEMMA TypesOfStackAnswers ==
  ASSUME TypeInv,
         \/ EnvWritten \/ EnvRead \/ TokenHinted \/ LogsShown \/ StackRefreshed
         \/ InfoAnswered \/ StatusAnswered
  PROVE  Types
<1>1. calls # <<>> /\ Head(calls).cmd \in CommandsOf("stack")
  BY DEF EnvWritten, EnvRead, TokenHinted, LogsShown, StackRefreshed, InfoAnswered,
         StatusAnswered, Answered, CommandsOf, StackChecks
<1>2. Allowed(Head(calls).cmd, arg) /\ here \in BOOLEAN
  BY <1>1, HeadFacts
<1>3. NoDraftIsAdded
  BY QueueOfStackAnswers, PlainHasNoDraft DEF QueueStep
<1>4. here => panel \in StackPanel
  BY <1>1, AnswererIsShown DEF Sections, PanelOf
<1>5. clicks' = clicks
  BY DEF EnvWritten, EnvRead, TokenHinted, LogsShown, StackRefreshed, InfoAnswered,
         StatusAnswered
<1>6. ASSUME NEW p, Patch(p), here => p \in StackPanel, UNCHANGED world,
             host' \in Host, host'.section = host.section
      PROVE  Types
  <2>1. PanelTypes'
    BY <1>1, <1>3, <1>6, Patched DEF Sections, PanelOf
  <2>2. QED
    BY <1>5, <1>6, <2>1, CounterTypes, WorldKept DEF Types, Rest
<1>7. host \in Host /\ saved \in EnvFile
  BY DEF TypeInv, WorldTypes, EnvFile
<1>8. CASE EnvWritten
  <2>1. arg \in HostEnvValues /\ arg.token \in Key
    BY <1>2, <1>8 DEF EnvWritten, Answered, Allowed, Key
  <2>2. CASE WriteEnv(arg) /\ TokenChange(arg.token, panel,
                       Append(Tail(calls), [Head(calls) EXCEPT !.cmd = "read_env"]))
    <3>1. WorldTypes'
      BY <1>8, <2>1, <2>2, WorldOfWrite DEF EnvWritten, TypeInv
    <3>2. host' \in Host /\ host'.section = host.section /\ PanelTypes'
      BY <1>3, <2>1, <2>2, TypesOfTokenChange
    <3>3. QED
      BY <1>5, <3>1, <3>2, CounterTypes DEF Types, Rest
  <2>3. CASE Patch([panel EXCEPT !.busy = None]) /\ UNCHANGED <<saved, host>>
    <3>1. here => [panel EXCEPT !.busy = None] \in StackPanel
      BY <1>4 DEF StackPanel
    <3>2. UNCHANGED world
      BY <1>8, <2>3 DEF EnvWritten, world
    <3>3. QED
      BY <1>6, <1>7, <2>3, <3>1, <3>2
  <2>4. QED
    BY <1>8, <2>2, <2>3 DEF EnvWritten
<1>9. CASE EnvRead
  <2>1. PICK env \in ReadEnv : Patch([panel EXCEPT !.env = env, !.busy = None])
    BY <1>9 DEF EnvRead
  <2>2. here => [panel EXCEPT !.env = env, !.busy = None] \in StackPanel
    BY <1>4, <1>7, ReadIsEnv DEF StackPanel
  <2>3. QED
    BY <1>6, <1>7, <1>9, <2>1, <2>2 DEF EnvRead
<1>10. CASE TokenHinted
  <2>1. agent.token \in Tokens
    BY DEF TypeInv, WorldTypes, Agent
  <2>2. here => /\ [panel EXCEPT !.edit = agent.token, !.busy = None] \in StackPanel
                /\ [panel EXCEPT !.busy = None] \in StackPanel
    BY <1>4, <2>1 DEF StackPanel
  <2>3. QED
    BY <1>6, <1>7, <1>10, <2>2 DEF TokenHinted
<1>11. CASE LogsShown
  <2>1. here => [panel EXCEPT !.busy = None] \in StackPanel
    BY <1>4 DEF StackPanel
  <2>2. QED
    BY <1>6, <1>7, <1>11, <2>1 DEF LogsShown
<1>12. CASE StackRefreshed
  <2>1. PICK env \in ReadEnv :
          Patch([panel EXCEPT !.env = env, !.known = TRUE, !.running = (running # None)])
    BY <1>12 DEF StackRefreshed
  <2>2. here => [panel EXCEPT !.env = env, !.known = TRUE, !.running = (running # None)]
                  \in StackPanel
    BY <1>4, <1>7, ReadIsEnv DEF StackPanel
  <2>3. QED
    BY <1>6, <1>7, <1>12, <2>1, <2>2 DEF StackRefreshed
<1>13. ASSUME NEW result \in {"unreachable", "reachable", "authed", "denied"},
              ApiChecked(result), UNCHANGED world, host' \in Host, host'.section = host.section
       PROVE  Types
  <2> DEFINE p == [panel EXCEPT !.api = result, !.busy = IF arg.op = None THEN @ ELSE None]
  <2>1. here => p \in StackPanel
    BY <1>4 DEF StackPanel
  <2>2. Patch(p)
    BY <1>13 DEF ApiChecked
  <2>3. QED
    BY <1>6, <1>13, <2>1, <2>2
<1>14. CASE InfoAnswered
  <2>1. host' = host /\ UNCHANGED world
    BY <1>14 DEF InfoAnswered
  <2>2. CASE Patch([panel EXCEPT !.api = "reachable"])
    <3>1. here => [panel EXCEPT !.api = "reachable"] \in StackPanel
      BY <1>4 DEF StackPanel
    <3>2. QED
      BY <1>6, <1>7, <2>1, <2>2, <3>1
  <2>3. QED
    BY <1>7, <1>13, <1>14, <2>1, <2>2 DEF InfoAnswered
<1>15. CASE StatusAnswered
  <2>1. [host EXCEPT !.connected = TRUE] \in Host
        /\ [host EXCEPT !.connected = TRUE].section = host.section
    BY <1>7 DEF Host
  <2>2. QED
    BY <1>7, <1>13, <1>15, <2>1 DEF StatusAnswered
<1>16. QED
  BY <1>8, <1>9, <1>10, <1>11, <1>12, <1>14, <1>15

LEMMA TypesOfStack ==
  ASSUME TypeInv, StackSteps
  PROVE  TypeInv' /\ host'.section = host.section
<1>1. ASSUME NEW op \in ComposeOps, Composed(op) PROVE Types
  <2>1. calls # <<>> /\ Head(calls).cmd \in CommandsOf("stack")
    BY <1>1 DEF Composed, Answered, CommandsOf
  <2>2. NoDraftIsAdded
    BY <1>1, QueueOfComposed, PlainHasNoDraft DEF QueueStep
  <2>3. host' = host /\ clicks' = clicks
    BY <1>1 DEF Composed
  <2>4. here => [panel EXCEPT !.busy = None] \in StackPanel
    BY <2>1, AnswererIsShown DEF Sections, PanelOf, StackPanel
  <2>5. PanelTypes'
    BY <1>1, <2>1, <2>2, <2>3, <2>4, PanelKept, Patched DEF Composed, Sections, PanelOf
  <2>6. WorldTypes'
    BY <1>1, WorldOfCompose DEF Composed, TypeInv
  <2>7. QED
    BY <2>3, <2>5, <2>6, CounterTypes DEF Types, Rest, TypeInv
<1>2. ASSUME StackWaited PROVE Types
  <2>1. NoDraftIsAdded
    BY <1>2, Awakes, PlainHasNoDraft DEF StackWaited, QueueStep
  <2>2. UNCHANGED <<host, panel, world, clicks>>
    BY <1>2 DEF StackWaited
  <2>3. QED
    BY <2>1, <2>2, PanelKept, PanelClicked
<1>3. Types
  BY <1>1, <1>2, TypesOfStackClicks, TypesOfStackAnswers DEF StackSteps
<1>4. QED
  BY <1>3, QueueOfStack, TypesThen
-----------------------------------------------------------------------------
LEMMA TypesOfTailClicks ==
  ASSUME TypeInv, Apply \/ EditEnv \/ RefreshAll \/ SaveAndRestart \/ DoRefreshOverlay
  PROVE  Types
<1>1. TailShown /\ UNCHANGED world /\ Click /\ host' = host
  BY DEF Apply, CanApply, EditEnv, RefreshAll, SaveAndRestart, DoRefreshOverlay,
         CanRefreshOverlay, CanSaveAndRefresh, Ask
<1>2. panel \in TailPanel /\ host.section = "tailscale"
  BY <1>1 DEF TailShown, TypeInv, PanelOf
<1>3. ASSUME panel' \in TailPanel PROVE Types
  <2>1. PanelTypes'
    BY <1>1, <1>2, <1>3, PanelOfOthers DEF PanelOf
  <2>2. QED
    BY <1>1, <2>1, PanelClicked
<1>4. ASSUME NEW bind \in Binds, panel' = ApplyTailscaleIp(bind) PROVE Types
  <2>1. panel' \in TailPanel
    BY <1>2, <1>4 DEF ApplyTailscaleIp, TailPanel, HostEnvValues
  <2>2. QED
    BY <1>3, <2>1
<1>5. ASSUME NEW addr \in Addrs \cup {""}, panel' = ApplyAdvertisedAddress(addr) PROVE Types
  <2>1. panel' \in TailPanel
    BY <1>2, <1>5 DEF ApplyAdvertisedAddress, TailPanel, HostEnvValues
  <2>2. QED
    BY <1>3, <2>1
<1>6. CASE Apply
  BY <1>4, <1>5, <1>6 DEF Apply, Binds
<1>7. CASE EditEnv
  BY <1>4, <1>5, <1>7 DEF EditEnv
<1>8. CASE RefreshAll \/ SaveAndRestart \/ DoRefreshOverlay
  <2>1. panel' \in TailPanel
    BY <1>2, <1>8 DEF RefreshAll, SaveAndRestart, DoRefreshOverlay, TailPanel
  <2>2. QED
    BY <1>3, <2>1
<1>9. QED
  BY <1>6, <1>7, <1>8

LEMMA TypesOfEnvChange ==
  ASSUME TypeInv, NoDraftIsAdded, NEW env \in HostEnvValues, NEW p,
         EnvChange(p, env),
         \/ p = panel
         \/ host.section = "tailscale" /\ p \in TailPanel
  PROVE  host' \in Host /\ host'.section = host.section /\ PanelTypes'
<1>1. host' \in Host /\ host'.section = host.section
  BY DEF TypeInv, EnvChange, Host
<1>2. CASE host.section = "tailscale"
  <2>1. p \in TailPanel
    BY <1>2 DEF TypeInv, PanelOf
  <2>2. panel' \in TailPanel
    BY <1>2, <2>1 DEF EnvChange, TailShown, TailPanel
  <2>3. QED
    BY <1>1, <1>2, <2>2, PanelOfOthers DEF PanelOf
<1>3. CASE host.section # "tailscale"
  <2>1. panel' = panel
    BY <1>3 DEF EnvChange, TailShown
  <2>2. QED
    BY <1>1, <1>3, <2>1, PanelKept
<1>4. QED
  BY <1>2, <1>3

LEMMA TypesOfTail ==
  ASSUME TypeInv, TailSteps
  PROVE  TypeInv' /\ host'.section = host.section
<1>1. saved \in EnvFile /\ host \in Host
  BY DEF TypeInv, WorldTypes, EnvFile
<1>2. ASSUME calls # <<>>, Head(calls).cmd \in CommandsOf("tailscale"), here
      PROVE  host.section = "tailscale" /\ panel \in TailPanel
  BY <1>2, AnswererIsShown DEF Sections, PanelOf
<1>3. ASSUME NoDraftIsAdded, calls # <<>>, Head(calls).cmd \in CommandsOf("tailscale"), host' = host,
             NEW p, Patch(p), here => p \in TailPanel
      PROVE  PanelTypes'
  BY <1>3, Patched DEF Sections, PanelOf
<1>4. ASSUME TsRefreshed PROVE Types
  <2>1. calls # <<>> /\ Head(calls).cmd \in CommandsOf("tailscale")
    BY <1>4 DEF TsRefreshed, Answered, CommandsOf
  <2>2. NoDraftIsAdded
    <3>1. ~TsWritten
      BY <1>4 DEF TsRefreshed, TsWritten, Answered
    <3>2. QED
      BY <1>4, <3>1, QueueOfTailAnswers, PlainHasNoDraft DEF QueueStep
  <2> DEFINE p == IF here THEN [panel EXCEPT !.known = TRUE,
                                             !.busy = IF arg = None THEN None ELSE @]
                  ELSE panel
  <2>3. p = panel \/ (host.section = "tailscale" /\ p \in TailPanel)
    BY <1>2, <2>1 DEF TailPanel
  <2>4. PICK env \in ReadEnv : EnvChange(p, env)
    BY <1>4 DEF TsRefreshed
  <2> HIDE DEF p
  <2>5. env \in HostEnvValues
    BY <1>1, ReadIsEnv
  <2>6. host' \in Host /\ host'.section = host.section /\ PanelTypes'
    BY <2>2, <2>3, <2>4, <2>5, TypesOfEnvChange
  <2>7. QED
    BY <1>4, <2>6, CounterTypes, WorldKept DEF TsRefreshed, Types, Rest
<1>5. ASSUME OverlayAnswered PROVE Types
  <2>1. calls # <<>> /\ Head(calls).cmd \in CommandsOf("tailscale")
    BY <1>5 DEF OverlayAnswered, Answered, CommandsOf
  <2>2. NoDraftIsAdded
    <3>1. ~TsWritten
      BY <1>5 DEF OverlayAnswered, TsWritten, Answered
    <3>2. QED
      BY <1>5, <3>1, QueueOfTailAnswers, PlainHasNoDraft DEF QueueStep
  <2>3. Authed(arg) => running.addr \in Addrs \cup {""}
    BY DEF Authed, TypeInv, WorldTypes
  <2>4. here => /\ Authed(arg) => [panel EXCEPT !.overlay = running.addr, !.busy = None] \in TailPanel
                /\ [panel EXCEPT !.busy = None] \in TailPanel
    BY <1>2, <2>1, <2>3 DEF TailPanel
  <2>5. PanelTypes'
    BY <1>3, <1>5, <2>1, <2>2, <2>4 DEF OverlayAnswered
  <2>6. QED
    BY <1>1, <1>5, <2>5, CounterTypes, WorldKept DEF OverlayAnswered, Types, Rest
<1>6. ASSUME TsWritten PROVE Types
  <2>1. /\ calls # <<>> /\ Head(calls).cmd = "ts_write"
        /\ Head(calls).cmd \in CommandsOf("tailscale")
    BY <1>6 DEF TsWritten, Answered, CommandsOf
  <2>2. arg \in WriteArg /\ here \in BOOLEAN
    BY <2>1, HeadFacts DEF Allowed
  <2>3. arg.env \in HostEnvValues /\ arg.token \in Key
    BY <2>2 DEF WriteArg
  <2>4. ASSUME NEW cmd \in {"ts_restart", "ts_refresh"}, AndThen(cmd, arg.token)
        PROVE  NoDraftIsAdded
    <3>1. /\ cmd \in Commands /\ arg.token \in Args /\ Allowed(cmd, arg.token)
          /\ cmd \notin Clicked
          /\ cmd \in CommandsOf("tailscale")
      BY <2>3 DEF Commands, Args, Allowed, Clicked, Movers, StackChecks, KeyCommands,
                  ComposeOps, RowOps, CommandsOf
    <3>2. here => cmd \in CommandsOf(host.section)
      BY <1>2, <2>1, <3>1
    <3>3. Adds(Following(calls, cmd, arg.token)) /\ Following(calls, cmd, arg.token).cmd = cmd
      BY <2>1, <2>4, <3>1, <3>2, NextAdds DEF TypeInv
    <3>4. QED
      BY <3>3 DEF Adds, NoDraftIsAdded
  <2>5. ASSUME NEW p, EnvChange(p, arg.env), NoDraftIsAdded, WriteEnv(arg.env),
               p = panel \/ (host.section = "tailscale" /\ p \in TailPanel)
        PROVE  Types
    <3>1. WorldTypes'
      BY <1>6, <2>3, <2>5, WorldOfWrite DEF TsWritten, TypeInv
    <3>2. host' \in Host /\ host'.section = host.section /\ PanelTypes'
      BY <2>3, <2>5, TypesOfEnvChange
    <3>3. QED
      BY <1>6, <3>1, <3>2, CounterTypes DEF TsWritten, Types, Rest
  <2>6. CASE /\ WriteEnv(arg.env)
             /\ arg.restart
             /\ AndThen("ts_restart", arg.token) /\ EnvChange(panel, arg.env)
    BY <2>4, <2>5, <2>6
  <2>7. CASE /\ WriteEnv(arg.env)
             /\ AndThen("ts_refresh", arg.token)
             /\ EnvChange(IF here THEN Saved(panel) ELSE panel, arg.env)
    <3> DEFINE p == IF here THEN Saved(panel) ELSE panel
    <3>1. p = panel \/ (host.section = "tailscale" /\ p \in TailPanel)
      BY <1>2, <2>1 DEF TailPanel, Saved
    <3>2. EnvChange(p, arg.env)
      BY <2>7
    <3> HIDE DEF p
    <3>3. QED
      BY <2>4, <2>5, <2>7, <3>1, <3>2
  <2>8. CASE Patch([panel EXCEPT !.busy = None]) /\ Done /\ UNCHANGED <<saved, host>>
    <3>1. here => [panel EXCEPT !.busy = None] \in TailPanel
      BY <1>2, <2>1 DEF TailPanel
    <3>2. NoDraftIsAdded
      BY <2>1, <2>8, Over DEF TypeInv, NoDraftIsAdded
    <3>3. PanelTypes'
      BY <1>3, <2>1, <2>8, <3>1, <3>2
    <3>4. QED
      BY <1>1, <1>6, <2>8, <3>3, CounterTypes, WorldKept DEF TsWritten, Types, Rest, world
  <2>9. QED
    BY <1>6, <2>6, <2>7, <2>8 DEF TsWritten
<1>7. ASSUME TsRestarted PROVE Types
  <2>1. calls # <<>> /\ Head(calls).cmd \in CommandsOf("tailscale")
    BY <1>7 DEF TsRestarted, Answered, CommandsOf
  <2>2. NoDraftIsAdded
    BY <1>7, <2>1, Over DEF TsRestarted, TypeInv, NoDraftIsAdded
  <2>3. here => [panel EXCEPT !.busy = None] \in TailPanel
    BY <1>2, <2>1 DEF TailPanel
  <2>4. PanelTypes'
    BY <1>3, <1>7, <2>1, <2>2, <2>3, PanelKept DEF TsRestarted
  <2>5. WorldTypes'
    BY <1>7, WorldOfCompose DEF TsRestarted, TypeInv
  <2>6. QED
    BY <1>1, <1>7, <2>4, <2>5, CounterTypes DEF TsRestarted, Types, Rest
<1>8. ASSUME TsWaited PROVE Types
  <2>1. PICK t \in timers : /\ t.cmd = "ts_refresh"
                            /\ timers' = timers \ {t}
                            /\ calls' = Append(calls, t)
                            /\ panel' = IF t.here THEN Saved(panel) ELSE panel
    BY <1>8 DEF TsWaited
  <2>2. host' = host /\ UNCHANGED <<world, clicks>>
    BY <1>8 DEF TsWaited
  <2>3. NoDraftIsAdded
    BY <2>1, Awakes, PlainHasNoDraft DEF QueueStep
  <2>4. CASE t.here
    <3>1. "ts_refresh" \in CommandsOf(host.section) /\ host.section \in Sections
      BY <1>1, <2>1, <2>4 DEF TypeInv, OfSection, Host
    <3>2. host.section = "tailscale"
      BY <3>1, OneSection DEF CommandsOf, Sections
    <3>3. panel' \in TailPanel
      BY <2>1, <2>4, <3>2 DEF Saved, TypeInv, PanelOf, TailPanel
    <3>4. PanelTypes'
      BY <2>2, <3>2, <3>3, PanelOfOthers DEF PanelOf
    <3>5. QED
      BY <2>2, <3>4, PanelClicked
  <2>5. CASE ~t.here
    BY <2>1, <2>2, <2>3, <2>5, PanelKept, PanelClicked
  <2>6. QED
    BY <2>4, <2>5
<1>9. Types
  BY <1>4, <1>5, <1>6, <1>7, <1>8, TypesOfTailClicks DEF TailSteps
<1>10. QED
  BY <1>9, QueueOfTail, TypesThen
-----------------------------------------------------------------------------
LEMMA RowFits ==
  ASSUME NEW p \in AllocPanel
  PROVE  /\ p.row \in Row
         /\ \A r \in Row : [p EXCEPT !.row = r] \in AllocPanel
         /\ \A r \in Row : \A b \in RowOps \cup {None} : [r EXCEPT !.busy = b] \in Row
         /\ \A r \in Row : \A c \in SUBSET {"unknown", "local", "suspend", "retire", "delete"} :
              [r EXCEPT !.confirm = c] \in Row
  BY DEF AllocPanel, Row

LEMMA TypesOfAllocClicks ==
  ASSUME TypeInv,
         \/ AgentStep \/ ConfirmInvite \/ DoGenerateInvite \/ EnterResponse \/ DoImportResponse
         \/ DoResume \/ Cancel \/ LoadAllocations \/ ToggleCreate \/ DoCreate
         \/ \E op \in {"suspend", "retire", "delete"} : AskFirst(op) \/ DoConfirmed(op)
  PROVE  Types
<1>1. AllocShown /\ host' = host
  BY DEF AgentStep, ConfirmInvite, DoGenerateInvite, EnterResponse, DoImportResponse,
     DoResume, Cancel, LoadAllocations, ToggleCreate, DoCreate, AskFirst, DoConfirmed,
     InviteClicked, Offered
<1>2. host.section = "allocations" /\ panel \in AllocPanel
  BY <1>1 DEF AllocShown, TypeInv, PanelOf
<1>3. ASSUME panel' \in AllocPanel, UNCHANGED world, Click PROVE Types
  <2>1. PanelTypes'
    BY <1>1, <1>2, <1>3, PanelOfOthers DEF PanelOf
  <2>2. QED
    BY <1>1, <1>3, <2>1, PanelClicked
<1>4. ASSUME NEW r \in Row, panel' = [panel EXCEPT !.row = r], UNCHANGED world, Click
      PROVE  Types
  BY <1>2, <1>3, <1>4, RowFits
<1> DEFINE Confirmed(c) == [panel.row EXCEPT !.confirm = c]
<1>5. /\ panel.row \in Row
      /\ panel.row.confirm \in SUBSET {"unknown", "local", "suspend", "retire", "delete"}
  BY <1>2 DEF AllocPanel, Row
<1>6. CASE AgentStep
  <2>1. agent' \in Agent
    <3>1. PICK move \in AgentMoves : agent' = [agent EXCEPT !.alloc = move[2]]
      BY <1>6 DEF AgentStep
    <3>2. move[2] \in AllocationStates
      BY DEF AgentMoves, AllocationStates
    <3>3. QED
      BY <3>1, <3>2 DEF TypeInv, WorldTypes, Agent
  <2>2. UNCHANGED <<host, panel, calls, saved, running, clicks>>
    BY <1>6 DEF AgentStep
  <2>3. WorldTypes'
    BY <2>1, <2>2 DEF TypeInv, WorldTypes
  <2>4. PanelTypes'
    BY <1>2, <2>2, PanelOfOthers DEF PanelOf
  <2>5. QED
    BY <2>2, <2>3, <2>4, CounterTypes DEF Types, Rest, TypeInv
<1>7. CASE ConfirmInvite
  <2> DEFINE c == (panel.row.confirm \ {"unknown"}) \cup Needed
  <2>1. c \in SUBSET {"unknown", "local", "suspend", "retire", "delete"}
    BY <1>5 DEF Needed
  <2>2. panel' = [panel EXCEPT !.row = Confirmed(c)]
    BY <1>2, <1>7 DEF ConfirmInvite, AllocPanel
  <2>3. Confirmed(c) \in Row
    BY <1>2, <1>5, <2>1, RowFits
  <2>4. UNCHANGED world /\ Click
    BY <1>7 DEF ConfirmInvite
  <2> HIDE DEF c, Confirmed
  <2>5. QED
    BY <1>4, <2>2, <2>3, <2>4
<1>8. ASSUME NEW op \in RowOps, panel' = [panel EXCEPT !.row.busy = op], UNCHANGED world, Click
      PROVE  Types
  <2>1. panel' = [panel EXCEPT !.row = [panel.row EXCEPT !.busy = op]]
    BY <1>2, <1>8 DEF AllocPanel
  <2>2. [panel.row EXCEPT !.busy = op] \in Row
    BY <1>2, <1>5, RowFits
  <2>3. QED
    BY <1>4, <1>8, <2>1, <2>2
<1>9. CASE DoGenerateInvite
  <2> DEFINE c == panel.row.confirm \ {"unknown", "local"}
             r == [panel.row EXCEPT !.busy = "invite", !.confirm = c]
  <2>1. r \in Row
    BY <1>5 DEF Row, RowOps
  <2>2. panel' = [panel EXCEPT !.row = r]
    BY <1>2, <1>9 DEF DoGenerateInvite, AllocPanel
  <2>3. UNCHANGED world /\ Click
    BY <1>9 DEF DoGenerateInvite, RowCall, Ask
  <2> HIDE DEF r
  <2>4. QED
    BY <1>4, <2>1, <2>2, <2>3
<1>10. CASE EnterResponse
  <2>1. panel' = [panel EXCEPT !.row = [panel.row EXCEPT !.response = ~@]]
    BY <1>2, <1>10 DEF EnterResponse, AllocPanel
  <2>2. [panel.row EXCEPT !.response = ~@] \in Row
    BY <1>5 DEF Row
  <2>3. QED
    BY <1>4, <1>10, <2>1, <2>2 DEF EnterResponse
<1>11. CASE DoImportResponse \/ DoResume
  BY <1>8, <1>11 DEF DoImportResponse, DoResume, RowOps, RowCall, Ask
<1>12. ASSUME NEW op \in {"suspend", "retire", "delete"}, AskFirst(op) PROVE Types
  <2> DEFINE c == panel.row.confirm \cup {op}
  <2>1. c \in SUBSET {"unknown", "local", "suspend", "retire", "delete"}
    BY <1>5
  <2>2. panel' = [panel EXCEPT !.row = Confirmed(c)]
    BY <1>2, <1>12 DEF AskFirst, AllocPanel
  <2>3. Confirmed(c) \in Row
    BY <1>2, <1>5, <2>1, RowFits
  <2>4. UNCHANGED world /\ Click
    BY <1>12 DEF AskFirst
  <2> HIDE DEF c, Confirmed
  <2>5. QED
    BY <1>4, <2>2, <2>3, <2>4
<1>13. ASSUME NEW op \in {"suspend", "retire", "delete"}, DoConfirmed(op) PROVE Types
  BY <1>8, <1>13 DEF DoConfirmed, RowOps, RowCall, Ask
<1>14. CASE Cancel
  <2>1. PICK one \in panel.row.confirm : panel' = [panel EXCEPT !.row.confirm = @ \ {one}]
    BY <1>14 DEF Cancel
  <2> DEFINE c == panel.row.confirm \ {one}
  <2>2. c \in SUBSET {"unknown", "local", "suspend", "retire", "delete"}
    BY <1>5
  <2>3. panel' = [panel EXCEPT !.row = Confirmed(c)]
    BY <1>2, <2>1 DEF AllocPanel
  <2>4. Confirmed(c) \in Row
    BY <1>2, <1>5, <2>2, RowFits
  <2>5. UNCHANGED world /\ Click
    BY <1>14 DEF Cancel
  <2> HIDE DEF c, Confirmed
  <2>6. QED
    BY <1>4, <2>3, <2>4, <2>5
<1>15. CASE LoadAllocations \/ DoCreate
  <2>1. panel' \in AllocPanel
    BY <1>2, <1>15 DEF LoadAllocations, DoCreate, AllocPanel
  <2>2. QED
    BY <1>3, <1>15, <2>1 DEF LoadAllocations, DoCreate, Ask
<1>16. CASE ToggleCreate
  <2>1. panel' \in AllocPanel
    BY <1>2, <1>16 DEF ToggleCreate, AllocPanel
  <2>2. QED
    BY <1>3, <1>16, <2>1 DEF ToggleCreate
<1>17. QED
  BY <1>6, <1>7, <1>9, <1>10, <1>11, <1>12, <1>13, <1>14, <1>15, <1>16

\* What an operation that was done leaves in its row.
RowDone == LET done == RowEnded(panel.row)
           IN  CASE arg.op = "invite" ->
                      [done EXCEPT !.invite = [address |-> InviteAddress, told |-> arg.told]]
                 [] arg.op = "import" -> [done EXCEPT !.response = FALSE]
                 [] OTHER             -> done

LEMMA TypesOfRowDone ==
  ASSUME TypeInv, panel \in AllocPanel, arg \in RowArg
  PROVE  RowEnded(panel.row) \in Row /\ (running # None => RowDone \in Row)
<1>1. panel.row \in Row
  BY DEF AllocPanel
<1>2. RowEnded(panel.row) \in Row
  BY <1>1 DEF RowEnded, Row
<1>3. ASSUME running # None PROVE [address |-> InviteAddress, told |-> arg.told] \in Invite
  <2>1. running \in [bind : Binds, addr : Addrs \cup {""}]
    BY <1>3 DEF TypeInv, WorldTypes
  <2>2. InviteAddress \in Addrs \cup {"overlay", "loopback"}
    BY <2>1 DEF InviteAddress
  <2>3. QED
    BY <2>2 DEF Invite, RowArg
<1>4. ASSUME NEW i \in Invite PROVE [RowEnded(panel.row) EXCEPT !.invite = i] \in Row
  BY <1>2 DEF Row
<1>5. [RowEnded(panel.row) EXCEPT !.response = FALSE] \in Row
  BY <1>2 DEF Row
<1>6. QED
  BY <1>2, <1>3, <1>4, <1>5 DEF RowDone

LEMMA TypesOfAlloc ==
  ASSUME TypeInv, AllocSteps
  PROVE  TypeInv' /\ host'.section = host.section
<1>1. host \in Host
  BY DEF TypeInv
<1>2. ASSUME calls # <<>>, Head(calls).cmd \in CommandsOf("allocations"), here
      PROVE  panel \in AllocPanel
  BY <1>2, AnswererIsShown DEF Sections, PanelOf
<1>3. ASSUME calls # <<>>, Head(calls).cmd \in CommandsOf("allocations"), NoDraftIsAdded,
             host' = host, NEW p, Patch(p), here => p \in AllocPanel
      PROVE  PanelTypes'
  BY <1>3, Patched DEF Sections, PanelOf
<1>4. ASSUME NEW state \in AllocationStates, agent' = [agent EXCEPT !.alloc = state],
             UNCHANGED <<saved, running>>
      PROVE  WorldTypes'
  BY <1>4 DEF TypeInv, WorldTypes, Agent
<1>5. ASSUME RowAnswered \/ Listed \/ Created
      PROVE  NoDraftIsAdded /\ calls # <<>> /\ Head(calls).cmd \in CommandsOf("allocations")
  BY <1>5, QueueOfAllocAnswers, PlainHasNoDraft
  DEF QueueStep, RowAnswered, Listed, Created, Answered, CommandsOf
<1>6. ASSUME RowAnswered PROVE Types
  <2>1. PICK op \in RowOps : Answered(op)
    BY <1>6 DEF RowAnswered
  <2>2. arg \in RowArg /\ arg.op \in RowOps
    BY <2>1, HeadFacts DEF Answered, Allowed
  <2>3. PanelTypes'
    <3>1. CASE Agreed /\ Patch([panel EXCEPT !.busy = "load", !.row = RowDone])
      <4>1. here => [panel EXCEPT !.busy = "load", !.row = RowDone] \in AllocPanel
        <5>1. running # None
          BY <3>1 DEF Agreed, Authed
        <5>2. here => RowDone \in Row
          BY <1>2, <1>5, <1>6, <2>2, <5>1, TypesOfRowDone
        <5>3. QED
          BY <1>2, <1>5, <1>6, <5>2 DEF AllocPanel
      <4>2. host' = host
        BY <1>6 DEF RowAnswered
      <4>3. QED
        BY <1>3, <1>5, <1>6, <3>1, <4>1, <4>2
    <3>2. CASE Patch([panel EXCEPT !.row = RowEnded(@)])
      <4>1. here => [panel EXCEPT !.row = RowEnded(@)] \in AllocPanel
        <5>1. here => RowEnded(panel.row) \in Row
          BY <1>2, <1>5, <1>6, <2>2, TypesOfRowDone
        <5>2. QED
          BY <1>2, <1>5, <1>6, <5>1 DEF AllocPanel
      <4>2. host' = host
        BY <1>6 DEF RowAnswered
      <4>3. QED
        BY <1>3, <1>5, <1>6, <3>2, <4>1, <4>2
    <3>3. QED
      BY <1>6, <3>1, <3>2 DEF RowAnswered, RowDone
  <2>4. WorldTypes'
    <3>1. CASE Agreed
      <4>1. To(arg.op) \in AllocationStates
        BY <2>2 DEF To, RowOps, AllocationStates
      <4>2. QED
        BY <1>4, <1>6, <3>1, <4>1 DEF RowAnswered, Agreed
    <3>2. CASE agent' = agent
      BY <1>6, <3>2 DEF RowAnswered, TypeInv, WorldTypes
    <3>3. QED
      BY <1>6, <3>1, <3>2 DEF RowAnswered
  <2>5. QED
    BY <1>1, <1>6, <2>3, <2>4, CounterTypes DEF RowAnswered, Types, Rest
<1>7. ASSUME Listed PROVE Types
  <2>1. ASSUME Authed(arg), here, NEW overlay \in {running.addr, None}
        PROVE  [panel EXCEPT !.list = agent.alloc, !.overlay = overlay, !.busy = None,
                             !.row = IF agent.alloc = "DELETED" THEN NewRow ELSE @] \in AllocPanel
    <3>1. overlay \in Addrs \cup {"", None} /\ agent.alloc \in AllocationStates
      BY <2>1 DEF Authed, TypeInv, WorldTypes, Agent
    <3>2. panel \in AllocPanel
      BY <1>2, <1>5, <1>7, <2>1
    <3>3. NewRow \in Row
      BY DEF NewRow, Row
    <3>4. QED
      BY <3>1, <3>2, <3>3 DEF AllocPanel
  <2>2. here => [panel EXCEPT !.busy = None] \in AllocPanel
    BY <1>2, <1>5, <1>7 DEF AllocPanel
  <2>3. host' = host /\ UNCHANGED world /\ clicks' = clicks
    BY <1>7 DEF Listed
  <2>4. PanelTypes'
    <3>1. CASE Patch([panel EXCEPT !.busy = None])
      BY <1>3, <1>5, <1>7, <2>2, <2>3, <3>1
    <3>2. CASE Authed(arg) /\ \E overlay \in {running.addr, None} :
             Patch([panel EXCEPT !.list = agent.alloc, !.overlay = overlay, !.busy = None,
                                 !.row = IF agent.alloc = "DELETED" THEN NewRow ELSE @])
      BY <1>3, <1>5, <1>7, <2>1, <2>3, <3>2
    <3>3. QED
      BY <1>7, <3>1, <3>2 DEF Listed
  <2>5. QED
    BY <2>3, <2>4, PanelClicked
<1>8. ASSUME Created PROVE Types
  <2>1. here => /\ [panel EXCEPT !.creating = FALSE, !.busy = "load"] \in AllocPanel
                /\ [panel EXCEPT !.busy = None] \in AllocPanel
    BY <1>2, <1>5, <1>8 DEF AllocPanel
  <2>2. host' = host
    BY <1>8 DEF Created
  <2>3. PanelTypes'
    BY <1>3, <1>5, <1>8, <2>1, <2>2 DEF Created
  <2>4. WorldTypes'
    <3>1. CASE agent' = [agent EXCEPT !.alloc = "DRAFT"]
      BY <1>4, <1>8, <3>1 DEF Created, AllocationStates
    <3>2. CASE agent' = agent
      BY <1>8, <3>2 DEF Created, TypeInv, WorldTypes
    <3>3. QED
      BY <1>8, <3>1, <3>2 DEF Created
  <2>5. QED
    BY <1>1, <1>8, <2>2, <2>3, <2>4, CounterTypes DEF Created, Types, Rest
<1>9. Types
  BY <1>6, <1>7, <1>8, TypesOfAllocClicks DEF AllocSteps
<1>10. QED
  BY <1>9, QueueOfAlloc, TypesThen
-----------------------------------------------------------------------------
LEMMA TypesOfAgentPanels ==
  ASSUME TypeInv, AgentPanelSteps
  PROVE  TypeInv' /\ host'.section = host.section
<1>1. /\ host \in Host /\ host' = host
      /\ saved' = saved /\ running' = running
      /\ Click \/ clicks' = clicks
  BY DEF TypeInv, AgentPanelSteps, ConfigLoaded, EditSettings, SaveSettings,
     SettingsSaved, SavedFades, RefreshDiagnostics, DiagnosticsRefreshed, RunVerify,
     Verified, Ask, world
<1>2. ASSUME PanelTypes', agent' \in Agent PROVE Types
  <2>1. WorldTypes'
    BY <1>1, <1>2 DEF TypeInv, WorldTypes
  <2>2. QED
    BY <1>1, <1>2, <2>1, CounterTypes DEF Types, Rest
<1>3. agent \in Agent
  BY DEF TypeInv, WorldTypes
<1>4. ASSUME calls # <<>>, Done
      PROVE  NoDraftIsAdded
  BY <1>4, Over DEF TypeInv, NoDraftIsAdded
<1>5. ASSUME host.section = "settings"
      PROVE  panel \in SettingsPanel
  BY <1>5 DEF TypeInv, PanelOf
<1>6. ASSUME host.section = "settings", panel' \in SettingsPanel, panel'.draft # None
      PROVE  PanelTypes'
  BY <1>1, <1>6 DEF PanelTypes, DraftIsKnown, PanelOf
<1>7. ASSUME calls # <<>>, Head(calls).cmd \in CommandsOf("settings"), here
      PROVE  host.section = "settings"
  BY <1>7, AnswererIsShown DEF Sections
<1>8. ASSUME ConfigLoaded PROVE Types
  <2>1. calls # <<>> /\ Done /\ Head(calls).cmd \in CommandsOf("settings") /\ agent' = agent
    BY <1>8 DEF ConfigLoaded, Answered, CommandsOf, world
  <2>2. CASE panel' = panel
    BY <1>1, <1>2, <1>3, <1>4, <2>1, <2>2, PanelKept
  <2>3. CASE here /\ panel' = [panel EXCEPT !.config = agent.config, !.draft = agent.config]
    <3>1. agent.config \in Configs /\ agent.config # None
      BY <1>3, HostAssumption DEF Agent
    <3>2. panel' \in SettingsPanel /\ panel'.draft # None /\ host.section = "settings"
      BY <1>5, <1>7, <2>1, <2>3, <3>1 DEF SettingsPanel
    <3>3. QED
      BY <1>2, <1>3, <1>6, <2>1, <3>2
  <2>4. QED
    BY <1>8, <2>2, <2>3 DEF ConfigLoaded, Patch
<1>9. ASSUME EditSettings PROVE Types
  <2>1. host.section = "settings" /\ agent' = agent
    BY <1>9 DEF EditSettings, SettingsShown, world
  <2>2. panel' \in SettingsPanel /\ panel'.draft # None
    BY <1>5, <1>9, <2>1, HostAssumption DEF EditSettings, SettingsPanel
  <2>3. QED
    BY <1>2, <1>3, <1>6, <2>1, <2>2
<1>10. ASSUME SaveSettings PROVE Types
  <2>1. host.section = "settings" /\ panel.config # None /\ agent' = agent
    BY <1>10 DEF SaveSettings, SettingsShown, world
  <2>2. panel.draft # None
    BY <2>1 DEF TypeInv, DraftIsKnown
  <2>3. panel' \in SettingsPanel /\ panel'.draft # None
    BY <1>5, <1>10, <2>1, <2>2 DEF SaveSettings, SettingsPanel
  <2>4. QED
    BY <1>2, <1>3, <1>6, <2>1, <2>3
<1>11. ASSUME SettingsSaved PROVE Types
  <2>1. /\ calls # <<>> /\ Done /\ Head(calls).cmd = "patch_config"
        /\ Head(calls).cmd \in CommandsOf("settings")
    BY <1>11 DEF SettingsSaved, Answered, CommandsOf
  <2>2. arg.draft \in Configs
    BY <2>1, HeadFacts DEF Allowed, ConfigArg
  <2>3. agent' \in Agent
    BY <1>3, <1>11, <2>2 DEF SettingsSaved, Agent
  <2>4. CASE ~here
    <3>1. panel' = panel
      BY <1>11, <2>4 DEF SettingsSaved, Patch
    <3>2. QED
      BY <1>1, <1>2, <1>4, <2>1, <2>3, <3>1, PanelKept
  <2>5. CASE here
    <3>1. host.section = "settings"
      BY <1>7, <2>1, <2>5
    <3>2. panel.draft # None
      <4>1. Head(calls) \in Under(calls)
        BY <2>1, HeadIsUnder DEF TypeInv
      <4>2. QED
        BY <2>1, <2>5, <3>1, <4>1 DEF TypeInv, DraftIsKnown, here
    <3>3. \/ panel' = [panel EXCEPT !.config = arg.draft, !.busy = None, !.saved = TRUE]
          \/ panel' = [panel EXCEPT !.busy = None]
      BY <1>11, <2>5 DEF SettingsSaved, Patch
    <3>4. panel' \in SettingsPanel /\ panel'.draft # None
      BY <1>5, <2>2, <3>1, <3>2, <3>3 DEF SettingsPanel
    <3>5. QED
      BY <1>2, <1>6, <2>3, <3>1, <3>4
  <2>6. QED
    BY <2>1, <2>4, <2>5, HeadFacts
<1>12. ASSUME SavedFades PROVE Types
  <2>1. host.section = "settings" /\ agent' = agent /\ calls' = calls
    BY <1>12 DEF SavedFades, world
  <2>2. panel' = [panel EXCEPT !.saved = FALSE]
    BY <1>12 DEF SavedFades
  <2>3. /\ panel' \in SettingsPanel /\ panel'.draft = panel.draft
        /\ panel'.config = panel.config
    BY <1>5, <2>1, <2>2 DEF SettingsPanel
  <2>4. DraftIsKnown'
    BY <1>1, <2>1, <2>3 DEF TypeInv, DraftIsKnown
  <2>5. PanelTypes'
    BY <1>1, <2>1, <2>3, <2>4 DEF PanelTypes, PanelOf
  <2>6. QED
    BY <1>2, <1>3, <2>1, <2>5
<1>13. ASSUME RefreshDiagnostics \/ RunVerify PROVE Types
  <2>1. host.section = "diagnostics" /\ agent' = agent
    BY <1>13 DEF RefreshDiagnostics, RunVerify, CanDiagnose, world
  <2>2. panel' \in DiagnosticsPanel
    BY <1>13, <2>1 DEF RefreshDiagnostics, RunVerify, DiagnosticsPanel, TypeInv, PanelOf
  <2>3. PanelTypes'
    BY <1>1, <2>1, <2>2, PanelOfOthers DEF PanelOf
  <2>4. QED
    BY <1>2, <1>3, <2>1, <2>3
<1>14. ASSUME DiagnosticsRefreshed \/ Verified PROVE Types
  <2>1. /\ calls # <<>> /\ Done /\ Head(calls).cmd \in CommandsOf("diagnostics")
        /\ agent' = agent
    BY <1>14 DEF DiagnosticsRefreshed, Verified, Answered, CommandsOf, world
  <2>2. here => panel \in DiagnosticsPanel
    BY <2>1, AnswererIsShown DEF Sections, PanelOf
  <2>3. PICK p : Patch(p) /\ (here => p \in DiagnosticsPanel)
    <3>1. CASE DiagnosticsRefreshed
      <4>1. here => /\ [panel EXCEPT !.known = TRUE, !.busy = None] \in DiagnosticsPanel
                    /\ [panel EXCEPT !.busy = None] \in DiagnosticsPanel
        BY <2>2 DEF DiagnosticsPanel
      <4>2. QED
        BY <3>1, <4>1 DEF DiagnosticsRefreshed
    <3>2. CASE Verified
      <4>1. PICK result \in {"passed", "failed", None} :
              Patch([panel EXCEPT !.verify = result, !.busy = None])
        BY <3>2 DEF Verified
      <4>2. here => [panel EXCEPT !.verify = result, !.busy = None] \in DiagnosticsPanel
        BY <2>2 DEF DiagnosticsPanel
      <4>3. QED
        BY <4>1, <4>2
    <3>3. QED
      BY <1>14, <3>1, <3>2
  <2>4. PanelTypes'
    BY <1>1, <1>4, <2>1, <2>3, Patched DEF Sections, PanelOf
  <2>5. QED
    BY <1>2, <1>3, <2>1, <2>4
<1>15. Types
  BY <1>8, <1>9, <1>10, <1>11, <1>12, <1>13, <1>14 DEF AgentPanelSteps
<1>16. QED
  BY <1>15, QueueOfAgentPanels, TypesThen

\* The section that is opened, and what it asks for.
LEMMA NewPanelTypes ==
  ASSUME NEW section \in Sections, NEW h \in Host
  PROVE  NewPanel(section, h) \in PanelOf(section)
<1>1. h.token \in Tokens \cup {None} /\ h.env \in HostEnvValues
  BY DEF Host
<1>2. NoEnv \in HostEnvValues /\ NewRow \in Row
  BY DEF NoEnv, HostEnvValues, NewRow, Row
<1>3. CASE section = "stack"
  BY <1>1, <1>2, <1>3 DEF NewPanel, PanelOf, NewStackPanel, StackPanel
<1>4. CASE section = "tailscale"
  BY <1>1, <1>4 DEF NewPanel, PanelOf, NewTailPanel, TailPanel
<1>5. CASE section = "settings"
  BY <1>5 DEF NewPanel, PanelOf, NewSettingsPanel, SettingsPanel
<1>6. CASE section = "allocations"
  BY <1>1, <1>2, <1>6 DEF NewPanel, PanelOf, NewAllocPanel, AllocPanel, Loading,
     AllocationStates
<1>7. CASE section = "diagnostics"
  BY <1>1, <1>7 DEF NewPanel, PanelOf, NewDiagnosticsPanel, DiagnosticsPanel, Loading
<1>8. QED
  BY <1>3, <1>4, <1>5, <1>6, <1>7 DEF Sections

LEMMA OpenedCalls ==
  ASSUME NEW section \in Sections, NEW token \in Key, NEW q, Queued(q),
         \A c \in Under(q) : ~c.here
  PROVE  /\ Queued(q \o Mounted(section, token))
         /\ \A c \in Under(q \o Mounted(section, token)) :
              \/ c \in Under(q)
              \/ /\ c = MountCall(section, token)
                 /\ c.here /\ c.cmd \in CommandsOf(section)
                 /\ c.cmd \notin Clicked \cup Marked
<1> DEFINE q2 == q \o Mounted(section, token)
<1>1. CASE q2 = q
  BY <1>1
<1>2. CASE q2 = Append(q, MountCall(section, token))
  <2>1. Under(q2) = Under(q) \cup {MountCall(section, token)}
    BY <1>2, MountCallIsSent, UnderAppend
  <2>2. Queued(q2)
    BY <1>2, MountCallIsSent, AppendProperties DEF Queued
  <2>3. QED
    BY <2>1, <2>2, MountCallIsSent
<1>3. QED
  BY <1>1, <1>2, MountedIs

LEMMA TypesOfOpening ==
  ASSUME TypeInv, Reopen \/ OpenSection
  PROVE  TypeInv'
<1>1. host \in Host /\ host.token \in Key
  BY DEF TypeInv, Host, Key
<1>2. PICK section \in Sections, q \in {<<>>, Left} :
        /\ calls' = q \o Mounted(section, host.token)
        /\ host'.section = section /\ host' \in Host
        /\ panel' \in PanelOf(section)
        /\ timers' = {} \/ timers' = {[t EXCEPT !.here = FALSE] : t \in timers}
  <2>1. CASE Reopen
    <3>1. Mounted("stack", host.token) = <<>> \o Mounted("stack", host.token)
      BY DEF Mounted
    <3>2. host' \in Host /\ host'.section = "stack"
      BY <1>1, <2>1 DEF Reopen, Host, Sections
    <3>3. panel' \in PanelOf("stack")
      BY <1>1, <2>1 DEF Reopen, NewStackPanel, PanelOf, StackPanel, Host, NoEnv,
         HostEnvValues
    <3>4. QED
      BY <2>1, <3>1, <3>2, <3>3 DEF Reopen, Sections
  <2>2. CASE OpenSection
    <3>1. PICK section \in Sections :
            /\ host' = [host EXCEPT !.section = section]
            /\ panel' = NewPanel(section, host)
            /\ calls' = Left \o Mounted(section, host.token)
            /\ timers' = {[t EXCEPT !.here = FALSE] : t \in timers}
      BY <2>2 DEF OpenSection
    <3>2. host' \in Host /\ host'.section = section
      BY <1>1, <3>1 DEF Host
    <3>3. QED
      BY <1>1, <3>1, <3>2, NewPanelTypes
  <2>3. QED
    BY <2>1, <2>2
<1>3. Queued(q) /\ \A c \in Under(q) : ~c.here
  <2>1. CASE q = <<>>
    BY <2>1 DEF Queued, Under
  <2>2. CASE q = Left
    BY <2>2, LeftCalls DEF TypeInv
  <2>3. QED
    BY <1>2, <2>1, <2>2
<1>4. /\ Queued(calls')
      /\ \A c \in Under(calls') :
           ~c.here \/ (c.cmd \in CommandsOf(section) /\ c = MountCall(section, host.token))
  BY <1>1, <1>2, <1>3, OpenedCalls
<1>5. timers' \subseteq Slept /\ \A t \in timers' : ~t.here
  BY <1>2 DEF TypeInv, Slept, Sent, Call
<1>6. DraftIsKnown'
  <2>1. SUFFICES ASSUME section = "settings" PROVE DraftIsKnown'
    BY <1>2 DEF DraftIsKnown
  <2>2. panel' = NewSettingsPanel
    <3>1. ~Reopen
      BY <1>2, <2>1 DEF Reopen, TypeInv, Host
    <3>2. PICK s \in Sections : host' = [host EXCEPT !.section = s] /\ panel' = NewPanel(s, host)
      BY <3>1 DEF OpenSection
    <3>3. s = "settings"
      BY <1>1, <1>2, <2>1, <3>2 DEF Host
    <3>4. QED
      BY <3>2, <3>3 DEF NewPanel
  <2>3. MountCall("settings", host.token).cmd = "get_config"
    BY DEF MountCall, NewCall
  <2>4. \A c \in Under(calls') : c.here => c.cmd # "patch_config"
    BY <1>4, <2>1, <2>3
  <2>5. QED
    BY <2>2, <2>4 DEF DraftIsKnown, NewSettingsPanel
<1>7. UNCHANGED world /\ Click
  BY DEF Reopen, OpenSection
<1>8. \A c \in Under(calls') \cup timers' : OfSection(c)'
  BY <1>2, <1>4, <1>5 DEF OfSection
<1>9. QED
  BY <1>2, <1>4, <1>5, <1>6, <1>7, <1>8, WorldKept, CounterTypes DEF TypeInv

LEMMA TypesAtStart == Init => TypeInv /\ host.section = "stack"
<1> SUFFICES ASSUME Init
             PROVE  TypeInv /\ host.section = "stack"
  OBVIOUS
<1>1. PICK token \in Tokens, alloc \in {"ABSENT", "PENDING_KEY"} :
        agent = [token |-> token, alloc |-> alloc, config |-> CHOOSE c \in Configs : TRUE]
  BY DEF Init
<1>2. (CHOOSE c \in Configs : TRUE) \in Configs
  BY HostAssumption
<1>3. agent \in Agent /\ agent.token \in Tokens
  BY <1>1, <1>2 DEF Agent, AllocationStates
<1> DEFINE Nets == {[bind |-> "loopback", addr |-> ""]}
                     \cup {[bind |-> "overlay", addr |-> addr] : addr \in Addrs}
<1>4. \A net \in Nets : /\ net \in [bind : Binds, addr : Addrs \cup {""}]
                        /\ Keyed(net) \in EnvFile /\ Keyed(net) \in HostEnvValues
  <2> SUFFICES ASSUME NEW net \in Nets
               PROVE  /\ net \in [bind : Binds, addr : Addrs \cup {""}]
                      /\ Keyed(net) \in EnvFile /\ Keyed(net) \in HostEnvValues
    OBVIOUS
  <2>1. net \in [bind : Binds, addr : Addrs \cup {""}]
    <3>1. CASE net = [bind |-> "loopback", addr |-> ""]
      BY <3>1 DEF Binds
    <3>2. ASSUME NEW addr \in Addrs, net = [bind |-> "overlay", addr |-> addr]
          PROVE  net \in [bind : Binds, addr : Addrs \cup {""}]
      BY <3>2 DEF Binds
    <3>3. QED
      BY <3>1, <3>2
  <2>2. QED
    BY <1>3, <2>1 DEF Keyed, EnvFile, HostEnvValues
<1>5. /\ WorldTypes /\ host \in Host /\ host.section = "stack"
  <2>1. CASE /\ saved = [bind |-> "loopback", addr |-> "", token |-> ""]
             /\ running = None
             /\ host = [token |-> None, env |-> NoEnv, connected |-> FALSE, section |-> "stack"]
    <3>1. WorldTypes
      BY <1>3, <2>1 DEF WorldTypes, Binds
    <3>2. host \in Host /\ host.section = "stack"
      BY <2>1 DEF Host, Sections, NoEnv, HostEnvValues
    <3>3. QED
      BY <3>1, <3>2
  <2>2. ASSUME NEW old \in Nets, NEW new \in Nets, saved = Keyed(new), running = old,
               NEW env \in {Keyed(old), Keyed(new)},
               host = [token |-> agent.token, env |-> env, connected |-> FALSE,
                       section |-> "stack"]
        PROVE  WorldTypes /\ host \in Host /\ host.section = "stack"
    <3>1. WorldTypes
      BY <1>3, <1>4, <2>2 DEF WorldTypes, EnvFile
    <3>2. env \in HostEnvValues
      BY <1>4, <2>2
    <3>3. host \in Host /\ host.section = "stack"
      BY <1>3, <2>2, <3>2 DEF Host, Sections
    <3>4. QED
      BY <3>1, <3>3
  <2>3. QED
    BY <2>1, <2>2 DEF Init
<1>6. host.token \in Key
  BY <1>5 DEF Host, Key
<1>7. panel \in PanelOf("stack")
  BY <1>5 DEF Init, NewStackPanel, PanelOf, StackPanel, Host, NoEnv, HostEnvValues
<1>8. Queued(<<>>) /\ Under(<<>>) = {} /\ <<>> \o Mounted("stack", host.token) = calls
  <2>1. Queued(<<>>) /\ Under(<<>>) = {}
    BY DEF Queued, Under
  <2>2. <<>> \o Mounted("stack", host.token) = Mounted("stack", host.token)
    BY DEF Mounted
  <2>3. calls = Mounted("stack", host.token)
    BY DEF Init
  <2>4. QED
    BY <2>1, <2>2, <2>3
<1>9. Queued(calls) /\ \A c \in Under(calls) : c.cmd \in CommandsOf("stack")
  BY <1>6, <1>8, OpenedCalls DEF Sections
<1>10. timers = {} /\ clicks \in 0..MaxClicks
  <2>1. timers = {} /\ clicks = 0
    BY DEF Init
  <2>2. QED
    BY <2>1, QueueAssumption
<1>11. QED
  BY <1>5, <1>7, <1>9, <1>10 DEF TypeInv, OfSection, DraftIsKnown

LEMMA TypesStep ==
  ASSUME TypeInv, [Next]_shared
  PROVE  TypeInv'
<1>1. CASE UNCHANGED shared
  BY <1>1 DEF shared, TypeInv, OfSection, DraftIsKnown, WorldTypes
<1>2. QED
  BY <1>1, TypesOfOpening, TypesOfStack, TypesOfTail, TypesOfAlloc, TypesOfAgentPanels
     DEF Next

LEMMA TypesAlways == Spec => []TypeInv
<1>1. TypeInv /\ [Next]_shared => TypeInv'
  BY TypesStep
<1>2. QED
  BY <1>1, TypesAtStart, PTL DEF Spec

\* Whatever the addresses, tokens and bounds: the tab, its open section and what they work
\* on keep their types, and only known commands are under way.
THEOREM TypeCorrect == Spec => []TypeOK
<1>1. TypeInv => TypeOK
  <2> SUFFICES ASSUME TypeInv
               PROVE  TypeOK
    OBVIOUS
  <2>1. \A i \in 1..Len(calls) : calls[i].cmd \in Commands /\ calls[i].here \in BOOLEAN
    BY ElementOfSeq DEF TypeInv, Queued, Sent, Call
  <2>2. \A t \in timers : t.cmd \in Commands /\ t.here \in BOOLEAN
    BY DEF TypeInv, Slept, Sent, Call
  <2>3. saved \in HostEnvValues /\ None \notin {saved.bind, saved.addr, saved.token}
    BY HostAssumption DEF TypeInv, WorldTypes, HostEnvValues, Binds
  <2>4. QED
    BY <2>1, <2>2, <2>3 DEF TypeInv, TypeOK, PanelOf, WorldTypes
<1>2. QED
  BY <1>1, TypesAlways, PTL
-----------------------------------------------------------------------------
\* What asks, and what goes on, whatever it is asked with.
LEMMA AskKeeps ==
  ASSUME Queued(calls), NEW cmd, NEW a, Ask(cmd, a)
  PROVE  /\ Under(calls') = Under(calls) \cup {NewCall(cmd, a)}
         /\ NewCall(cmd, a).cmd = cmd /\ NewCall(cmd, a).arg = a /\ NewCall(cmd, a).here
<1>1. calls' = Append(calls, NewCall(cmd, a))
  BY DEF Ask
<1>2. NewCall(cmd, a).cmd = cmd /\ NewCall(cmd, a).arg = a /\ NewCall(cmd, a).here
  BY DEF NewCall
<1>3. QED
  BY <1>1, <1>2, UnderAppend

LEMMA NextIs ==
  ASSUME Queued(calls), calls # <<>>, NEW cmd, NEW a, AndThen(cmd, a)
  PROVE  /\ Under(calls') = Under(Tail(calls)) \cup {Following(calls, cmd, a)}
         /\ Following(calls, cmd, a).cmd = cmd
         /\ Following(calls, cmd, a).arg = a
         /\ Following(calls, cmd, a).here = here
<1>1. calls' = Append(Tail(calls), Following(calls, cmd, a))
  BY DEF AndThen, Following
<1>2. Head(calls) \in Call /\ Queued(Tail(calls))
  BY HeadIsUnder, TailGoesOn DEF Sent
<1>3. /\ Following(calls, cmd, a).cmd = cmd
      /\ Following(calls, cmd, a).arg = a
      /\ Following(calls, cmd, a).here = here
  BY <1>2 DEF Call, Following, here
<1>4. QED
  BY <1>1, <1>2, <1>3, UnderAppend

\* Nothing is answered.
NoneAnswered == Under(calls) \subseteq Under(calls') /\ timers' = timers

LEMMA StackClicksAnswerNone ==
  ASSUME TypeInv,
         \/ EditToken \/ SaveEnvAndToken \/ FetchTokenHint \/ Connect \/ RefreshStack
         \/ ShowLogs \/ \E op \in ComposeOps : Compose(op)
  PROVE  NoneAnswered
<1>1. Queued(calls)
  BY DEF TypeInv
<1>2. ASSUME NEW cmd, NEW a, Ask(cmd, a), timers' = timers PROVE NoneAnswered
  BY <1>1, <1>2, AskKeeps DEF NoneAnswered
<1>3. CASE EditToken
  BY <1>3 DEF EditToken, NoneAnswered
<1>4. CASE Connect
  <2> DEFINE a == [token |-> panel.edit, op |-> None]
             q == Append(calls, NewCall("get_info", a))
  <2>1. panel.edit \in Tokens /\ StackShown
    BY <1>4 DEF Connect, CanConnect, StackShown, TypeInv, PanelOf, StackPanel
  <2>2. panel.edit \in Key /\ host.section \in Sections
    BY <2>1 DEF Key, TypeInv, Host
  <2>3. a \in Args /\ Allowed("get_info", a)
    BY <2>2 DEF Args, Allowed, StackChecks, KeyCommands, ComposeOps, RowOps, StackArg
  <2>4. "get_info" \in Commands /\ "get_info" \in CommandsOf(host.section)
    BY <2>1 DEF Commands, CommandsOf, StackChecks, StackShown
  <2>5. NewCall("get_info", a) \in Fresh
    BY <2>3, <2>4, NewIsFresh
  <2>6. Queued(q) /\ GoesOn(calls, q, Fresh) /\ Under(calls) \subseteq Under(q)
    BY <1>1, <2>5, SameGoesOn, AppendGoesOn, UnderAppend DEF Fresh
  <2>7. TokenChange(panel.edit, panel, q) /\ timers' = timers
    BY <1>4 DEF Connect
  <2>8. Plain \subseteq Fresh
    BY DEF Plain
  <2> HIDE DEF q
  <2>9. QED
    BY <1>1, <2>2, <2>6, <2>7, <2>8, TokenChangeGoesOn DEF NoneAnswered
<1>5. CASE SaveEnvAndToken
  BY <1>2, <1>5 DEF SaveEnvAndToken
<1>6. CASE FetchTokenHint
  BY <1>2, <1>6 DEF FetchTokenHint
<1>7. CASE RefreshStack
  BY <1>2, <1>7 DEF RefreshStack
<1>8. CASE ShowLogs
  BY <1>2, <1>8 DEF ShowLogs
<1>9. ASSUME NEW op \in ComposeOps, Compose(op) PROVE NoneAnswered
  BY <1>2, <1>9 DEF Compose
<1>10. QED
  BY <1>3, <1>4, <1>5, <1>6, <1>7, <1>8, <1>9

LEMMA TailClicksAnswerNone ==
  ASSUME TypeInv, Apply \/ EditEnv \/ RefreshAll \/ SaveAndRestart \/ DoRefreshOverlay
  PROVE  NoneAnswered
<1>1. ASSUME NEW cmd, NEW a, Ask(cmd, a), timers' = timers PROVE NoneAnswered
  BY <1>1, AskKeeps DEF NoneAnswered, TypeInv
<1>2. CASE Apply \/ EditEnv
  BY <1>2 DEF Apply, EditEnv, NoneAnswered
<1>3. CASE RefreshAll
  BY <1>1, <1>3 DEF RefreshAll
<1>4. CASE SaveAndRestart
  BY <1>1, <1>4 DEF SaveAndRestart
<1>5. CASE DoRefreshOverlay
  BY <1>1, <1>5 DEF DoRefreshOverlay
<1>6. QED
  BY <1>2, <1>3, <1>4, <1>5

LEMMA AllocClicksAnswerNone ==
  ASSUME TypeInv,
         \/ AgentStep \/ ConfirmInvite \/ DoGenerateInvite \/ EnterResponse \/ DoImportResponse
         \/ DoResume \/ Cancel \/ LoadAllocations \/ ToggleCreate \/ DoCreate
         \/ \E op \in {"suspend", "retire", "delete"} : AskFirst(op) \/ DoConfirmed(op)
  PROVE  NoneAnswered
<1>1. ASSUME NEW cmd, NEW a, Ask(cmd, a), timers' = timers PROVE NoneAnswered
  BY <1>1, AskKeeps DEF NoneAnswered, TypeInv
<1>2. CASE AgentStep \/ ConfirmInvite \/ EnterResponse \/ Cancel \/ ToggleCreate
  BY <1>2 DEF AgentStep, ConfirmInvite, EnterResponse, Cancel, ToggleCreate, NoneAnswered
<1>3. ASSUME NEW op, AskFirst(op) PROVE NoneAnswered
  BY <1>3 DEF AskFirst, NoneAnswered
<1>4. ASSUME NEW op, DoConfirmed(op) PROVE NoneAnswered
  BY <1>1, <1>4 DEF DoConfirmed, RowCall
<1>5. CASE DoGenerateInvite
  BY <1>1, <1>5 DEF DoGenerateInvite, RowCall
<1>6. CASE DoImportResponse
  BY <1>1, <1>6 DEF DoImportResponse, RowCall
<1>7. CASE DoResume
  BY <1>1, <1>7 DEF DoResume, RowCall
<1>8. CASE LoadAllocations
  BY <1>1, <1>8 DEF LoadAllocations
<1>9. CASE DoCreate
  BY <1>1, <1>9 DEF DoCreate
<1>10. QED
  BY <1>2, <1>3, <1>4, <1>5, <1>6, <1>7, <1>8, <1>9
-----------------------------------------------------------------------------
\* What the open section waits for stays under way, or is over.
LEMMA PanelWaitsOn ==
  ASSUME TypeInv, PanelWaits, Goes(Fresh), timers \subseteq timers' \cup Under(calls'),
         \/ panel'.busy = None
         \/ \E c \in Under(calls') \cup timers' : Frees(c)
         \/ /\ panel'.busy = panel.busy
            /\ Under(calls) \subseteq Under(calls') \/ (calls # <<>> => ~Frees(Head(calls)))
  PROVE  PanelWaits'
<1>1. \A c \in Under(calls) : c \in Under(calls') \/ (calls # <<>> /\ c = Head(calls))
  BY UnderNext DEF TypeInv, Goes
<1>2. QED
  BY <1>1 DEF PanelWaits, Frees

LEMMA ClickedWaits ==
  ASSUME TypeInv, PanelWaits, Goes(Fresh), NoneAnswered,
         \/ panel'.busy = panel.busy
         \/ \E c \in Under(calls') : Frees(c)
  PROVE  PanelWaits'
  BY PanelWaitsOn DEF NoneAnswered

\* A change of the token loads again.
LEMMA TokenChangeWaits ==
  ASSUME TypeInv, PanelWaits, NEW token \in Key, NEW q, TokenChange(token, panel, q),
         Queued(q), Goes(Fresh), timers' = timers, Under(q) \subseteq Under(calls'),
         \/ Under(calls) \subseteq Under(q)
         \/ calls # <<>> /\ (~here \/ \E c \in Under(q) : Frees(c))
  PROVE  PanelWaits'
<1>1. host.section \in Sections
  BY DEF TypeInv, Host
<1>2. CASE panel'.busy = panel.busy
  <2>1. ~here => ~Frees(Head(calls))
    BY DEF here, Frees
  <2>2. QED
    BY <1>2, <2>1, PanelWaitsOn
<1>3. CASE /\ host.section \in {"tailscale", "allocations", "diagnostics"}
           /\ panel' = [panel EXCEPT !.busy = Loading(host.section, token)]
           /\ calls' = q \o Mounted(host.section, token)
  <2>1. panel'.busy = Loading(host.section, token)
    BY <1>3 DEF TypeInv, PanelOf, TailPanel, AllocPanel, DiagnosticsPanel
  <2>2. CASE token = None /\ host.section # "tailscale"
    BY <2>1, <2>2, PanelWaitsOn DEF Loading
  <2>3. CASE token # None \/ host.section = "tailscale"
    <3>1. calls' = Append(q, MountCall(host.section, token))
      <4>1. CASE host.section = "tailscale"
        BY <1>1, <1>3, <4>1, MountedIs
      <4>2. CASE token # None
        <5>1. Mounted(host.section, token) = <<MountCall(host.section, token)>>
          BY <1>1, <4>2 DEF Mounted, MountCall, Sections
        <5>2. Append(q, MountCall(host.section, token))
                = q \o <<MountCall(host.section, token)>>
          BY <1>1, MountCallIsSent, AppendIsConcat DEF Queued
        <5>3. QED
          BY <1>3, <5>1, <5>2
      <4>3. QED
        BY <2>3, <4>1, <4>2
    <3>2. MountCall(host.section, token) \in Under(calls')
      BY <3>1, UnderAppend
    <3>3. Frees(MountCall(host.section, token))
      BY <1>3 DEF Frees, MountCall, NewCall, RowOps, StackChecks
    <3>4. QED
      BY <3>2, <3>3, PanelWaitsOn
  <2>4. QED
    BY <2>2, <2>3
<1>4. ASSUME panel' = panel \/ (host.section = "stack" /\ panel' = [panel EXCEPT !.edit = token])
      PROVE  panel'.busy = panel.busy
  BY <1>4 DEF TypeInv, PanelOf, StackPanel
<1>5. QED
  BY <1>1, <1>2, <1>3, <1>4 DEF TokenChange, Sections
-----------------------------------------------------------------------------
\* What was asked for stays asked for when the token changes.
LEMMA TokenChangeKeeps ==
  ASSUME TypeInv, NEW token \in Key, NEW q, Queued(q), NEW p, TokenChange(token, p, q)
  PROVE  Under(q) \subseteq Under(calls')
<1>1. host.section \in Sections
  BY DEF TypeInv, Host
<1>2. calls' = q \/ calls' = q \o Mounted(host.section, token)
  BY DEF TokenChange
<1>3. calls' = q \/ calls' = Append(q, MountCall(host.section, token))
  BY <1>1, <1>2, MountedIs
<1>4. CASE calls' = q
  BY <1>4
<1>5. CASE calls' = Append(q, MountCall(host.section, token))
  BY <1>5, UnderAppend
<1>6. QED
  BY <1>3, <1>4, <1>5

\* An answer is given to the section that asked, or to nobody.
LEMMA AnsweredWaits ==
  ASSUME TypeInv, PanelWaits, Goes(Fresh), calls # <<>>, timers \subseteq timers',
         ~here => panel'.busy = panel.busy,
         here => \/ panel'.busy = None
                 \/ \E c \in Under(calls') \cup timers' : Frees(c)
                 \/ panel'.busy = panel.busy /\ ~Frees(Head(calls))
  PROVE  PanelWaits'
<1>1. ~here => ~Frees(Head(calls))
  BY DEF here, Frees
<1>2. QED
  BY <1>1, PanelWaitsOn

LEMMA StackClicksWait ==
  ASSUME TypeInv, PanelWaits,
         \/ EditToken \/ SaveEnvAndToken \/ FetchTokenHint \/ Connect \/ RefreshStack
         \/ ShowLogs \/ \E op \in ComposeOps : Compose(op)
  PROVE  PanelWaits'
<1>1. Goes(Fresh) /\ NoneAnswered
  BY QueueOfStackClicks, StackClicksAnswerNone DEF QueueStep
<1>2. /\ StackShown
      /\ Queued(calls)
  BY DEF EditToken, SaveEnvAndToken, CanSaveToken, FetchTokenHint, CanHint, Connect,
     CanConnect, RefreshStack, CanRefresh, ShowLogs, Compose, CanCompose, TypeInv
<1>3. panel \in StackPanel
  BY <1>2 DEF StackShown, TypeInv, PanelOf
<1>4. ASSUME NEW cmd \in Commands \ (RowOps \cup StackChecks \cup {"get_config"}), NEW a,
             Ask(cmd, a)
      PROVE  PanelWaits'
  <2>1. NewCall(cmd, a) \in Under(calls') /\ Frees(NewCall(cmd, a))
    BY <1>2, <1>4, AskKeeps DEF Frees
  <2>2. QED
    BY <1>1, <2>1, ClickedWaits
<1>5. /\ {"write_env", "token_hint", "logs"} \cup ComposeOps
             \subseteq Commands \ (RowOps \cup StackChecks \cup {"get_config"})
  BY DEF Commands, RowOps, StackChecks, ComposeOps
<1>6. CASE EditToken
  <2>1. panel'.busy = panel.busy
    BY <1>3, <1>6 DEF EditToken, StackPanel
  <2>2. QED
    BY <1>1, <2>1, ClickedWaits
<1>7. CASE RefreshStack
  BY <1>1, <1>7, ClickedWaits DEF RefreshStack
<1>8. CASE Connect
  <2> DEFINE q == Append(calls, NewCall("get_info", [token |-> panel.edit, op |-> None]))
  <2>1. panel.edit \in Tokens /\ panel.edit \in Key
    BY <1>3, <1>8 DEF Connect, CanConnect, StackPanel, Key
  <2>2. [token |-> panel.edit, op |-> None] \in StackArg
    BY <2>1 DEF StackArg
  <2>3. NewCall("get_info", [token |-> panel.edit, op |-> None]) \in Sent
    BY <2>2 DEF NewCall, Sent, Call, Commands, Args, Allowed, StackChecks, KeyCommands,
                ComposeOps, RowOps
  <2>4. Queued(q) /\ Under(calls) \subseteq Under(q)
    BY <1>2, <2>3, SameGoesOn, AppendGoesOn, UnderAppend DEF Queued
  <2>5. TokenChange(panel.edit, panel, q) /\ timers' = timers
    BY <1>8 DEF Connect
  <2> HIDE DEF q
  <2>6. Under(q) \subseteq Under(calls')
    BY <2>1, <2>4, <2>5, TokenChangeKeeps
  <2>7. QED
    BY <1>1, <2>1, <2>4, <2>5, <2>6, TokenChangeWaits
<1>9. CASE SaveEnvAndToken
  BY <1>4, <1>5, <1>9 DEF SaveEnvAndToken
<1>10. CASE FetchTokenHint
  BY <1>4, <1>5, <1>10 DEF FetchTokenHint
<1>11. CASE ShowLogs
  BY <1>4, <1>5, <1>11 DEF ShowLogs
<1>12. ASSUME NEW op \in ComposeOps, Compose(op) PROVE PanelWaits'
  BY <1>4, <1>5, <1>12 DEF Compose
<1>13. QED
  BY <1>6, <1>7, <1>8, <1>9, <1>10, <1>11, <1>12

LEMMA StackAnswersWait ==
  ASSUME TypeInv, PanelWaits,
         \/ EnvWritten \/ EnvRead \/ TokenHinted \/ LogsShown \/ StackRefreshed
         \/ InfoAnswered \/ StatusAnswered
  PROVE  PanelWaits'
<1>1. calls # <<>> /\ Head(calls).cmd \in CommandsOf("stack")
  BY DEF EnvWritten, EnvRead, TokenHinted, LogsShown, StackRefreshed, InfoAnswered,
         StatusAnswered, Answered, CommandsOf, StackChecks
<1>2. /\ Queued(calls) /\ Head(calls) \in Sent
      /\ Allowed(Head(calls).cmd, arg) /\ here \in BOOLEAN
  BY <1>1, HeadFacts
<1>3. Goes(Fresh)
  BY QueueOfStackAnswers DEF QueueStep
<1>4. timers' = timers
  BY DEF EnvWritten, EnvRead, TokenHinted, LogsShown, StackRefreshed, InfoAnswered,
         StatusAnswered
<1>5. here => panel \in StackPanel
  BY <1>1, AnswererIsShown DEF Sections, PanelOf
<1>6. ASSUME NEW p, Patch(p), here => \/ p.busy = None
                                      \/ \E c \in Under(calls') : Frees(c)
                                      \/ p.busy = panel.busy /\ ~Frees(Head(calls))
      PROVE  PanelWaits'
  BY <1>1, <1>3, <1>4, <1>6, AnsweredWaits DEF Patch
<1>7. CASE EnvWritten
  <2>1. CASE WriteEnv(arg) /\ TokenChange(arg.token, panel,
                       Append(Tail(calls), [Head(calls) EXCEPT !.cmd = "read_env"]))
    <3> DEFINE c == [Head(calls) EXCEPT !.cmd = "read_env"]
               q == Append(Tail(calls), c)
    <3>1. arg.token \in Key /\ Head(calls).cmd = "write_env"
      BY <1>2, <1>7 DEF EnvWritten, Answered, Allowed, Key
    <3>2. c \in Sent /\ c.here = here /\ c.cmd = "read_env"
      BY <1>2 DEF Sent, Call, Commands, Allowed, StackChecks, KeyCommands, ComposeOps,
         RowOps, here
    <3>3. Queued(Tail(calls)) /\ Queued(q) /\ c \in Under(q)
      BY <1>1, <1>2, <3>2, TailGoesOn, SameGoesOn, AppendGoesOn, UnderAppend
    <3>4. here => Frees(c)
      BY <3>2 DEF Frees, RowOps, StackChecks
    <3>5. TokenChange(arg.token, panel, q)
      BY <2>1
    <3> HIDE DEF c, q
    <3>6. Under(q) \subseteq Under(calls')
      BY <3>1, <3>3, <3>5, TokenChangeKeeps
    <3>7. QED
      BY <1>1, <1>2, <1>3, <1>4, <3>1, <3>3, <3>4, <3>5, <3>6, TokenChangeWaits
  <2>2. CASE Patch([panel EXCEPT !.busy = None])
    <3>1. here => [panel EXCEPT !.busy = None].busy = None
      BY <1>5 DEF StackPanel
    <3>2. QED
      BY <1>6, <2>2, <3>1
  <2>3. QED
    BY <1>7, <2>1, <2>2 DEF EnvWritten
<1>8. CASE EnvRead
  <2>1. PICK env \in ReadEnv : Patch([panel EXCEPT !.env = env, !.busy = None])
    BY <1>8 DEF EnvRead
  <2>2. here => [panel EXCEPT !.env = env, !.busy = None].busy = None
    BY <1>5 DEF StackPanel
  <2>3. QED
    BY <1>6, <2>1, <2>2
<1>9. CASE TokenHinted
  <2>1. here => /\ [panel EXCEPT !.edit = agent.token, !.busy = None].busy = None
                /\ [panel EXCEPT !.busy = None].busy = None
    BY <1>5 DEF StackPanel
  <2>2. QED
    BY <1>6, <1>9, <2>1 DEF TokenHinted
<1>10. CASE LogsShown
  <2>1. here => [panel EXCEPT !.busy = None].busy = None
    BY <1>5 DEF StackPanel
  <2>2. QED
    BY <1>6, <1>10, <2>1 DEF LogsShown
<1>11. ASSUME NEW cmd \in {"get_info", "get_status"}, AndThen(cmd, arg), Frees(Head(calls)),
              Head(calls).cmd \in StackChecks
       PROVE  \E c \in Under(calls') : Frees(c)
  <2>1. /\ Following(calls, cmd, arg) \in Under(calls')
        /\ Following(calls, cmd, arg).cmd = cmd
        /\ Following(calls, cmd, arg).arg = arg
        /\ Following(calls, cmd, arg).here = here
    BY <1>1, <1>2, <1>11, NextIs
  <2>2. Frees(Following(calls, cmd, arg))
    BY <1>11, <2>1 DEF Frees, here, arg, RowOps, StackChecks
  <2>3. QED
    BY <2>1, <2>2
<1>12. CASE StackRefreshed
  <2>1. PICK env \in ReadEnv :
          Patch([panel EXCEPT !.env = env, !.known = TRUE, !.running = (running # None)])
    BY <1>12 DEF StackRefreshed
  <2>2. here => [panel EXCEPT !.env = env, !.known = TRUE, !.running = (running # None)].busy
                  = panel.busy
    BY <1>5 DEF StackPanel
  <2>3. Frees(Head(calls)) => \E c \in Under(calls') : Frees(c)
    BY <1>11, <1>12 DEF StackRefreshed, Answered, StackChecks
  <2>4. QED
    BY <1>6, <2>1, <2>2, <2>3
<1>13. ASSUME NEW result, ApiChecked(result), Head(calls).cmd \in StackChecks PROVE PanelWaits'
  <2> DEFINE p == [panel EXCEPT !.api = result, !.busy = IF arg.op = None THEN @ ELSE None]
  <2>1. here => p.busy = IF arg.op = None THEN panel.busy ELSE None
    BY <1>5 DEF StackPanel
  <2>2. arg.op = None => ~Frees(Head(calls))
    BY <1>13 DEF Frees, arg
  <2>3. Patch(p)
    BY <1>13 DEF ApiChecked
  <2> HIDE DEF p
  <2>4. QED
    BY <1>6, <2>1, <2>2, <2>3
<1>14. CASE InfoAnswered
  <2>1. CASE AndThen("get_status", arg) /\ Patch([panel EXCEPT !.api = "reachable"])
    <3>1. here => [panel EXCEPT !.api = "reachable"].busy = panel.busy
      BY <1>5 DEF StackPanel
    <3>2. Frees(Head(calls)) => \E c \in Under(calls') : Frees(c)
      BY <1>11, <1>14, <2>1 DEF InfoAnswered, Answered, StackChecks
    <3>3. QED
      BY <1>6, <2>1, <3>1, <3>2
  <2>2. QED
    BY <1>13, <1>14, <2>1 DEF InfoAnswered, Answered, StackChecks
<1>15. CASE StatusAnswered
  BY <1>13, <1>15 DEF StatusAnswered, Answered, StackChecks
<1>16. QED
  BY <1>7, <1>8, <1>9, <1>10, <1>12, <1>14, <1>15

LEMMA StackWaits ==
  ASSUME TypeInv, PanelWaits, StackSteps
  PROVE  PanelWaits'
<1>1. Queued(calls) /\ Goes(Fresh)
  BY QueueOfStack DEF TypeInv, QueueStep
<1>2. ASSUME NEW op \in ComposeOps, Composed(op) PROVE PanelWaits'
  <2>1. calls # <<>> /\ Head(calls).cmd \in CommandsOf("stack")
    BY <1>2 DEF Composed, Answered, CommandsOf
  <2>2. here => panel \in StackPanel
    BY <2>1, AnswererIsShown DEF Sections, PanelOf
  <2>3. CASE /\ timers' = timers \cup {[cmd |-> "refresh_stack", here |-> here,
                                        arg |-> [token |-> arg, op |-> op]]}
             /\ UNCHANGED panel
    <3> DEFINE t == [cmd |-> "refresh_stack", here |-> here, arg |-> [token |-> arg, op |-> op]]
    <3>1. op # None
      BY HostAssumption DEF ComposeOps
    <3>2. here => Frees(t)
      BY <3>1 DEF Frees, RowOps
    <3>3. t \in timers' /\ timers \subseteq timers'
      BY <2>3
    <3> HIDE DEF t
    <3>4. QED
      BY <1>1, <2>1, <2>3, <3>2, <3>3, AnsweredWaits
  <2>4. CASE Patch([panel EXCEPT !.busy = None]) /\ UNCHANGED timers
    <3>1. here => [panel EXCEPT !.busy = None].busy = None
      BY <2>2 DEF StackPanel
    <3>2. QED
      BY <1>1, <2>1, <2>4, <3>1, AnsweredWaits DEF Patch
  <2>5. QED
    BY <1>2, <2>3, <2>4 DEF Composed
<1>3. CASE StackWaited
  <2>1. PICK t \in timers : timers' = timers \ {t} /\ calls' = Append(calls, t) /\ panel' = panel
    BY <1>3 DEF StackWaited
  <2>2. Under(calls') = Under(calls) \cup {t}
    BY <1>1, <2>1, UnderAppend
  <2>3. QED
    BY <1>1, <2>1, <2>2, PanelWaitsOn
<1>4. QED
  BY <1>2, <1>3, StackClicksWait, StackAnswersWait DEF StackSteps
-----------------------------------------------------------------------------
LEMMA NextFrees ==
  ASSUME Queued(calls), calls # <<>>, NEW cmd, NEW a, AndThen(cmd, a),
         cmd \notin RowOps \cup StackChecks \cup {"get_config"}
  PROVE  here => \E c \in Under(calls') : Frees(c)
<1>1. /\ Following(calls, cmd, a) \in Under(calls')
      /\ Following(calls, cmd, a).cmd = cmd
      /\ Following(calls, cmd, a).here = here
  BY NextIs
<1>2. here => Frees(Following(calls, cmd, a))
  BY <1>1 DEF Frees
<1>3. QED
  BY <1>1, <1>2

LEMMA TailWaits ==
  ASSUME TypeInv, PanelWaits, TailSteps
  PROVE  PanelWaits'
<1>1. Queued(calls) /\ Goes(Fresh)
  BY QueueOfTail DEF TypeInv, QueueStep
<1>2. TailShown => panel \in TailPanel
  BY DEF TailShown, TypeInv, PanelOf
<1>3. ASSUME NEW cmd \in {"ts_refresh", "ts_write", "ts_overlay"}, NEW a, Ask(cmd, a),
             NoneAnswered
      PROVE  PanelWaits'
  <2>1. NewCall(cmd, a) \in Under(calls') /\ Frees(NewCall(cmd, a))
    BY <1>1, <1>3, AskKeeps DEF Frees, RowOps, StackChecks
  <2>2. QED
    BY <1>1, <1>3, <2>1, ClickedWaits
<1>4. CASE Apply \/ EditEnv
  <2>1. TailShown /\ NoneAnswered
    BY <1>4, TailClicksAnswerNone DEF Apply, CanApply, EditEnv
  <2>2. panel'.busy = panel.busy
    BY <1>2, <1>4, <2>1
    DEF Apply, EditEnv, ApplyTailscaleIp, ApplyAdvertisedAddress, TailPanel
  <2>3. QED
    BY <1>1, <2>1, <2>2, ClickedWaits
<1>5. CASE RefreshAll \/ SaveAndRestart \/ DoRefreshOverlay
  BY <1>3, <1>5, TailClicksAnswerNone DEF RefreshAll, SaveAndRestart, DoRefreshOverlay
<1>6. ASSUME TsRefreshed \/ OverlayAnswered \/ TsWritten \/ TsRestarted
      PROVE  /\ calls # <<>>
             /\ here => panel \in TailPanel /\ TailShown
  <2>1. calls # <<>> /\ Head(calls).cmd \in CommandsOf("tailscale")
    BY <1>6 DEF TsRefreshed, OverlayAnswered, TsWritten, TsRestarted, Answered, CommandsOf
  <2>2. QED
    BY <2>1, AnswererIsShown DEF Sections, PanelOf, TailShown
<1>7. ASSUME NEW cmd \in {"ts_agent", "ts_refresh", "ts_restart"}, NEW a, AndThen(cmd, a),
             calls # <<>>, here
      PROVE  \E c \in Under(calls') : Frees(c)
  BY <1>1, <1>7, NextFrees DEF RowOps, StackChecks
<1>8. ASSUME NEW p, NEW env, EnvChange(p, env), p = panel \/ (panel \in TailPanel /\ p \in TailPanel)
      PROVE  panel'.busy = p.busy
  BY <1>2, <1>8 DEF EnvChange, TailPanel
<1>9. CASE TsRefreshed
  <2> DEFINE p == IF here THEN [panel EXCEPT !.known = TRUE,
                                             !.busy = IF arg = None THEN None ELSE @]
                  ELSE panel
  <2>1. PICK env \in ReadEnv : EnvChange(p, env)
    BY <1>9 DEF TsRefreshed
  <2>2. /\ p = panel \/ (panel \in TailPanel /\ p \in TailPanel)
        /\ ~here => p.busy = panel.busy
        /\ here /\ arg = None => p.busy = None
    BY <1>6, <1>9 DEF TailPanel
  <2>3. here /\ arg # None => \E c \in Under(calls') : Frees(c)
    BY <1>6, <1>7, <1>9 DEF TsRefreshed
  <2> HIDE DEF p
  <2>4. panel'.busy = p.busy
    BY <1>8, <2>1, <2>2
  <2>5. timers' = timers
    BY <1>9 DEF TsRefreshed
  <2>6. QED
    BY <1>1, <1>6, <1>9, <2>2, <2>3, <2>4, <2>5, AnsweredWaits
<1>10. CASE OverlayAnswered
  <2>1. here => /\ [panel EXCEPT !.overlay = running.addr, !.busy = None].busy = None
                /\ [panel EXCEPT !.busy = None].busy = None
    BY <1>6, <1>10 DEF TailPanel
  <2>2. timers' = timers
    BY <1>10 DEF OverlayAnswered
  <2>3. (here => panel'.busy = None) /\ (~here => panel' = panel)
    BY <1>10, <2>1 DEF OverlayAnswered, Patch
  <2>4. QED
    BY <1>1, <1>6, <1>10, <2>2, <2>3, AnsweredWaits
<1>11. CASE TsWritten
  <2>1. timers' = timers
    BY <1>11 DEF TsWritten
  <2>2. CASE AndThen("ts_restart", arg.token) /\ EnvChange(panel, arg.env)
    <3>1. panel'.busy = panel.busy
      BY <1>8, <2>2
    <3>2. QED
      BY <1>1, <1>6, <1>7, <1>11, <2>1, <2>2, <3>1, AnsweredWaits
  <2>3. CASE /\ AndThen("ts_refresh", arg.token)
             /\ EnvChange(IF here THEN Saved(panel) ELSE panel, arg.env)
    <3> DEFINE p == IF here THEN Saved(panel) ELSE panel
    <3>1. p = panel \/ (panel \in TailPanel /\ p \in TailPanel)
      BY <1>6, <1>11 DEF Saved, TailPanel
    <3>2. EnvChange(p, arg.env)
      BY <2>3
    <3>3. ~here => p = panel
      OBVIOUS
    <3> HIDE DEF p
    <3>4. panel'.busy = p.busy
      BY <1>8, <3>1, <3>2
    <3>5. QED
      BY <1>1, <1>6, <1>7, <1>11, <2>1, <2>3, <3>3, <3>4, AnsweredWaits
  <2>4. CASE Patch([panel EXCEPT !.busy = None])
    <3>1. (here => panel'.busy = None) /\ (~here => panel' = panel)
      BY <1>6, <1>11, <2>4 DEF Patch, TailPanel
    <3>2. QED
      BY <1>1, <1>6, <1>11, <2>1, <3>1, AnsweredWaits
  <2>5. QED
    BY <1>11, <2>2, <2>3, <2>4 DEF TsWritten
<1>12. CASE TsRestarted
  <2>1. CASE /\ timers' = timers \cup {[cmd |-> "ts_refresh", here |-> here, arg |-> arg]}
             /\ UNCHANGED panel
    <3> DEFINE t == [cmd |-> "ts_refresh", here |-> here, arg |-> arg]
    <3>1. t \in timers' /\ timers \subseteq timers'
      BY <2>1
    <3>2. here => Frees(t)
      BY DEF Frees, RowOps, StackChecks
    <3> HIDE DEF t
    <3>3. QED
      BY <1>1, <1>6, <1>12, <2>1, <3>1, <3>2, AnsweredWaits
  <2>2. CASE Patch([panel EXCEPT !.busy = None]) /\ UNCHANGED timers
    <3>1. (here => panel'.busy = None) /\ (~here => panel' = panel)
      BY <1>6, <1>12, <2>2 DEF Patch, TailPanel
    <3>2. QED
      BY <1>1, <1>6, <1>12, <2>2, <3>1, AnsweredWaits
  <2>3. QED
    BY <1>12, <2>1, <2>2 DEF TsRestarted
<1>13. CASE TsWaited
  <2>1. PICK t \in timers : /\ t.cmd = "ts_refresh"
                            /\ timers' = timers \ {t} /\ calls' = Append(calls, t)
                            /\ panel' = IF t.here THEN Saved(panel) ELSE panel
    BY <1>13 DEF TsWaited
  <2>2. Under(calls') = Under(calls) \cup {t}
    BY <1>1, <2>1, UnderAppend
  <2>3. t.here => Frees(t)
    BY <2>1 DEF Frees, RowOps, StackChecks
  <2>4. QED
    BY <1>1, <2>1, <2>2, <2>3, PanelWaitsOn
<1>14. QED
  BY <1>4, <1>5, <1>9, <1>10, <1>11, <1>12, <1>13 DEF TailSteps

LEMMA AllocWaits ==
  ASSUME TypeInv, PanelWaits, AllocSteps
  PROVE  PanelWaits'
<1>1. Queued(calls) /\ Goes(Fresh)
  BY QueueOfAlloc DEF TypeInv, QueueStep
<1>2. AllocShown => panel \in AllocPanel /\ panel.row \in Row
  BY DEF AllocShown, TypeInv, PanelOf, AllocPanel
<1>3. ASSUME \/ AgentStep \/ ConfirmInvite \/ DoGenerateInvite \/ EnterResponse
             \/ DoImportResponse \/ DoResume \/ Cancel \/ ToggleCreate
             \/ \E op \in {"suspend", "retire", "delete"} : AskFirst(op) \/ DoConfirmed(op)
      PROVE  PanelWaits'
  <2>1. AllocShown /\ NoneAnswered
    BY <1>3, AllocClicksAnswerNone
    DEF AgentStep, ConfirmInvite, DoGenerateInvite, InviteClicked, EnterResponse,
        DoImportResponse, DoResume, Cancel, ToggleCreate, AskFirst, DoConfirmed, Offered
  <2>2. panel'.busy = panel.busy
    BY <1>2, <1>3, <2>1
    DEF AgentStep, ConfirmInvite, DoGenerateInvite, EnterResponse, DoImportResponse,
       DoResume, Cancel, ToggleCreate, AskFirst, DoConfirmed, AllocPanel
  <2>3. QED
    BY <1>1, <2>1, <2>2, ClickedWaits
<1>4. CASE LoadAllocations \/ DoCreate
  <2>1. NoneAnswered
    BY <1>4, AllocClicksAnswerNone
  <2>2. ASSUME NEW cmd \in {"list", "create"}, NEW a, Ask(cmd, a) PROVE PanelWaits'
    <3>1. NewCall(cmd, a) \in Under(calls') /\ Frees(NewCall(cmd, a))
      BY <1>1, <2>2, AskKeeps DEF Frees, RowOps, StackChecks
    <3>2. QED
      BY <1>1, <2>1, <3>1, ClickedWaits
  <2>3. QED
    BY <1>4, <2>2 DEF LoadAllocations, DoCreate
<1>5. CASE RowAnswered \/ Listed \/ Created
  <2>1. calls # <<>> /\ Head(calls).cmd \in CommandsOf("allocations") /\ timers' = timers
    BY <1>5 DEF RowAnswered, Listed, Created, Answered, CommandsOf
  <2>2. here => panel \in AllocPanel
    BY <2>1, AnswererIsShown DEF Sections, PanelOf
  <2>3. ASSUME NEW a, here => AndThen("list", a), NEW p, Patch(p), here => p.busy = "load"
        PROVE  PanelWaits'
    <3>1. here => \E c \in Under(calls') : Frees(c)
      BY <1>1, <2>1, <2>3, NextFrees DEF RowOps, StackChecks
    <3>2. ~here => panel' = panel
      BY <2>3 DEF Patch
    <3>3. QED
      BY <1>1, <2>1, <3>1, <3>2, AnsweredWaits
  <2>4. ASSUME NEW p, Patch(p), here => p.busy = None PROVE PanelWaits'
    <3>1. (here => panel'.busy = None) /\ (~here => panel' = panel)
      BY <2>4 DEF Patch
    <3>2. QED
      BY <1>1, <2>1, <3>1, AnsweredWaits
  <2>5. CASE RowAnswered
    <3>1. Head(calls).cmd \in RowOps
      BY <2>5 DEF RowAnswered, Answered
    <3>2. CASE ~Agreed \/ Patch([panel EXCEPT !.row = RowEnded(@)])
      <4>1. Patch([panel EXCEPT !.row = RowEnded(@)])
        BY <2>5, <3>2 DEF RowAnswered
      <4>2. panel'.busy = panel.busy
        BY <2>2, <4>1 DEF Patch, AllocPanel
      <4>3. ~Frees(Head(calls))
        BY <3>1 DEF Frees
      <4>4. QED
        BY <1>1, <2>1, <4>2, <4>3, AnsweredWaits
    <3>3. ASSUME Agreed, ~Patch([panel EXCEPT !.row = RowEnded(@)]) PROVE PanelWaits'
      <4>1. PICK row : Patch([panel EXCEPT !.busy = "load", !.row = row])
        BY <2>5, <3>3 DEF RowAnswered
      <4>2. here => AndThen("list", arg.token)
        BY <2>5, <3>3 DEF RowAnswered, RowLoads
      <4>3. here => [panel EXCEPT !.busy = "load", !.row = row].busy = "load"
        BY <2>2 DEF AllocPanel
      <4>4. QED
        BY <2>3, <4>1, <4>2, <4>3
    <3>4. QED
      BY <3>2, <3>3
  <2>6. CASE Created
    <3>1. here => /\ [panel EXCEPT !.creating = FALSE, !.busy = "load"].busy = "load"
                  /\ [panel EXCEPT !.busy = None].busy = None
      BY <2>2 DEF AllocPanel
    <3>2. QED
      BY <2>3, <2>4, <2>6, <3>1 DEF Created
  <2>7. CASE Listed
    <3>1. \E list, overlay, row :
            \/ Patch([panel EXCEPT !.list = list, !.overlay = overlay, !.busy = None,
                                   !.row = row])
            \/ Patch([panel EXCEPT !.busy = None])
      BY <2>7 DEF Listed
    <3>2. PICK list, overlay, row :
            \/ Patch([panel EXCEPT !.list = list, !.overlay = overlay, !.busy = None,
                                   !.row = row])
            \/ Patch([panel EXCEPT !.busy = None])
      BY <3>1
    <3>3. here => /\ [panel EXCEPT !.list = list, !.overlay = overlay, !.busy = None,
                                   !.row = row].busy = None
                  /\ [panel EXCEPT !.busy = None].busy = None
      BY <2>2 DEF AllocPanel
    <3>4. QED
      BY <2>4, <3>2, <3>3
  <2>8. QED
    BY <1>5, <2>5, <2>6, <2>7
<1>6. QED
  BY <1>3, <1>4, <1>5 DEF AllocSteps
-----------------------------------------------------------------------------
LEMMA AgentPanelsWait ==
  ASSUME TypeInv, PanelWaits, AgentPanelSteps
  PROVE  PanelWaits'
<1>1. Queued(calls) /\ Goes(Fresh)
  BY QueueOfAgentPanels DEF TypeInv, QueueStep
<1>2. /\ host.section = "settings" => panel \in SettingsPanel
      /\ host.section = "diagnostics" => panel \in DiagnosticsPanel
  BY DEF TypeInv, PanelOf
<1>3. CASE EditSettings \/ SavedFades
  <2>1. NoneAnswered
    BY <1>3 DEF EditSettings, SavedFades, NoneAnswered
  <2>2. panel'.busy = panel.busy
    BY <1>2, <1>3 DEF EditSettings, SavedFades, SettingsShown, SettingsPanel
  <2>3. QED
    BY <1>1, <2>1, <2>2, ClickedWaits
<1>4. ASSUME NEW cmd \in {"patch_config", "diag_refresh", "verify"}, NEW a, Ask(cmd, a),
             timers' = timers
      PROVE  PanelWaits'
  <2>1. NewCall(cmd, a) \in Under(calls') /\ Frees(NewCall(cmd, a)) /\ NoneAnswered
    BY <1>1, <1>4, AskKeeps DEF Frees, RowOps, StackChecks, NoneAnswered
  <2>2. QED
    BY <1>1, <2>1, ClickedWaits
<1>5. CASE SaveSettings
  BY <1>4, <1>5 DEF SaveSettings
<1>6. CASE RefreshDiagnostics
  BY <1>4, <1>6 DEF RefreshDiagnostics
<1>7. CASE RunVerify
  BY <1>4, <1>7 DEF RunVerify
<1>8. CASE ConfigLoaded
  <2>1. /\ calls # <<>> /\ Head(calls).cmd = "get_config" /\ timers' = timers
        /\ Head(calls).cmd \in CommandsOf("settings")
    BY <1>8 DEF ConfigLoaded, Answered, CommandsOf
  <2>2. here => panel \in SettingsPanel
    BY <2>1, AnswererIsShown DEF Sections, PanelOf
  <2>3. panel'.busy = panel.busy
    BY <1>8, <2>2 DEF ConfigLoaded, Patch, SettingsPanel
  <2>4. ~Frees(Head(calls))
    BY <2>1 DEF Frees
  <2>5. QED
    BY <1>1, <2>1, <2>3, <2>4, AnsweredWaits
<1>9. CASE SettingsSaved \/ DiagnosticsRefreshed \/ Verified
  <2>1. calls # <<>> /\ timers' = timers
    BY <1>9 DEF SettingsSaved, DiagnosticsRefreshed, Verified, Answered
  <2>2. here => panel \in SettingsPanel \/ panel \in DiagnosticsPanel
    <3>1. Head(calls).cmd \in CommandsOf("settings") \cup CommandsOf("diagnostics")
      BY <1>9 DEF SettingsSaved, DiagnosticsRefreshed, Verified, Answered, CommandsOf
    <3>2. QED
      BY <2>1, <3>1, AnswererIsShown DEF Sections, PanelOf
  <2>3. PICK p : Patch(p) /\ (here => p.busy = None)
    <3>1. CASE SettingsSaved
      <4>1. here => panel \in SettingsPanel
        BY <3>1, AnswererIsShown DEF SettingsSaved, Answered, CommandsOf, Sections,
           PanelOf
      <4>2. here => /\ [panel EXCEPT !.config = arg.draft, !.busy = None, !.saved = TRUE].busy = None
                    /\ [panel EXCEPT !.busy = None].busy = None
        BY <4>1 DEF SettingsPanel
      <4>3. QED
        BY <3>1, <4>2 DEF SettingsSaved
    <3>2. ASSUME Head(calls).cmd \in CommandsOf("diagnostics"), here
          PROVE  panel \in DiagnosticsPanel
      BY <2>1, <3>2, AnswererIsShown DEF Sections, PanelOf
    <3>3. CASE DiagnosticsRefreshed
      <4>1. here => /\ [panel EXCEPT !.known = TRUE, !.busy = None].busy = None
                    /\ [panel EXCEPT !.busy = None].busy = None
        BY <3>2, <3>3 DEF DiagnosticsRefreshed, Answered, CommandsOf, DiagnosticsPanel
      <4>2. QED
        BY <3>3, <4>1 DEF DiagnosticsRefreshed
    <3>4. CASE Verified
      <4>1. PICK result \in {"passed", "failed", None} :
              Patch([panel EXCEPT !.verify = result, !.busy = None])
        BY <3>4 DEF Verified
      <4>2. here => [panel EXCEPT !.verify = result, !.busy = None].busy = None
        BY <3>2, <3>4 DEF Verified, Answered, CommandsOf, DiagnosticsPanel
      <4>3. QED
        BY <4>1, <4>2
    <3>5. QED
      BY <1>9, <3>1, <3>3, <3>4
  <2>4. (here => panel'.busy = None) /\ (~here => panel' = panel)
    BY <2>3 DEF Patch
  <2>5. QED
    BY <1>1, <2>1, <2>4, AnsweredWaits
<1>10. QED
  BY <1>3, <1>5, <1>6, <1>7, <1>8, <1>9 DEF AgentPanelSteps

\* A section that is opened waits for what it asks for.
LEMMA OpeningWaits ==
  ASSUME NEW section \in Sections, NEW token \in Key, NEW h, h.token = token,
         NEW q, Queued(q),
         panel' = NewPanel(section, h), calls' = q \o Mounted(section, token)
  PROVE  /\ PanelWaits'
         /\ section = "allocations" => panel'.row.busy = None
<1>1. panel'.busy = Loading(section, token) \/ panel'.busy = None
  BY DEF NewPanel, Sections, NewStackPanel, NewTailPanel, NewSettingsPanel, NewAllocPanel,
         NewDiagnosticsPanel, Loading
<1>2. section = "allocations" => panel'.row.busy = None
  BY DEF NewPanel, NewAllocPanel, NewRow
<1>3. CASE panel'.busy # None
  <2>1. section = "tailscale" \/ (section \in {"allocations", "diagnostics"} /\ token # None)
    BY <1>1, <1>3 DEF Loading
  <2>2. Mounted(section, token) = <<MountCall(section, token)>>
    BY <2>1 DEF Mounted, MountCall
  <2>3. calls' = Append(q, MountCall(section, token))
    <3>1. Append(q, MountCall(section, token)) = q \o <<MountCall(section, token)>>
      BY MountCallIsSent, AppendIsConcat DEF Queued
    <3>2. QED
      BY <2>2, <3>1
  <2>4. MountCall(section, token) \in Under(calls')
    BY <2>3, UnderAppend
  <2>5. Frees(MountCall(section, token))
    BY <2>1 DEF Frees, MountCall, NewCall, RowOps, StackChecks
  <2>6. QED
    BY <1>2, <2>4, <2>5 DEF PanelWaits, Frees
<1>4. QED
  BY <1>2, <1>3 DEF PanelWaits

LEMMA OpenedWaits ==
  ASSUME TypeInv, Reopen \/ OpenSection
  PROVE  BusyInv'
<1>1. host \in Host /\ host.token \in Key /\ "stack" \in Sections
  BY DEF TypeInv, Host, Key, Sections
<1>2. ASSUME Reopen PROVE BusyInv'
  <2>1. Queued(<<>>) /\ calls' = <<>> \o Mounted("stack", host.token)
    BY <1>2 DEF Reopen, Queued, Mounted
  <2>2. panel' = NewPanel("stack", host) /\ host'.section = "stack"
    BY <1>1, <1>2 DEF Reopen, NewPanel, Host
  <2>3. PanelWaits'
    BY <1>1, <2>1, <2>2, OpeningWaits
  <2>4. QED
    BY <2>2, <2>3 DEF BusyInv, RowWaits
<1>3. ASSUME OpenSection PROVE BusyInv'
  <2>1. PICK section \in Sections :
          /\ host' = [host EXCEPT !.section = section]
          /\ panel' = NewPanel(section, host)
          /\ calls' = Left \o Mounted(section, host.token)
    BY <1>3 DEF OpenSection
  <2>2. Queued(Left)
    BY LeftCalls DEF TypeInv
  <2>3. host'.section = section
    BY <1>1, <2>1 DEF Host
  <2>4. PanelWaits' /\ (section = "allocations" => panel'.row.busy = None)
    BY <1>1, <2>1, <2>2, OpeningWaits
  <2>5. QED
    BY <2>3, <2>4 DEF BusyInv, RowWaits
<1>4. QED
  BY <1>2, <1>3
-----------------------------------------------------------------------------
\* The steps of a section leave the panel of another as it is.
Aside(section) == host.section # section => panel' = panel

LEMMA PatchIsAside ==
  ASSUME TypeInv, calls # <<>>, NEW section \in Sections,
         Head(calls).cmd \in CommandsOf(section), NEW p, Patch(p)
  PROVE  Aside(section)
<1>1. here => host.section = section
  BY AnswererIsShown
<1>2. QED
  BY <1>1 DEF Aside, Patch

LEMMA TailIsAside ==
  ASSUME TypeInv, TailSteps
  PROVE  Aside("tailscale")
<1>1. TailShown \/ UNCHANGED panel => Aside("tailscale")
  BY DEF TailShown, Aside
<1>2. ASSUME calls # <<>>, Head(calls).cmd \in CommandsOf("tailscale"), NEW p, Patch(p)
      PROVE  Aside("tailscale")
  BY <1>2, PatchIsAside DEF Sections
<1>3. Apply \/ EditEnv \/ RefreshAll \/ SaveAndRestart \/ DoRefreshOverlay => TailShown
  BY DEF Apply, CanApply, EditEnv, RefreshAll, SaveAndRestart, DoRefreshOverlay,
         CanRefreshOverlay, CanSaveAndRefresh
<1>4. ASSUME calls # <<>>, Head(calls).cmd \in CommandsOf("tailscale"), here PROVE TailShown
  BY <1>4, AnswererIsShown DEF Sections, TailShown
<1>5. ASSUME calls # <<>>, Head(calls).cmd \in CommandsOf("tailscale"),
             NEW p, NEW env, EnvChange(IF here THEN p ELSE panel, env)
      PROVE  Aside("tailscale")
  BY <1>1, <1>4, <1>5 DEF EnvChange
<1>6. CASE TsRefreshed
  BY <1>5, <1>6 DEF TsRefreshed, Answered, CommandsOf
<1>7. CASE OverlayAnswered
  BY <1>2, <1>7 DEF OverlayAnswered, Answered, CommandsOf
<1>8. CASE TsWritten
  <2>1. calls # <<>> /\ Head(calls).cmd \in CommandsOf("tailscale")
    BY <1>8 DEF TsWritten, Answered, CommandsOf
  <2>2. EnvChange(panel, arg.env) => Aside("tailscale")
    BY <1>1 DEF EnvChange
  <2>3. QED
    BY <1>2, <1>5, <1>8, <2>1, <2>2 DEF TsWritten
<1>9. CASE TsRestarted
  BY <1>1, <1>2, <1>9 DEF TsRestarted, Answered, CommandsOf
<1>10. CASE TsWaited
  <2>1. PICK t \in timers : t.cmd = "ts_refresh" /\ panel' = IF t.here THEN Saved(panel) ELSE panel
    BY <1>10 DEF TsWaited
  <2>2. t.here => host.section = "tailscale"
    <3>1. t.here => t.cmd \in CommandsOf(host.section) /\ host.section \in Sections
      BY DEF TypeInv, OfSection, Host
    <3>2. QED
      BY <2>1, <3>1, OneSection DEF CommandsOf, Sections
  <2>3. QED
    BY <2>1, <2>2 DEF Aside
<1>11. QED
  BY <1>1, <1>3, <1>6, <1>7, <1>8, <1>9, <1>10 DEF TailSteps

LEMMA AgentPanelsAreAside ==
  ASSUME TypeInv, AgentPanelSteps
  PROVE  host.section \notin {"settings", "diagnostics"} => panel' = panel
<1> SUFFICES ASSUME host.section \notin {"settings", "diagnostics"}
             PROVE  panel' = panel
  OBVIOUS
<1>1. ASSUME calls # <<>>, Head(calls).cmd \in CommandsOf("settings") \cup CommandsOf("diagnostics"),
             NEW p, Patch(p)
      PROVE  panel' = panel
  BY <1>1, PatchIsAside DEF Sections, Aside
<1>2. CASE EditSettings \/ SaveSettings \/ SavedFades \/ RefreshDiagnostics \/ RunVerify
  BY <1>2 DEF EditSettings, SaveSettings, SavedFades, RefreshDiagnostics, RunVerify,
     SettingsShown, CanDiagnose
<1>3. CASE ConfigLoaded
  BY <1>1, <1>3 DEF ConfigLoaded, Answered, CommandsOf
<1>4. CASE SettingsSaved
  BY <1>1, <1>4 DEF SettingsSaved, Answered, CommandsOf
<1>5. CASE DiagnosticsRefreshed
  BY <1>1, <1>5 DEF DiagnosticsRefreshed, Answered, CommandsOf
<1>6. CASE Verified
  <2>1. PICK result \in {"passed", "failed", None} :
              Patch([panel EXCEPT !.verify = result, !.busy = None])
    BY <1>6 DEF Verified
  <2>2. QED
    BY <1>1, <1>6, <2>1 DEF Verified, Answered, CommandsOf
<1>7. QED
  BY <1>2, <1>3, <1>4, <1>5, <1>6 DEF AgentPanelSteps

LEMMA AllocIsAside ==
  ASSUME TypeInv, AllocSteps
  PROVE  Aside("allocations")
<1>1. AllocShown \/ UNCHANGED panel => Aside("allocations")
  BY DEF AllocShown, Aside
<1>2. ASSUME calls # <<>>, Head(calls).cmd \in CommandsOf("allocations"), NEW p, Patch(p)
      PROVE  Aside("allocations")
  BY <1>2, PatchIsAside DEF Sections
<1>3. \/ AgentStep \/ ConfirmInvite \/ DoGenerateInvite \/ EnterResponse \/ DoImportResponse
      \/ DoResume \/ Cancel \/ LoadAllocations \/ ToggleCreate \/ DoCreate
      => AllocShown
  BY DEF AgentStep, ConfirmInvite, DoGenerateInvite, InviteClicked, EnterResponse,
     DoImportResponse, DoResume, Cancel, LoadAllocations, ToggleCreate, DoCreate, Offered
<1>4. ASSUME NEW op, AskFirst(op) \/ DoConfirmed(op) PROVE AllocShown
  BY <1>4 DEF AskFirst, DoConfirmed, Offered
<1>5. CASE RowAnswered
  <2>1. calls # <<>> /\ Head(calls).cmd \in CommandsOf("allocations")
    BY <1>5 DEF RowAnswered, Answered, CommandsOf
  <2>2. Patch([panel EXCEPT !.busy = "load", !.row = RowDone])
          \/ Patch([panel EXCEPT !.row = RowEnded(@)])
    BY <1>5 DEF RowAnswered, RowDone
  <2>3. QED
    BY <1>2, <2>1, <2>2
<1>6. CASE Listed
  <2>1. calls # <<>> /\ Head(calls).cmd \in CommandsOf("allocations")
    BY <1>6 DEF Listed, Answered, CommandsOf
  <2>2. QED
    BY <1>2, <1>6, <2>1 DEF Listed
<1>7. CASE Created
  BY <1>2, <1>7 DEF Created, Answered, CommandsOf
<1>8. QED
  BY <1>1, <1>3, <1>4, <1>5, <1>6, <1>7 DEF AllocSteps

\* But for a change of the token, which loads the section again.
Reloading == panel' = panel \/ \E b : panel' = [panel EXCEPT !.busy = b]

LEMMA StackIsAside ==
  ASSUME TypeInv, StackSteps
  PROVE  host.section # "stack" => Reloading
<1> SUFFICES ASSUME host.section # "stack"
             PROVE  Reloading
  OBVIOUS
<1>1. ~StackShown
  BY DEF StackShown
<1>2. ASSUME calls # <<>>, Head(calls).cmd \in CommandsOf("stack"), NEW p, Patch(p)
      PROVE  Reloading
  BY <1>2, PatchIsAside DEF Sections, Aside, Reloading
<1>3. EditToken \/ SaveEnvAndToken \/ FetchTokenHint \/ Connect \/ RefreshStack \/ ShowLogs
        => StackShown
  BY DEF EditToken, SaveEnvAndToken, CanSaveToken, FetchTokenHint, CanHint, Connect,
     CanConnect, RefreshStack, CanRefresh, ShowLogs
<1>4. ASSUME NEW op \in ComposeOps, Compose(op) \/ Composed(op) PROVE Reloading
  <2>1. Compose(op) => StackShown
    BY DEF Compose, CanCompose
  <2>2. Composed(op) => calls # <<>> /\ Head(calls).cmd \in CommandsOf("stack")
    BY DEF Composed, Answered, CommandsOf
  <2>3. QED
    BY <1>1, <1>2, <1>4, <2>1, <2>2 DEF Composed, Reloading
<1>5. CASE EnvWritten
  <2>1. calls # <<>> /\ Head(calls).cmd \in CommandsOf("stack")
    BY <1>5 DEF EnvWritten, Answered, CommandsOf
  <2>2. ASSUME NEW token, NEW q, TokenChange(token, panel, q) PROVE Reloading
    BY <2>2 DEF TokenChange, Reloading
  <2>3. QED
    BY <1>2, <1>5, <2>1, <2>2 DEF EnvWritten
<1>6. CASE EnvRead
  BY <1>2, <1>6 DEF EnvRead, Answered, CommandsOf
<1>7. CASE TokenHinted
  BY <1>2, <1>7 DEF TokenHinted, Answered, CommandsOf
<1>8. CASE LogsShown
  BY <1>2, <1>8 DEF LogsShown, Answered, CommandsOf
<1>9. CASE StackRefreshed
  BY <1>2, <1>9 DEF StackRefreshed, Answered, CommandsOf, StackChecks
<1>10. CASE InfoAnswered
  BY <1>2, <1>10 DEF InfoAnswered, ApiChecked, Answered, CommandsOf, StackChecks
<1>11. CASE StatusAnswered
  BY <1>2, <1>11 DEF StatusAnswered, ApiChecked, Answered, CommandsOf, StackChecks
<1>12. CASE StackWaited
  BY <1>12 DEF StackWaited, Reloading
<1>13. QED
  BY <1>1, <1>3, <1>4, <1>5, <1>6, <1>7, <1>8, <1>9, <1>10, <1>11, <1>12 DEF StackSteps

\* What the section for the allocations shows of the row and of the agent stays as it is.
Bystanding ==
  host.section = "allocations" =>
    panel'.row = panel.row /\ panel'.overlay = panel.overlay

LEMMA OthersStandBy ==
  ASSUME TypeInv, StackSteps \/ TailSteps \/ AgentPanelSteps
  PROVE  Bystanding
<1> SUFFICES ASSUME host.section = "allocations"
             PROVE  panel'.row = panel.row /\ panel'.overlay = panel.overlay
  BY DEF Bystanding
<1>1. Reloading
  BY StackIsAside, TailIsAside, AgentPanelsAreAside DEF Aside, Reloading
<1>2. panel \in AllocPanel
  BY DEF TypeInv, PanelOf
<1>3. QED
  BY <1>1, <1>2 DEF Reloading, AllocPanel

LEMMA SectionStays ==
  ASSUME TypeInv, StackSteps \/ TailSteps \/ AllocSteps \/ AgentPanelSteps
  PROVE  host'.section = host.section /\ TypeInv'
  BY TypesOfStack, TypesOfTail, TypesOfAlloc, TypesOfAgentPanels
-----------------------------------------------------------------------------
LEMMA RowWaitsOn ==
  ASSUME TypeInv, RowWaits, Goes(Fresh), host'.section = host.section,
         host.section = "allocations" =>
           \/ panel'.row.busy = None
           \/ \E c \in Under(calls') : c.here /\ c.cmd = panel'.row.busy
           \/ /\ panel'.row.busy = panel.row.busy
              /\ \/ Under(calls) \subseteq Under(calls')
                 \/ calls # <<>> => Head(calls).cmd \notin RowOps \/ ~here
  PROVE  RowWaits'
<1> SUFFICES ASSUME host.section = "allocations", panel'.row.busy # None
             PROVE  \E c \in Under(calls') : c.here /\ c.cmd = panel'.row.busy
  BY DEF RowWaits
<1>1. \A c \in Under(calls) : c \in Under(calls') \/ (calls # <<>> /\ c = Head(calls))
  BY UnderNext DEF TypeInv, Goes
<1>2. CASE panel'.row.busy = panel.row.busy
  <2>1. panel.row.busy \in RowOps \cup {None}
    BY DEF TypeInv, PanelOf, AllocPanel, Row
  <2>2. PICK c \in Under(calls) : c.here /\ c.cmd = panel.row.busy
    BY <1>2 DEF RowWaits
  <2>3. c \in Under(calls') \/ (c = Head(calls) /\ here /\ Head(calls).cmd \in RowOps /\ calls # <<>>)
    BY <1>1, <1>2, <2>1, <2>2 DEF here
  <2>4. QED
    BY <1>2, <2>2, <2>3
<1>3. QED
  BY <1>2

\* The steps of the other sections end no operation on a row.
LEMMA OthersAnswerNoRow ==
  ASSUME TypeInv, StackSteps \/ TailSteps \/ AgentPanelSteps
  PROVE  Under(calls) \subseteq Under(calls') \/ (calls # <<>> => Head(calls).cmd \notin RowOps)
<1>1. CASE StackSteps
  <2>1. CASE \/ EditToken \/ SaveEnvAndToken \/ FetchTokenHint \/ Connect \/ RefreshStack
             \/ ShowLogs \/ \E op \in ComposeOps : Compose(op)
    BY <2>1, StackClicksAnswerNone DEF NoneAnswered
  <2>2. CASE StackWaited
    BY <2>2, UnderAppend DEF StackWaited, TypeInv
  <2>3. CASE \/ EnvWritten \/ EnvRead \/ TokenHinted \/ LogsShown \/ StackRefreshed
             \/ InfoAnswered \/ StatusAnswered \/ \E op \in ComposeOps : Composed(op)
    BY <2>3 DEF EnvWritten, EnvRead, TokenHinted, LogsShown, StackRefreshed, InfoAnswered,
                StatusAnswered, Composed, ComposeOps, Answered, RowOps
  <2>4. QED
    BY <1>1, <2>1, <2>2, <2>3 DEF StackSteps
<1>2. CASE TailSteps
  <2>1. CASE Apply \/ EditEnv \/ RefreshAll \/ SaveAndRestart \/ DoRefreshOverlay
    BY <2>1, TailClicksAnswerNone DEF NoneAnswered
  <2>2. CASE TsWaited
    BY <2>2, UnderAppend DEF TsWaited, TypeInv
  <2>3. CASE TsRefreshed \/ OverlayAnswered \/ TsWritten \/ TsRestarted
    BY <2>3 DEF TsRefreshed, OverlayAnswered, TsWritten, TsRestarted, Answered, RowOps
  <2>4. QED
    BY <1>2, <2>1, <2>2, <2>3 DEF TailSteps
<1>3. CASE AgentPanelSteps
  <2>1. CASE EditSettings \/ SavedFades
    BY <2>1 DEF EditSettings, SavedFades
  <2>2. CASE SaveSettings \/ RefreshDiagnostics \/ RunVerify
    BY <2>2, AskKeeps DEF SaveSettings, RefreshDiagnostics, RunVerify, TypeInv
  <2>3. CASE ConfigLoaded \/ SettingsSaved \/ DiagnosticsRefreshed \/ Verified
    BY <2>3 DEF ConfigLoaded, SettingsSaved, DiagnosticsRefreshed, Verified, Answered,
       RowOps
  <2>4. QED
    BY <1>3, <2>1, <2>2, <2>3 DEF AgentPanelSteps
<1>4. QED
  BY <1>1, <1>2, <1>3

LEMMA OthersKeepRow ==
  ASSUME TypeInv, RowWaits, StackSteps \/ TailSteps \/ AgentPanelSteps
  PROVE  RowWaits'
<1>1. Goes(Fresh)
  BY QueueOfStack, QueueOfTail, QueueOfAgentPanels DEF QueueStep
<1>2. Bystanding
  BY OthersStandBy
<1>3. QED
  BY <1>1, <1>2, OthersAnswerNoRow, SectionStays, RowWaitsOn DEF Bystanding

LEMMA AllocKeepsRow ==
  ASSUME TypeInv, RowWaits, AllocSteps
  PROVE  RowWaits'
<1>1. Queued(calls) /\ Goes(Fresh) /\ host'.section = host.section
  BY QueueOfAlloc, SectionStays DEF TypeInv, QueueStep
<1>2. host.section = "allocations" => panel \in AllocPanel /\ panel.row \in Row
  BY DEF TypeInv, PanelOf, AllocPanel
<1>3. ASSUME \/ AgentStep \/ ConfirmInvite \/ EnterResponse \/ Cancel \/ ToggleCreate
             \/ LoadAllocations \/ DoCreate \/ \E op \in {"suspend", "retire", "delete"} : AskFirst(op)
      PROVE  RowWaits'
  <2>1. NoneAnswered /\ AllocShown
    BY <1>3, AllocClicksAnswerNone
    DEF AgentStep, ConfirmInvite, InviteClicked, EnterResponse, Cancel, ToggleCreate,
        LoadAllocations, DoCreate, AskFirst, Offered
  <2>2. panel'.row.busy = panel.row.busy
    <3>1. panel \in AllocPanel /\ panel.row \in Row
      BY <1>2, <2>1 DEF AllocShown
    <3>2. CASE AgentStep
      BY <3>2 DEF AgentStep
    <3>3. CASE LoadAllocations \/ DoCreate \/ ToggleCreate
      BY <3>1, <3>3 DEF LoadAllocations, DoCreate, ToggleCreate, AllocPanel
    <3>4. CASE EnterResponse
      BY <3>1, <3>4 DEF EnterResponse, AllocPanel, Row
    <3>5. ASSUME NEW c, panel' = [panel EXCEPT !.row.confirm = c]
          PROVE  panel'.row.busy = panel.row.busy
      BY <3>1, <3>5 DEF AllocPanel, Row
    <3>6. CASE ConfirmInvite
      BY <3>5, <3>6 DEF ConfirmInvite
    <3>7. CASE Cancel
      BY <3>5, <3>7 DEF Cancel
    <3>8. ASSUME NEW op, AskFirst(op) PROVE panel'.row.busy = panel.row.busy
      BY <3>5, <3>8 DEF AskFirst
    <3>9. QED
      BY <1>3, <3>2, <3>3, <3>4, <3>6, <3>7, <3>8
  <2>3. QED
    BY <1>1, <2>1, <2>2, RowWaitsOn DEF NoneAnswered
<1>4. ASSUME NEW op, NEW told, RowCall(op, told), host.section = "allocations" => panel'.row.busy = op
      PROVE  RowWaits'
  <2>1. \E c \in Under(calls') : c.here /\ c.cmd = op
    BY <1>1, <1>4, AskKeeps DEF RowCall
  <2>2. QED
    BY <1>1, <1>4, <2>1, RowWaitsOn
<1>5. CASE DoGenerateInvite
  <2>1. host.section = "allocations" => panel'.row.busy = "invite"
    BY <1>2, <1>5 DEF DoGenerateInvite, AllocPanel, Row
  <2>2. QED
    BY <1>4, <1>5, <2>1 DEF DoGenerateInvite
<1>6. CASE DoImportResponse
  <2>1. host.section = "allocations" => panel'.row.busy = "import"
    BY <1>2, <1>6 DEF DoImportResponse, AllocPanel, Row
  <2>2. QED
    BY <1>4, <1>6, <2>1 DEF DoImportResponse
<1>7. CASE DoResume
  <2>1. host.section = "allocations" => panel'.row.busy = "resume"
    BY <1>2, <1>7 DEF DoResume, AllocPanel, Row
  <2>2. QED
    BY <1>4, <1>7, <2>1 DEF DoResume
<1>8. ASSUME NEW op, DoConfirmed(op) PROVE RowWaits'
  <2>1. host.section = "allocations" => panel'.row.busy = op
    BY <1>2, <1>8 DEF DoConfirmed, AllocPanel, Row
  <2>2. QED
    BY <1>4, <1>8, <2>1 DEF DoConfirmed
<1>9. CASE RowAnswered
  <2>1. calls # <<>> /\ Head(calls).cmd \in CommandsOf("allocations")
    BY <1>9 DEF RowAnswered, Answered, CommandsOf
  <2>2. here => panel \in AllocPanel /\ panel.row \in Row
    BY <2>1, AnswererIsShown DEF Sections, PanelOf, AllocPanel
  <2>3. here => RowEnded(panel.row).busy = None /\ RowDone.busy = None
    BY <2>2 DEF RowEnded, RowDone, Row
  <2>4. (here => panel'.row.busy = None) /\ (~here => panel' = panel)
    <3>1. Patch([panel EXCEPT !.busy = "load", !.row = RowDone])
            \/ Patch([panel EXCEPT !.row = RowEnded(@)])
      BY <1>9 DEF RowAnswered, RowDone
    <3>2. QED
      BY <2>2, <2>3, <3>1 DEF Patch, AllocPanel
  <2>5. QED
    BY <1>1, <2>4, RowWaitsOn
<1>10. CASE Listed \/ Created
  <2>1. calls # <<>> /\ Head(calls).cmd \in CommandsOf("allocations") /\ Head(calls).cmd \notin RowOps
    BY <1>10 DEF Listed, Created, Answered, CommandsOf, RowOps
  <2>2. SUFFICES ASSUME host.section = "allocations"
                 PROVE  panel'.row.busy = None \/ panel'.row.busy = panel.row.busy
    BY <1>1, <2>1, RowWaitsOn
  <2>3. CASE Created
    BY <1>2, <2>2, <2>3 DEF Created, Patch, AllocPanel
  <2>4. CASE Listed
    <3>1. CASE Patch([panel EXCEPT !.busy = None])
      BY <1>2, <2>2, <3>1 DEF Patch, AllocPanel
    <3>2. ASSUME NEW list, NEW overlay, NEW row \in {NewRow, panel.row},
                 Patch([panel EXCEPT !.list = list, !.overlay = overlay, !.busy = None,
                                     !.row = row])
          PROVE  panel'.row.busy = None \/ panel'.row.busy = panel.row.busy
      <4>1. panel' = panel \/ panel'.row = row
        BY <1>2, <2>2, <3>2 DEF Patch, AllocPanel
      <4>2. NewRow.busy = None
        BY DEF NewRow
      <4>3. QED
        BY <3>2, <4>1, <4>2
    <3>3. QED
      BY <2>4, <3>1, <3>2 DEF Listed
  <2>5. QED
    BY <1>10, <2>3, <2>4
<1>11. QED
  BY <1>3, <1>5, <1>6, <1>7, <1>8, <1>9, <1>10 DEF AllocSteps
-----------------------------------------------------------------------------
LEMMA BusyAtStart == Init => BusyInv
<1> SUFFICES ASSUME Init
             PROVE  BusyInv
  OBVIOUS
<1>1. panel.busy = None
  BY DEF Init, NewStackPanel
<1>2. host.section = "stack"
  BY TypesAtStart
<1>3. QED
  BY <1>1, <1>2 DEF BusyInv, PanelWaits, RowWaits

LEMMA BusyStep ==
  ASSUME TypeInv, BusyInv, [Next]_shared
  PROVE  BusyInv'
<1>1. CASE UNCHANGED shared
  BY <1>1 DEF shared, BusyInv, PanelWaits, RowWaits, Frees
<1>2. CASE Reopen \/ OpenSection
  BY <1>2, OpenedWaits
<1>3. CASE StackSteps \/ TailSteps \/ AgentPanelSteps
  BY <1>3, StackWaits, TailWaits, AgentPanelsWait, OthersKeepRow DEF BusyInv
<1>4. CASE AllocSteps
  BY <1>4, AllocWaits, AllocKeepsRow DEF BusyInv
<1>5. QED
  BY <1>1, <1>2, <1>3, <1>4 DEF Next

\* However many operations overlap, and whatever the user opens meanwhile: a section that
\* shows that it is working, and so keeps its buttons disabled, has a call or a sleeping
\* handler whose end gives them back; and so has the row of the allocation.
THEOREM SectionsGetFree == Spec => []BusyHasWork
<1>1. TypeInv /\ BusyInv => BusyHasWork
  <2> SUFFICES ASSUME TypeInv, BusyInv
               PROVE  BusyHasWork
    OBVIOUS
  <2>1. ASSUME NEW c \in Under(calls) PROVE \E i \in 1..Len(calls) : calls[i] = c
    BY DEF Under
  <2>2. panel.busy # None => \/ \E i \in 1..Len(calls) : EndsBusy(calls[i])
                             \/ \E t \in timers : t.here
    BY <2>1 DEF BusyInv, PanelWaits, Frees, EndsBusy, StackChecks
  <2>3. host.section = "allocations" /\ panel.row.busy # None =>
          \E i \in 1..Len(calls) : calls[i].here /\ calls[i].cmd = panel.row.busy
    BY <2>1 DEF BusyInv, RowWaits
  <2>4. QED
    BY <2>2, <2>3 DEF BusyHasWork
<1>2. Init => TypeInv /\ BusyInv
  BY TypesAtStart, BusyAtStart
<1>3. TypeInv /\ BusyInv /\ [Next]_shared => (TypeInv /\ BusyInv)'
  BY TypesStep, BusyStep
<1>4. QED
  BY <1>1, <1>2, <1>3, PTL DEF Spec
-----------------------------------------------------------------------------
\* Which calls each step may add.
But(cmds) == {c \in Fresh : c.cmd \notin cmds}

LEMMA OneOnly ==
  ASSUME Queued(calls), NEW cmd \in Marked, NEW c \in Fresh, c.cmd = cmd, Goes(Plain \cup {c})
  PROVE  Goes(But(Marked \ {cmd}))
<1>1. Plain \cup {c} \subseteq But(Marked \ {cmd})
  BY DEF Plain, But
<1>2. QED
  BY <1>1, GoesWider

LEMMA AskedOnly ==
  ASSUME Queued(calls), NEW cmd \in Commands, cmd \in Marked, cmd \in CommandsOf(host.section),
         NEW a \in Args, Allowed(cmd, a), Ask(cmd, a)
  PROVE  Goes(But(Marked \ {cmd}))
<1>1. /\ NewCall(cmd, a) \in Fresh /\ NewCall(cmd, a).cmd = cmd
      /\ Goes(Plain \cup {NewCall(cmd, a)})
  BY NewIsFresh, AskAdds
<1>2. QED
  BY <1>1, OneOnly

LEMMA MarkedOnly ==
  ASSUME TypeInv
  PROVE  /\ SaveEnvAndToken => Goes(But(Marked \ {"write_env"}))
         /\ TsWritten => Goes(But(Marked \ {"ts_restart"}))
         /\ DoGenerateInvite => Goes(But(Marked \ {"invite"}))
         /\ SaveSettings => Goes(But(Marked \ {"patch_config"}))
<1>1. Queued(calls) /\ host.token \in Key
  BY DEF TypeInv, Host, Key
<1>2. /\ {"write_env", "ts_restart", "invite", "patch_config"} \subseteq Commands
      /\ {"write_env", "ts_restart", "invite", "patch_config"} = Marked
  BY DEF Commands, RowOps, Marked
<1>3. ASSUME SaveEnvAndToken PROVE Goes(But(Marked \ {"write_env"}))
  <2> DEFINE env == [panel.env EXCEPT !.token = panel.edit]
  <2>1. host.section = "stack" /\ panel \in StackPanel
    BY <1>3 DEF SaveEnvAndToken, CanSaveToken, StackShown, TypeInv, PanelOf
  <2>2. env \in HostEnvValues /\ env.token \in Tokens
    BY <1>3, <2>1 DEF SaveEnvAndToken, CanSaveToken, StackPanel, HostEnvValues
  <2>3. env \in Args /\ Allowed("write_env", env) /\ "write_env" \in CommandsOf(host.section)
    BY <2>1, <2>2 DEF Args, Allowed, StackChecks, KeyCommands, ComposeOps, RowOps,
       CommandsOf
  <2>4. Ask("write_env", env)
    BY <1>3 DEF SaveEnvAndToken
  <2> HIDE DEF env
  <2>5. QED
    BY <1>1, <1>2, <2>3, <2>4, AskedOnly
<1>4. ASSUME TsWritten PROVE Goes(But(Marked \ {"ts_restart"}))
  <2>1. calls # <<>> /\ Head(calls).cmd = "ts_write"
    BY <1>4 DEF TsWritten, Answered
  <2>2. /\ here \in BOOLEAN /\ arg \in WriteArg
        /\ here => host.section = "tailscale"
    BY <2>1, HeadFacts, AnswererIsShown DEF Allowed, CommandsOf, Sections
  <2>3. arg.token \in Key
    BY <2>2 DEF WriteArg
  <2>4. ASSUME NEW cmd \in {"ts_restart", "ts_refresh"}, AndThen(cmd, arg.token)
        PROVE  Goes(But(Marked \ {"ts_restart"}))
    <3>1. /\ cmd \in Commands /\ arg.token \in Args /\ Allowed(cmd, arg.token)
          /\ here => cmd \in CommandsOf(host.section)
          /\ cmd \notin Clicked
      BY <2>2, <2>3, <2>4 DEF Commands, Args, Allowed, StackChecks, KeyCommands,
         ComposeOps, RowOps, CommandsOf, Clicked, Movers
    <3>2. /\ Following(calls, cmd, arg.token) \in Fresh
          /\ Following(calls, cmd, arg.token).cmd = cmd
          /\ Goes(Plain \cup {Following(calls, cmd, arg.token)})
      BY <1>1, <2>1, <2>4, <3>1, FollowingIsFresh, NextAdds
    <3>3. Plain \cup {Following(calls, cmd, arg.token)} \subseteq But(Marked \ {"ts_restart"})
      BY <3>2 DEF Plain, But, Marked
    <3>4. QED
      BY <3>2, <3>3, GoesWider
  <2>5. CASE Done
    <3>1. Plain \subseteq But(Marked \ {"ts_restart"})
      BY DEF Plain, But
    <3>2. QED
      BY <1>1, <2>1, <2>5, <3>1, Over, GoesWider
  <2>6. QED
    BY <1>4, <2>4, <2>5 DEF TsWritten
<1>5. ASSUME DoGenerateInvite PROVE Goes(But(Marked \ {"invite"}))
  <2> DEFINE told == Needed # {} \/ panel.overlay = None
             a == [op |-> "invite", token |-> host.token, told |-> told]
  <2>1. host.section = "allocations" /\ told \in BOOLEAN
    BY <1>5 DEF DoGenerateInvite, InviteClicked, Offered, AllocShown
  <2>2. a \in RowArg /\ a.op = "invite"
    BY <1>1, <2>1 DEF RowArg, RowOps
  <2>3. a \in Args /\ Allowed("invite", a) /\ "invite" \in CommandsOf(host.section)
    BY <2>1, <2>2 DEF Args, Allowed, StackChecks, KeyCommands, ComposeOps, RowOps,
       CommandsOf
  <2>4. Ask("invite", a)
    BY <1>5 DEF DoGenerateInvite, RowCall
  <2> HIDE DEF a
  <2>5. QED
    BY <1>1, <1>2, <2>3, <2>4, AskedOnly
<1>6. ASSUME SaveSettings PROVE Goes(But(Marked \ {"patch_config"}))
  <2> DEFINE a == [token |-> host.token, draft |-> panel.draft]
  <2>1. host.section = "settings"
    BY <1>6 DEF SaveSettings, SettingsShown
  <2>2. panel.draft \in Configs
    BY <1>6, <2>1 DEF SaveSettings, SettingsShown, TypeInv, DraftIsKnown, PanelOf,
       SettingsPanel
  <2>3. a \in ConfigArg
    BY <1>1, <2>2 DEF ConfigArg
  <2>4. a \in Args /\ Allowed("patch_config", a) /\ "patch_config" \in CommandsOf(host.section)
    BY <2>1, <2>3 DEF Args, Allowed, StackChecks, KeyCommands, ComposeOps, RowOps,
       CommandsOf
  <2>5. Ask("patch_config", a)
    BY <1>6 DEF SaveSettings
  <2> HIDE DEF a
  <2>6. QED
    BY <1>1, <1>2, <2>4, <2>5, AskedOnly
<1>7. QED
  BY <1>3, <1>4, <1>5, <1>6

LEMMA StepAdds ==
  ASSUME TypeInv, StackSteps \/ TailSteps \/ AllocSteps \/ AgentPanelSteps
  PROVE  /\ ~SaveEnvAndToken => Goes(But({"write_env"}))
         /\ ~TsWritten => Goes(But({"ts_restart"}))
         /\ ~DoGenerateInvite => Goes(But({"invite"}))
<1>1. ASSUME Goes(Plain), NEW cmds \in SUBSET Marked PROVE Goes(But(cmds))
  <2>1. Plain \subseteq But(cmds)
    BY DEF Plain, But
  <2>2. QED
    BY <1>1, <2>1, GoesWider
<1>2. ASSUME NEW cmd, NEW other \in Marked, other # cmd, Goes(But(Marked \ {cmd}))
      PROVE  Goes(But({other}))
  <2>1. But(Marked \ {cmd}) \subseteq But({other})
    BY <1>2 DEF But
  <2>2. QED
    BY <1>2, <2>1, GoesWider
<1>3. \/ Goes(Plain) \/ SaveEnvAndToken \/ TsWritten \/ DoGenerateInvite \/ SaveSettings
  BY QueueOfStack, QueueOfTail, QueueOfAlloc, QueueOfAgentPanels DEF QueueStep
<1>4. CASE Goes(Plain)
  BY <1>1, <1>4 DEF Marked
<1>5. CASE SaveEnvAndToken
  BY <1>2, <1>5, MarkedOnly DEF Marked
<1>6. CASE TsWritten
  BY <1>2, <1>6, MarkedOnly DEF Marked
<1>7. CASE DoGenerateInvite
  BY <1>2, <1>7, MarkedOnly DEF Marked
<1>8. CASE SaveSettings
  BY <1>2, <1>8, MarkedOnly DEF Marked
<1>9. QED
  BY <1>3, <1>4, <1>5, <1>6, <1>7, <1>8
-----------------------------------------------------------------------------
Steps == StackSteps \/ TailSteps \/ AllocSteps \/ AgentPanelSteps

LEMMA NoMoverOfOthers == Fresh \cap OfOthers(host.section) = {}
  BY DEF Fresh, OfOthers, OfSection, Clicked

\* What other sections have asked for to change comes before what the open one waits for.
LEMMA OrderKept ==
  ASSUME TypeInv, InOrder, Steps
  PROVE  InOrder'
<1>1. Goes(Fresh) /\ host'.section = host.section
  BY QueueOfStack, QueueOfTail, QueueOfAlloc, QueueOfAgentPanels, SectionStays
  DEF Steps, QueueStep
<1>2. First(calls', OfOthers(host.section), Shown)
  BY <1>1, NoMoverOfOthers, StaysFirst DEF TypeInv, Goes, InOrder
<1>3. QED
  BY <1>1, <1>2 DEF InOrder

LEMMA NoMoverWhenAnswered ==
  ASSUME TypeInv, InOrder, calls # <<>>, here
  PROVE  Under(calls) \cap OfOthers(host.section) = {}
<1>1. Head(calls) \in Shown
  BY HeadIsUnder DEF TypeInv, Shown, here
<1>2. QED
  BY <1>1, NoneBeforeHead DEF TypeInv, InOrder

\* The file keeps its address, but for what the section for the network writes.
LEMMA AddrKept ==
  ASSUME TypeInv, EnvInv, Steps, ~TsWritten
  PROVE  saved'.addr = saved.addr
<1>1. CASE EnvWritten
  <2>1. calls # <<>> /\ Head(calls).cmd = "write_env"
    BY <1>1 DEF EnvWritten, Answered
  <2>2. /\ Head(calls) \in Sent /\ Head(calls) \in Under(calls)
        /\ arg \in HostEnvValues
    BY <2>1, HeadFacts, HeadIsUnder DEF Allowed
  <2>3. arg.addr # None => arg.addr = saved.addr
    BY <2>1, <2>2 DEF EnvInv, TokenWrites, arg
  <2>4. saved \in EnvFile
    BY DEF TypeInv, WorldTypes, EnvFile
  <2>5. CASE WriteEnv(arg)
    BY <2>2, <2>3, <2>4, <2>5, Written
  <2>6. QED
    BY <1>1, <2>5 DEF EnvWritten
<1>2. ASSUME StackSteps, ~EnvWritten PROVE saved' = saved
  <2>1. ASSUME NEW op, Compose(op) \/ Composed(op) PROVE saved' = saved
    BY <2>1 DEF Compose, Composed, ComposeUp, ComposeDown, ComposeFailed, world
  <2>2. QED
    BY <1>2, <2>1
    DEF StackSteps, EditToken, SaveEnvAndToken, FetchTokenHint, Connect, RefreshStack,
       ShowLogs, EnvRead, TokenHinted, LogsShown, StackWaited, StackRefreshed,
       InfoAnswered, StatusAnswered, world
<1>3. ASSUME TailSteps PROVE saved' = saved
  BY <1>3
  DEF TailSteps, Apply, EditEnv, RefreshAll, SaveAndRestart, DoRefreshOverlay,
     TsRefreshed, OverlayAnswered, TsRestarted, ComposeUp, ComposeFailed, TsWaited, world
<1>4. ASSUME AllocSteps PROVE saved' = saved
  <2>1. ASSUME NEW op, AskFirst(op) \/ DoConfirmed(op) PROVE saved' = saved
    BY <2>1 DEF AskFirst, DoConfirmed, world
  <2>2. QED
    BY <1>4, <2>1
    DEF AllocSteps, AgentStep, ConfirmInvite, DoGenerateInvite, EnterResponse,
       DoImportResponse, DoResume, Cancel, RowAnswered, LoadAllocations, Listed,
       ToggleCreate, DoCreate, Created, world
<1>5. ASSUME AgentPanelSteps PROVE saved' = saved
  BY <1>5
  DEF AgentPanelSteps, ConfigLoaded, EditSettings, SaveSettings, SettingsSaved,
     SavedFades, RefreshDiagnostics, DiagnosticsRefreshed, RunVerify, Verified, world
<1>6. QED
  BY <1>1, <1>2, <1>3, <1>4, <1>5 DEF Steps

\* What the section for the stack shows of .env was read from it.
LEMMA StackEnvIsRead ==
  ASSUME TypeInv, Steps, host.section = "stack"
  PROVE  \/ panel'.env = panel.env
         \/ calls # <<>> /\ here /\ panel'.env \in ReadEnv
<1>1. panel \in StackPanel
  BY DEF TypeInv, PanelOf
<1>2. CASE TailSteps \/ AllocSteps \/ AgentPanelSteps
  BY <1>2, TailIsAside, AllocIsAside, AgentPanelsAreAside DEF Aside
<1>3. CASE EnvRead
  <2>1. PICK env \in ReadEnv : Patch([panel EXCEPT !.env = env, !.busy = None])
    BY <1>3 DEF EnvRead
  <2>2. QED
    BY <1>1, <1>3, <2>1 DEF EnvRead, Patch, Answered, StackPanel
<1>4. CASE StackRefreshed
  <2>1. PICK env \in ReadEnv :
          Patch([panel EXCEPT !.env = env, !.known = TRUE, !.running = (running # None)])
    BY <1>4 DEF StackRefreshed
  <2>2. QED
    BY <1>1, <1>4, <2>1 DEF StackRefreshed, Patch, Answered, StackPanel
<1>5. ASSUME NEW token, NEW q, TokenChange(token, panel, q) PROVE panel'.env = panel.env
  BY <1>1, <1>5 DEF TokenChange, StackPanel
<1>6. CASE EnvWritten
  BY <1>1, <1>5, <1>6 DEF EnvWritten, Patch, StackPanel
<1>7. CASE Connect
  BY <1>5, <1>7 DEF Connect
<1>8. CASE EditToken \/ SaveEnvAndToken \/ FetchTokenHint \/ RefreshStack \/ ShowLogs
  BY <1>1, <1>8
  DEF EditToken, SaveEnvAndToken, FetchTokenHint, RefreshStack, ShowLogs, StackPanel
<1>9. ASSUME NEW op, Compose(op) \/ Composed(op) PROVE panel'.env = panel.env
  BY <1>1, <1>9 DEF Compose, Composed, Patch, StackPanel
<1>10. CASE TokenHinted \/ LogsShown
  BY <1>1, <1>10 DEF TokenHinted, LogsShown, Patch, StackPanel
<1>11. CASE StackWaited
  BY <1>11 DEF StackWaited
<1>12. ASSUME NEW result, ApiChecked(result) PROVE panel'.env = panel.env
  BY <1>1, <1>12 DEF ApiChecked, Patch, StackPanel
<1>13. CASE InfoAnswered
  <2>1. CASE Patch([panel EXCEPT !.api = "reachable"])
    BY <1>1, <2>1 DEF Patch, StackPanel
  <2>2. QED
    BY <1>12, <1>13, <2>1 DEF InfoAnswered
<1>14. CASE StatusAnswered
  BY <1>12, <1>14 DEF StatusAnswered
<1>15. QED
  BY <1>2, <1>3, <1>4, <1>6, <1>7, <1>8, <1>9, <1>10, <1>11, <1>13, <1>14 DEF Steps,
     StackSteps
-----------------------------------------------------------------------------
LEMMA WritesKept ==
  ASSUME TypeInv, EnvInv, Steps
  PROVE  First(calls', TokenWrites, TailWrites)
<1>1. Queued(calls)
  BY DEF TypeInv
<1>2. CASE ~SaveEnvAndToken
  <2>1. Goes(But({"write_env"}))
    BY <1>2, StepAdds DEF Steps
  <2>2. But({"write_env"}) \cap TokenWrites = {}
    BY DEF But, TokenWrites
  <2>3. QED
    BY <1>1, <2>1, <2>2, StaysFirst DEF Goes, EnvInv
<1>3. CASE SaveEnvAndToken
  <2> DEFINE env == [panel.env EXCEPT !.token = panel.edit]
             c   == NewCall("write_env", env)
  <2>1. panel \in StackPanel /\ host.section = "stack"
    BY <1>3 DEF SaveEnvAndToken, CanSaveToken, StackShown, TypeInv, PanelOf
  <2>2. env \in HostEnvValues /\ env.token \in Tokens /\ env.addr = panel.env.addr
    BY <1>3, <2>1 DEF SaveEnvAndToken, CanSaveToken, StackPanel, HostEnvValues
  <2>3. c.cmd = "write_env" /\ c.arg = env /\ c \in Sent
    BY <2>2 DEF NewCall, Sent, Call, Args, Commands, Allowed, StackChecks, KeyCommands,
       ComposeOps, RowOps
  <2>4. calls' = Append(calls, c)
    BY <1>3 DEF SaveEnvAndToken, Ask
  <2> HIDE DEF env, c
  <2>5. CASE env.addr = None
    <3>1. Queued(Append(calls, c)) /\ GoesOn(calls, Append(calls, c), {c})
      BY <1>1, <2>3, SameGoesOn, AppendGoesOn
    <3>2. {c} \cap TokenWrites = {}
      BY <2>3, <2>5 DEF TokenWrites
    <3>3. QED
      BY <1>1, <2>4, <3>1, <3>2, StaysFirst DEF EnvInv
  <2>6. CASE env.addr # None
    <3>1. Under(calls) \cap TailWrites = {}
      BY <2>1, <2>2, <2>6 DEF EnvInv
    <3>2. c \notin TailWrites
      BY <2>3 DEF TailWrites
    <3>3. QED
      BY <1>1, <2>3, <2>4, <3>1, <3>2, AddedFirst
  <2>7. QED
    BY <2>5, <2>6
<1>4. QED
  BY <1>2, <1>3

LEMMA WritesAgree ==
  ASSUME TypeInv, EnvInv, Steps
  PROVE  \A c \in Under(calls') \cap TokenWrites : c.arg.addr = saved'.addr
<1>1. CASE TsWritten
  <2>1. calls # <<>> /\ Head(calls).cmd = "ts_write" /\ Queued(calls)
    BY <1>1 DEF TsWritten, Answered, TypeInv
  <2>2. Head(calls) \in TailWrites
    BY <2>1, HeadIsUnder DEF TailWrites
  <2>3. Under(calls) \cap TokenWrites = {}
    BY <2>1, <2>2, NoneBeforeHead DEF EnvInv
  <2>4. Under(calls') \subseteq Under(calls) \cup But({"write_env"})
    <3>1. Goes(But({"write_env"}))
      <4>1. ~SaveEnvAndToken
        BY <1>1, <2>1 DEF SaveEnvAndToken, TsWritten, Click, Ask, QueueAssumption, TypeInv
      <4>2. QED
        BY <4>1, StepAdds DEF Steps
    <3>2. QED
      BY <2>1, <3>1, UnderNext DEF Goes
  <2>5. QED
    BY <2>3, <2>4 DEF But, TokenWrites
<1>2. CASE ~TsWritten /\ ~SaveEnvAndToken
  <2>1. Goes(But({"write_env"})) /\ saved'.addr = saved.addr
    BY <1>2, StepAdds, AddrKept DEF Steps
  <2>2. Under(calls') \subseteq Under(calls) \cup But({"write_env"})
    BY <2>1, UnderNext DEF Goes, TypeInv
  <2>3. QED
    BY <2>1, <2>2 DEF But, TokenWrites, EnvInv
<1>3. CASE SaveEnvAndToken /\ ~TsWritten
  <2> DEFINE env == [panel.env EXCEPT !.token = panel.edit]
  <2>1. panel \in StackPanel /\ host.section = "stack"
    BY <1>3 DEF SaveEnvAndToken, CanSaveToken, StackShown, TypeInv, PanelOf
  <2>2. env.addr = panel.env.addr
    BY <2>1 DEF StackPanel, HostEnvValues
  <2>3. Ask("write_env", env)
    BY <1>3 DEF SaveEnvAndToken
  <2> HIDE DEF env
  <2>4. /\ Under(calls') = Under(calls) \cup {NewCall("write_env", env)}
        /\ NewCall("write_env", env).arg = env
    BY <2>3, AskKeeps DEF TypeInv
  <2>5. saved'.addr = saved.addr
    BY <1>3, AddrKept
  <2>6. env.addr # None => env.addr = saved.addr
    BY <2>1, <2>2 DEF EnvInv
  <2>7. QED
    BY <2>4, <2>5, <2>6 DEF EnvInv, TokenWrites
<1>4. QED
  BY <1>1, <1>2, <1>3

LEMMA StackEnvKept ==
  ASSUME TypeInv, EnvInv, Steps, host.section = "stack", panel'.env.addr # None
  PROVE  panel'.env.addr = saved'.addr /\ Under(calls') \cap TailWrites = {}
<1>1. TailWrites \subseteq OfOthers("stack")
  BY DEF TailWrites, OfOthers, Movers, CommandsOf, StackChecks, ComposeOps
<1>2. /\ Under(calls) \cap TailWrites = {}
      /\ panel'.env.addr = saved.addr
  <2>1. CASE panel'.env = panel.env
    BY <2>1 DEF EnvInv
  <2>2. CASE calls # <<>> /\ here /\ panel'.env \in ReadEnv
    <3>1. Under(calls) \cap OfOthers("stack") = {}
      BY <2>2, NoMoverWhenAnswered DEF EnvInv
    <3>2. panel'.env.addr = saved.addr
      BY <2>2, ReadIsEnv DEF TypeInv, WorldTypes, EnvFile
    <3>3. QED
      BY <1>1, <3>1, <3>2
  <2>3. QED
    BY <2>1, <2>2, StackEnvIsRead
<1>3. ~TsWritten
  <2> SUFFICES ASSUME TsWritten PROVE FALSE
    OBVIOUS
  <2>1. calls # <<>> /\ Head(calls).cmd = "ts_write" /\ Queued(calls)
    BY DEF TsWritten, Answered, TypeInv
  <2>2. Head(calls) \in TailWrites /\ Head(calls) \in Under(calls)
    BY <2>1, HeadIsUnder DEF TailWrites
  <2>3. QED
    BY <1>2, <2>2
<1>4. saved'.addr = saved.addr
  BY <1>3, AddrKept
<1>5. Under(calls') \subseteq Under(calls) \cup Fresh
  <2>1. Goes(Fresh)
    BY QueueOfStack, QueueOfTail, QueueOfAlloc, QueueOfAgentPanels DEF Steps, QueueStep
  <2>2. QED
    BY <2>1, UnderNext DEF Goes, TypeInv
<1>6. QED
  BY <1>1, <1>2, <1>4, <1>5, NoMoverOfOthers

LEMMA EnvKept ==
  ASSUME TypeInv, EnvInv, Steps
  PROVE  EnvInv'
<1>1. InOrder' /\ host'.section = host.section
  BY OrderKept, SectionStays DEF EnvInv, Steps
<1>2. host'.section = "stack" /\ panel'.env.addr # None =>
        panel'.env.addr = saved'.addr /\ Under(calls') \cap TailWrites = {}
  BY <1>1, StackEnvKept
<1>3. QED
  BY <1>1, <1>2, WritesKept, WritesAgree DEF EnvInv

\* A section that is opened shows nothing of .env that it has not read, and what was asked
\* for before comes first.
LEMMA EnvOfOpening ==
  ASSUME NEW section \in Sections, NEW token \in Key, NEW h,
         NEW q, Queued(q), calls' = q \o Mounted(section, token),
         \A c \in Under(q) : ~c.here,
         First(q, TokenWrites, TailWrites),
         \A c \in Under(q) \cap TokenWrites : c.arg.addr = saved.addr,
         saved' = saved, host'.section = section, panel' = NewPanel(section, h)
  PROVE  EnvInv'
<1> DEFINE c == MountCall(section, token)
<1>1. /\ c \in Sent /\ c.cmd \notin Clicked \cup Marked
      /\ calls' = q \/ calls' = Append(q, c)
  BY MountCallIsSent, MountedIs
<1>2. \A d \in Sent : d.cmd \notin Clicked \cup Marked =>
                        d \notin TokenWrites \cup OfOthers(section)
  BY DEF TokenWrites, OfOthers, Clicked
<1> HIDE DEF c
<1>3. Queued(calls') /\ GoesOn(q, calls', {c}) /\ Under(calls') \subseteq Under(q) \cup {c}
  <2>1. CASE calls' = q
    BY <2>1, SameGoesOn
  <2>2. CASE calls' = Append(q, c)
    <3>1. Queued(Append(q, c)) /\ GoesOn(q, Append(q, c), {c})
      BY <1>1, SameGoesOn, AppendGoesOn
    <3>2. Under(Append(q, c)) = Under(q) \cup {c}
      BY UnderAppend
    <3>3. QED
      BY <2>2, <3>1, <3>2
  <2>3. QED
    BY <1>1, <2>1, <2>2
<1>4. First(q, OfOthers(section), Shown)
  BY DEF First, Under, Shown
<1>5. First(calls', OfOthers(section), Shown) /\ First(calls', TokenWrites, TailWrites)
  <2>1. {c} \cap OfOthers(section) = {} /\ {c} \cap TokenWrites = {}
    BY <1>1, <1>2
  <2>2. QED
    BY <1>3, <1>4, <2>1, StaysFirst
<1>6. \A d \in Under(calls') \cap TokenWrites : d.arg.addr = saved'.addr
  BY <1>1, <1>2, <1>3
<1>7. section = "stack" => panel'.env.addr = None
  BY DEF NewPanel, NewStackPanel, NoEnv
<1>8. QED
  BY <1>5, <1>6, <1>7 DEF EnvInv, InOrder

LEMMA LeftInOrder ==
  ASSUME TypeInv, EnvInv
  PROVE  /\ First(Left, TokenWrites, TailWrites)
         /\ \A c \in Under(Left) \cap TokenWrites : c.arg.addr = saved.addr
<1>1. Queued(calls) /\ Queued(Left)
  BY LeftCalls DEF TypeInv
<1>2. \A i \in 1..Len(calls) :
        /\ Left[i] \in TokenWrites => calls[i] \in TokenWrites
        /\ Left[i] \in TailWrites => calls[i] \in TailWrites
  <2>1. \A i \in 1..Len(calls) : calls[i] \in Sent
    BY <1>1, ElementOfSeq DEF Queued
  <2>2. QED
    BY <1>1, <2>1, LeftCalls DEF TokenWrites, TailWrites
<1>3. First(Left, TokenWrites, TailWrites)
  <2>1. Len(Left) = Len(calls) /\ First(calls, TokenWrites, TailWrites)
    BY <1>1, LeftCalls DEF EnvInv
  <2>2. QED
    BY <1>2, <2>1 DEF First
<1>4. ASSUME NEW i \in 1..Len(calls), Left[i] \in TokenWrites
      PROVE  Left[i].arg.addr = saved.addr
  <2>1. Left[i].arg = calls[i].arg /\ calls[i] \in Under(calls) \cap TokenWrites
    BY <1>1, <1>2, <1>4, LeftCalls DEF Under
  <2>2. QED
    BY <2>1 DEF EnvInv
<1>5. Len(Left) = Len(calls)
  BY <1>1, LeftCalls
<1>6. QED
  BY <1>3, <1>4, <1>5 DEF Under

LEMMA EnvOpened ==
  ASSUME TypeInv, EnvInv, Reopen \/ OpenSection
  PROVE  EnvInv'
<1>1. host \in Host /\ host.token \in Key /\ "stack" \in Sections /\ saved' = saved
  BY DEF TypeInv, Host, Key, Sections, Reopen, OpenSection, world
<1>2. ASSUME Reopen PROVE EnvInv'
  <2>1. /\ Queued(<<>>) /\ calls' = <<>> \o Mounted("stack", host.token)
        /\ Under(<<>>) = {} /\ First(<<>>, TokenWrites, TailWrites)
    BY <1>2 DEF Reopen, Queued, Mounted, Under, First
  <2>2. panel' = NewPanel("stack", host) /\ host'.section = "stack"
    BY <1>1, <1>2 DEF Reopen, NewPanel, Host
  <2>3. QED
    BY <1>1, <2>1, <2>2, EnvOfOpening
<1>3. ASSUME OpenSection PROVE EnvInv'
  <2>1. PICK section \in Sections :
          /\ host' = [host EXCEPT !.section = section]
          /\ panel' = NewPanel(section, host)
          /\ calls' = Left \o Mounted(section, host.token)
    BY <1>3 DEF OpenSection
  <2>2. Queued(Left) /\ \A c \in Under(Left) : ~c.here
    BY LeftCalls DEF TypeInv
  <2>3. host'.section = section
    BY <1>1, <2>1 DEF Host
  <2>4. QED
    BY <1>1, <2>1, <2>2, <2>3, LeftInOrder, EnvOfOpening
<1>4. QED
  BY <1>2, <1>3

LEMMA EnvAtStart == Init => EnvInv
<1> SUFFICES ASSUME Init
             PROVE  EnvInv
  OBVIOUS
<1>1. host.section = "stack" /\ host \in Host
  BY TypesAtStart DEF TypeInv
<1>2. calls = <<MountCall("stack", host.token)>> /\ panel.env.addr = None
  BY DEF Init, Mounted, MountCall, NewStackPanel, NoEnv
<1>3. MountCall("stack", host.token).cmd = "refresh_stack"
  BY DEF MountCall, NewCall
<1>4. \A i \in 1..Len(calls) : calls[i].cmd = "refresh_stack"
  BY <1>2, <1>3
<1>5. InOrder /\ First(calls, TokenWrites, TailWrites)
  BY <1>4 DEF InOrder, First, OfOthers, Movers, ComposeOps, TokenWrites
<1>6. QED
  BY <1>2, <1>4, <1>5 DEF EnvInv, Under, TokenWrites
-----------------------------------------------------------------------------
LEMMA StepGoesOn ==
  ASSUME TypeInv, Steps
  PROVE  /\ Queued(calls) /\ Queued(calls') /\ host'.section = host.section
         /\ Under(calls') \subseteq Under(calls) \cup Fresh
         /\ ~TsWritten /\ Restarts' => Restarts
<1>1. Goes(Fresh) /\ host'.section = host.section
  BY QueueOfStack, QueueOfTail, QueueOfAlloc, QueueOfAgentPanels, SectionStays
  DEF Steps, QueueStep
<1>2. Queued(calls) /\ Queued(calls') /\ Under(calls') \subseteq Under(calls) \cup Fresh
  BY <1>1, UnderNext DEF Goes, TypeInv
<1>3. ASSUME ~TsWritten, Restarts' PROVE Restarts
  <2>1. Goes(But({"ts_restart"}))
    BY <1>3, StepAdds DEF Steps
  <2>2. Under(calls') \subseteq Under(calls) \cup But({"ts_restart"})
    BY <1>2, <2>1, UnderNext DEF Goes
  <2>3. QED
    BY <1>3, <2>2 DEF Restarts, But
<1>4. QED
  BY <1>1, <1>2, <1>3

\* What the tab knows of .env is kept, read, or what the section for the network wrote.
LEMMA HostEnvIsRead ==
  ASSUME TypeInv, Steps, ~TsWritten
  PROVE  host'.env = host.env \/ host'.env \in ReadEnv
<1>1. host \in Host
  BY DEF TypeInv
<1>2. ASSUME NEW token, NEW q, TokenChange(token, panel, q) PROVE host'.env = host.env
  BY <1>1, <1>2 DEF TokenChange, Host
<1>3. CASE StackSteps
  <2>1. CASE Connect
    BY <1>2, <2>1 DEF Connect
  <2>2. CASE EnvWritten
    BY <1>2, <2>2 DEF EnvWritten
  <2>3. CASE StatusAnswered
    BY <1>1, <2>3 DEF StatusAnswered, Host
  <2>4. ASSUME NEW op, Compose(op) \/ Composed(op) PROVE host' = host
    BY <2>4 DEF Compose, Composed
  <2>5. CASE \/ EditToken \/ SaveEnvAndToken \/ FetchTokenHint \/ RefreshStack \/ ShowLogs
             \/ EnvRead \/ TokenHinted \/ LogsShown \/ StackWaited \/ StackRefreshed
             \/ InfoAnswered
    BY <2>5
    DEF EditToken, SaveEnvAndToken, FetchTokenHint, RefreshStack, ShowLogs, EnvRead,
       TokenHinted, LogsShown, StackWaited, StackRefreshed, InfoAnswered
  <2>6. QED
    BY <1>3, <2>1, <2>2, <2>3, <2>4, <2>5 DEF StackSteps
<1>4. CASE TailSteps
  <2>1. CASE TsRefreshed
    <3>1. PICK env \in ReadEnv, p \in {panel, [panel EXCEPT !.known = TRUE,
                                              !.busy = IF arg = None THEN None ELSE @]} :
            EnvChange(p, env)
      BY <2>1 DEF TsRefreshed
    <3>2. QED
      BY <1>1, <3>1 DEF EnvChange, Host
  <2>2. QED
    BY <1>4, <2>1
    DEF TailSteps, Apply, EditEnv, RefreshAll, SaveAndRestart, DoRefreshOverlay,
       OverlayAnswered, TsRestarted, TsWaited
<1>5. CASE AllocSteps
  <2>1. ASSUME NEW op, AskFirst(op) \/ DoConfirmed(op) PROVE host' = host
    BY <2>1 DEF AskFirst, DoConfirmed
  <2>2. QED
    BY <1>5, <2>1
    DEF AllocSteps, AgentStep, ConfirmInvite, DoGenerateInvite, EnterResponse,
       DoImportResponse, DoResume, Cancel, RowAnswered, LoadAllocations, Listed,
       ToggleCreate, DoCreate, Created
<1>6. CASE AgentPanelSteps
  BY <1>6
  DEF AgentPanelSteps, ConfigLoaded, EditSettings, SaveSettings, SettingsSaved,
     SavedFades, RefreshDiagnostics, DiagnosticsRefreshed, RunVerify, Verified
<1>7. QED
  BY <1>3, <1>4, <1>5, <1>6 DEF Steps

\* Containers are made, and fail to be, by two operations only.
LEMMA RunningMoves ==
  ASSUME Steps
  PROVE  \/ running' = running
         \/ TsRestarted
         \/ \E op \in ComposeOps : Composed(op)
<1>1. CASE StackSteps
  <2>1. ASSUME NEW op, Compose(op) PROVE running' = running
    BY <2>1 DEF Compose, world
  <2>2. QED
    BY <1>1, <2>1
    DEF StackSteps, EditToken, SaveEnvAndToken, FetchTokenHint, Connect, RefreshStack,
       ShowLogs, EnvWritten, EnvRead, TokenHinted, LogsShown, StackWaited, StackRefreshed,
       InfoAnswered, StatusAnswered, world
<1>2. CASE TailSteps
  BY <1>2
  DEF TailSteps, Apply, EditEnv, RefreshAll, SaveAndRestart, DoRefreshOverlay,
     TsRefreshed, OverlayAnswered, TsWritten, TsWaited, world
<1>3. CASE AllocSteps
  <2>1. ASSUME NEW op, AskFirst(op) \/ DoConfirmed(op) PROVE running' = running
    BY <2>1 DEF AskFirst, DoConfirmed, world
  <2>2. QED
    BY <1>3, <2>1
    DEF AllocSteps, AgentStep, ConfirmInvite, DoGenerateInvite, EnterResponse,
       DoImportResponse, DoResume, Cancel, RowAnswered, LoadAllocations, Listed,
       ToggleCreate, DoCreate, Created, world
<1>4. CASE AgentPanelSteps
  BY <1>4
  DEF AgentPanelSteps, ConfigLoaded, EditSettings, SaveSettings, SettingsSaved,
     SavedFades, RefreshDiagnostics, DiagnosticsRefreshed, RunVerify, Verified, world
<1>5. QED
  BY <1>1, <1>2, <1>3, <1>4 DEF Steps

\* A restart makes containers with the address that .env has, or leaves those there are.
LEMMA RestartMakes ==
  ASSUME TypeInv, TsRestarted
  PROVE  /\ Restarts /\ saved' = saved /\ host' = host
         /\ running' \in {running, None} \/ (running' # None /\ running'.addr = saved.addr)
<1>1. Restarts
  BY HeadIsUnder DEF TsRestarted, Answered, Restarts, TypeInv
<1>2. CASE ComposeUp
  <2>1. running' = [bind |-> saved.bind, addr |-> saved.addr]
    BY <1>2 DEF ComposeUp
  <2>2. WorldTypes'
    BY <1>2, WorldOfCompose DEF TypeInv
  <2>3. running' \in [bind : Binds, addr : Addrs \cup {""}] \cup {None}
    BY <2>2 DEF WorldTypes
  <2>4. running'.addr = saved.addr
    BY <2>1
  <2>5. QED
    BY <1>1, <1>2, <2>4 DEF TsRestarted, ComposeUp
<1>3. CASE ComposeFailed
  BY <1>1, <1>3 DEF TsRestarted, ComposeFailed
<1>4. QED
  BY <1>2, <1>3 DEF TsRestarted
-----------------------------------------------------------------------------
\* With the section for the allocations open and nothing else to change under way, nothing
\* else changes.
LEMMA SettledKept ==
  ASSUME TypeInv, Steps, host.section = "allocations", Settled
  PROVE  Settled' /\ ~TsWritten /\ \A op \in ComposeOps : ~Composed(op)
<1>1. ASSUME NEW c \in Under(calls'), c.cmd \in Movers PROVE FALSE
  <2>1. c \in Fresh
    BY <1>1, StepGoesOn DEF Settled
  <2>2. c.cmd \in CommandsOf("allocations")
    BY <1>1, <2>1 DEF Fresh, OfSection, Clicked
  <2>3. QED
    BY <1>1, <2>2 DEF Movers, CommandsOf, ComposeOps, RowOps
<1>2. calls # <<>> => Head(calls).cmd \notin Movers
  BY HeadIsUnder DEF Settled, TypeInv
<1>3. QED
  BY <1>1, <1>2 DEF Settled, TsWritten, Composed, Answered, Movers

LEMMA RestartsLead ==
  ASSUME TypeInv, EnvInv, RestartLeads, Steps
  PROVE  RestartLeads'
<1> SUFFICES ASSUME Restarts', Leads(host'.env)
             PROVE  saved'.addr # ""
  BY DEF RestartLeads, Leads
<1>1. CASE ~TsWritten
  <2>1. Restarts /\ saved'.addr = saved.addr /\ (host'.env = host.env \/ host'.env \in ReadEnv)
    BY <1>1, StepGoesOn, AddrKept, HostEnvIsRead
  <2>2. host'.env \in ReadEnv => host'.env.addr \in {None, saved.addr}
    BY ReadIsEnv DEF TypeInv, WorldTypes, EnvFile
  <2>3. QED
    BY <2>1, <2>2 DEF RestartLeads, Leads
<1>2. CASE TsWritten
  <2>1. calls # <<>> /\ Head(calls).cmd = "ts_write" /\ Queued(calls)
    BY <1>2 DEF TsWritten, Answered, TypeInv
  <2>2. arg.env \in HostEnvValues /\ saved \in EnvFile /\ host \in Host
    BY <2>1, HeadFacts DEF Allowed, WriteArg, TypeInv, WorldTypes, EnvFile
  <2>3. ASSUME NEW p, EnvChange(p, arg.env), WriteEnv(arg.env) PROVE saved'.addr # ""
    <3>1. host'.env = arg.env
      BY <2>2, <2>3 DEF EnvChange, Host
    <3>2. QED
      BY <2>2, <2>3, <3>1, Written DEF Leads
  <2>4. CASE Done /\ UNCHANGED <<saved, host>>
    <3>1. Restarts
      BY <2>1, <2>4, Over DEF Restarts
    <3>2. QED
      BY <2>4, <3>1 DEF RestartLeads
  <2>5. QED
    BY <1>2, <2>3, <2>4 DEF TsWritten
<1>3. QED
  BY <1>1, <1>2

\* What the section for the allocations knows of the agent is kept, or the agent said it.
LEMMA OverlayIsHeard ==
  ASSUME TypeInv, Steps, host.section = "allocations"
  PROVE  \/ panel'.overlay = panel.overlay
         \/ /\ calls # <<>> /\ here /\ running # None /\ running' = running
            /\ panel'.overlay \in {running.addr, None}
<1>1. panel \in AllocPanel /\ panel.row \in Row
  BY DEF TypeInv, PanelOf, AllocPanel
<1>2. CASE StackSteps \/ TailSteps \/ AgentPanelSteps
  BY <1>2, OthersStandBy DEF Bystanding
<1>3. CASE Listed
  <2>1. CASE Patch([panel EXCEPT !.busy = None])
    BY <1>1, <2>1 DEF Patch, AllocPanel
  <2>2. ASSUME NEW overlay \in {running.addr, None}, NEW list, NEW row, Authed(arg),
               Patch([panel EXCEPT !.list = list, !.overlay = overlay, !.busy = None,
                                   !.row = row])
        PROVE  \/ panel'.overlay = panel.overlay
               \/ /\ calls # <<>> /\ here /\ running # None /\ running' = running
                  /\ panel'.overlay \in {running.addr, None}
    <3>1. running' = running /\ calls # <<>> /\ running # None
      BY <1>3, <2>2 DEF Listed, world, Answered, Authed
    <3>2. IF here THEN panel'.overlay = overlay ELSE panel' = panel
      BY <1>1, <2>2 DEF Patch, AllocPanel
    <3>3. QED
      BY <3>1, <3>2
  <2>3. QED
    BY <1>3, <2>1, <2>2 DEF Listed
<1>4. ASSUME NEW op, AskFirst(op) \/ DoConfirmed(op) PROVE panel'.overlay = panel.overlay
  BY <1>1, <1>4 DEF AskFirst, DoConfirmed, AllocPanel
<1>5. CASE \/ AgentStep \/ ConfirmInvite \/ DoGenerateInvite \/ EnterResponse \/ DoImportResponse
           \/ DoResume \/ Cancel \/ LoadAllocations \/ ToggleCreate \/ DoCreate
  BY <1>1, <1>5
  DEF AgentStep, ConfirmInvite, DoGenerateInvite, EnterResponse, DoImportResponse,
      DoResume, Cancel, LoadAllocations, ToggleCreate, DoCreate, AllocPanel
<1>6. CASE RowAnswered
  <2>1. Patch([panel EXCEPT !.busy = "load", !.row = RowDone])
          \/ Patch([panel EXCEPT !.row = RowEnded(@)])
    BY <1>6 DEF RowAnswered, RowDone
  <2>2. QED
    BY <1>1, <2>1 DEF Patch, AllocPanel
<1>7. CASE Created
  BY <1>1, <1>7 DEF Created, Patch, AllocPanel
<1>8. QED
  BY <1>2, <1>3, <1>4, <1>5, <1>6, <1>7 DEF Steps, AllocSteps
-----------------------------------------------------------------------------
LEMMA AgentLeadsOn ==
  ASSUME TypeInv, EnvInv, RestartLeads, AgentLeads, Steps
  PROVE  AgentLeads'
<1> SUFFICES ASSUME host.section = "allocations", panel'.overlay # None
             PROVE  /\ Settled'
                    /\ panel'.overlay # "" /\ Unaddressed' => saved'.addr = "" /\ ~Leads(host'.env)
  BY StepGoesOn DEF AgentLeads, Leads
<1>1. CASE /\ calls # <<>> /\ here /\ running # None /\ running' = running
           /\ panel'.overlay \in {running.addr, None}
  <2>1. Under(calls) \cap OfOthers("allocations") = {}
    BY <1>1, NoMoverWhenAnswered DEF EnvInv
  <2>2. Movers \cap CommandsOf("allocations") = {}
    BY DEF Movers, ComposeOps, CommandsOf, RowOps
  <2>3. Under(calls) \subseteq Sent
    BY ElementOfSeq DEF TypeInv, Queued, Under
  <2>4. Settled
    BY <2>1, <2>2, <2>3 DEF Settled, OfOthers
  <2>5. QED
    BY <1>1, <2>4, SettledKept DEF Unaddressed
<1>2. CASE panel'.overlay = panel.overlay
  <2>1. Settled /\ (panel.overlay # "" /\ Unaddressed => saved.addr = "" /\ ~Leads(host.env))
    BY <1>2 DEF AgentLeads
  <2>2. Settled' /\ ~TsWritten /\ \A op \in ComposeOps : ~Composed(op)
    BY <2>1, SettledKept
  <2>3. SUFFICES ASSUME panel.overlay # "", Unaddressed'
                 PROVE  saved'.addr = "" /\ ~Leads(host'.env)
    BY <1>2, <2>2
  <2>4. saved.addr = "" /\ ~Leads(host.env)
    <3>1. CASE running' = running
      BY <2>1, <2>3, <3>1 DEF Unaddressed
    <3>2. CASE TsRestarted
      <4>1. CASE running' \in {running, None}
        BY <2>1, <2>3, <4>1 DEF Unaddressed
      <4>2. CASE running' # None /\ running'.addr = saved.addr
        BY <2>3, <3>2, <4>2, RestartMakes DEF Unaddressed, RestartLeads
      <4>3. QED
        BY <3>2, <4>1, <4>2, RestartMakes
    <3>3. QED
      BY <2>2, <3>1, <3>2, RunningMoves
  <2>5. saved'.addr = saved.addr /\ (host'.env = host.env \/ host'.env \in ReadEnv)
    BY <2>2, AddrKept, HostEnvIsRead
  <2>6. host'.env \in ReadEnv => host'.env.addr \in {None, saved.addr}
    BY ReadIsEnv DEF TypeInv, WorldTypes, EnvFile
  <2>7. QED
    BY <2>4, <2>5, <2>6 DEF Leads
<1>3. QED
  BY <1>1, <1>2, OverlayIsHeard

\* An invite for which the host was not asked is made when both .env, as it was last read,
\* and the agent have an address.
LEMMA SilentClick ==
  ASSUME TypeInv, AgentLeads, RestartLeads, DoGenerateInvite, Needed = {}, panel.overlay # None
  PROVE  Settled /\ ~Unaddressed /\ (Restarts => saved.addr # "")
<1>1. host.section = "allocations" /\ InviteAllowed
  BY DEF DoGenerateInvite, InviteClicked, Offered, AllocShown
<1>2. PanelReach \in ReachabilityClass
  BY DEF TypeInv, Host, HostEnvValues, PanelReach, ClassifyReachability, Binds,
     ReachabilityClass
<1>3. PanelReach \notin {"unknown", "local_test_only"}
  BY DEF Needed
<1>4. PanelReach = "overlay_ready" /\ panel.overlay # ""
  BY <1>1, <1>2, <1>3 DEF InviteAllowed, ReachabilityClass
<1>5. Leads(host.env)
  <2>1. host.env.bind \in Binds \cup {None}
    BY DEF TypeInv, Host, HostEnvValues
  <2>2. ~Leads(host.env) =>
          ClassifyReachability(host.env) \in {"unsafe_public", "local_test_only", "unknown"}
    BY <2>1 DEF ClassifyReachability, Leads, Binds
  <2>3. QED
    BY <1>4, <2>2 DEF PanelReach
<1>6. QED
  BY <1>1, <1>4, <1>5 DEF AgentLeads, RestartLeads

LEMMA InviteLeadsOn ==
  ASSUME TypeInv, EnvInv, RestartLeads, AgentLeads, InviteLeads, Steps
  PROVE  InviteLeads'
<1> SUFFICES ASSUME NEW c \in Under(calls'), c \in Silent
             PROVE  Settled' /\ ~Unaddressed' /\ (Restarts' => saved'.addr # "")
  BY DEF InviteLeads, Silent
<1>1. host.section = "allocations"
  <2>1. OfSection(c)'
    BY SectionStays DEF TypeInv, Steps
  <2>2. "invite" \in CommandsOf(host'.section)
    BY <2>1 DEF OfSection, Silent
  <2>3. "invite" \in CommandsOf(host.section) /\ host.section \in Sections
    BY <2>2, StepGoesOn DEF TypeInv, Host
  <2>4. QED
    BY <2>3, OneSection DEF CommandsOf, RowOps, Sections
<1>2. Settled /\ ~Unaddressed /\ (Restarts => saved.addr # "")
  <2>1. CASE c \in Under(calls)
    BY <2>1 DEF InviteLeads
  <2>2. CASE c \notin Under(calls)
    <3>1. DoGenerateInvite
      <4>1. SUFFICES ASSUME ~DoGenerateInvite PROVE FALSE
        OBVIOUS
      <4>2. Goes(But({"invite"}))
        BY <4>1, StepAdds DEF Steps
      <4>3. Under(calls') \subseteq Under(calls) \cup But({"invite"})
        BY <4>2, StepGoesOn, UnderNext DEF Goes
      <4>4. QED
        BY <2>2, <4>3 DEF But, Silent
    <3> DEFINE told == Needed # {} \/ panel.overlay = None
               a    == [op |-> "invite", token |-> host.token, told |-> told]
    <3>2. Ask("invite", a)
      BY <3>1 DEF DoGenerateInvite, RowCall
    <3>3. c = NewCall("invite", a) /\ NewCall("invite", a).arg = a
      BY <2>2, <3>2, AskKeeps, StepGoesOn
    <3>4. Needed = {} /\ panel.overlay # None
      <4>1. ~c.arg.told
        BY DEF Silent
      <4> HIDE DEF told
      <4>2. ~told
        BY <3>3, <4>1
      <4>3. QED
        BY <4>2 DEF told
    <3>5. QED
      BY <3>1, <3>4, SilentClick
  <2>3. QED
    BY <2>1, <2>2
<1>3. Settled' /\ ~TsWritten /\ \A op \in ComposeOps : ~Composed(op)
  BY <1>1, <1>2, SettledKept
<1>4. ~Unaddressed'
  <2>1. CASE running' = running
    BY <1>2, <2>1 DEF Unaddressed
  <2>2. CASE TsRestarted
    BY <1>2, <2>2, RestartMakes DEF Unaddressed
  <2>3. QED
    BY <1>3, <2>1, <2>2, RunningMoves
<1>5. Restarts' => saved'.addr # ""
  BY <1>2, <1>3, StepGoesOn, AddrKept
<1>6. QED
  BY <1>3, <1>4, <1>5

LEMMA InviteToldOn ==
  ASSUME TypeInv, InviteLeads, LoopbackInviteWasTold, Steps
  PROVE  LoopbackInviteWasTold'
<1> SUFFICES ASSUME host.section = "allocations", panel'.row.invite # None
             PROVE  panel'.row.invite.address # "loopback" \/ panel'.row.invite.told
  BY StepGoesOn DEF LoopbackInviteWasTold
<1> DEFINE Good(row) == row.invite # None => row.invite.address # "loopback" \/ row.invite.told
<1>1. panel \in AllocPanel /\ panel.row \in Row
  BY DEF TypeInv, PanelOf, AllocPanel
<1>2. Good(panel.row)
  BY DEF LoopbackInviteWasTold
<1>3. ASSUME NEW row, Good(row), panel'.row = row
      PROVE  panel'.row.invite.address # "loopback" \/ panel'.row.invite.told
  BY <1>3
<1>4. ASSUME NEW row, row.invite = panel.row.invite PROVE Good(row)
  BY <1>2, <1>4
<1>5. CASE panel'.row.invite = panel.row.invite
  BY <1>2, <1>5
<1>6. CASE StackSteps \/ TailSteps \/ AgentPanelSteps
  BY <1>5, <1>6, OthersStandBy DEF Bystanding
<1>7. CASE \/ AgentStep \/ LoadAllocations \/ DoCreate \/ ToggleCreate \/ Created
  BY <1>1, <1>5, <1>7 DEF AgentStep, LoadAllocations, DoCreate, ToggleCreate, Created,
     Patch, AllocPanel
<1>8. /\ \A b, c : panel' = [panel EXCEPT !.row.busy = b, !.row.confirm = c]
                     => panel'.row.invite = panel.row.invite
      /\ \A b : panel' = [panel EXCEPT !.row.busy = b] => panel'.row.invite = panel.row.invite
      /\ \A c : panel' = [panel EXCEPT !.row.confirm = c] => panel'.row.invite = panel.row.invite
      /\ \A r : panel' = [panel EXCEPT !.row.response = r]
                  => panel'.row.invite = panel.row.invite
  <2>1. ASSUME NEW b, NEW c, panel' = [panel EXCEPT !.row.busy = b, !.row.confirm = c]
        PROVE  panel'.row.invite = panel.row.invite
    BY <1>1, <2>1 DEF AllocPanel, Row
  <2>2. ASSUME NEW b, panel' = [panel EXCEPT !.row.busy = b]
        PROVE  panel'.row.invite = panel.row.invite
    BY <1>1, <2>2 DEF AllocPanel, Row
  <2>3. ASSUME NEW c, panel' = [panel EXCEPT !.row.confirm = c]
        PROVE  panel'.row.invite = panel.row.invite
    BY <1>1, <2>3 DEF AllocPanel, Row
  <2>4. ASSUME NEW r, panel' = [panel EXCEPT !.row.response = r]
        PROVE  panel'.row.invite = panel.row.invite
    BY <1>1, <2>4 DEF AllocPanel, Row
  <2>5. QED
    BY <2>1, <2>2, <2>3, <2>4
<1>9. CASE \/ ConfirmInvite \/ DoGenerateInvite \/ EnterResponse \/ DoImportResponse
           \/ DoResume \/ Cancel
  <2>1. CASE ConfirmInvite
    BY <1>5, <1>8, <2>1 DEF ConfirmInvite
  <2>2. CASE DoGenerateInvite
    BY <1>5, <1>8, <2>2 DEF DoGenerateInvite
  <2>3. CASE EnterResponse
    BY <1>5, <1>8, <2>3 DEF EnterResponse
  <2>4. CASE DoImportResponse \/ DoResume
    BY <1>5, <1>8, <2>4 DEF DoImportResponse, DoResume
  <2>5. CASE Cancel
    BY <1>5, <1>8, <2>5 DEF Cancel
  <2>6. QED
    BY <1>9, <2>1, <2>2, <2>3, <2>4, <2>5
<1>10. ASSUME NEW op, AskFirst(op) \/ DoConfirmed(op)
       PROVE  panel'.row.invite = panel.row.invite
  BY <1>8, <1>10 DEF AskFirst, DoConfirmed
<1>11. CASE Listed
  <2>1. CASE Patch([panel EXCEPT !.busy = None])
    BY <1>1, <1>5, <2>1 DEF Patch, AllocPanel
  <2>2. ASSUME NEW overlay, NEW list, NEW row \in {NewRow, panel.row},
               Patch([panel EXCEPT !.list = list, !.overlay = overlay, !.busy = None,
                                   !.row = row])
        PROVE  panel'.row.invite.address # "loopback" \/ panel'.row.invite.told
    <3>1. panel' = panel \/ panel'.row = row
      BY <1>1, <2>2 DEF Patch, AllocPanel
    <3>2. NewRow.invite = None
      BY DEF NewRow
    <3>3. QED
      BY <1>5, <2>2, <3>1, <3>2
  <2>3. QED
    BY <1>11, <2>1, <2>2 DEF Listed
<1>12. CASE RowAnswered
  <2>1. calls # <<>> /\ Head(calls).cmd \in RowOps /\ Queued(calls)
    BY <1>12 DEF RowAnswered, Answered, TypeInv
  <2>2. arg \in RowArg /\ arg.op = Head(calls).cmd
    BY <2>1, HeadFacts DEF Allowed
  <2>3. RowEnded(panel.row) \in Row /\ RowEnded(panel.row).invite = panel.row.invite
    BY <1>1 DEF RowEnded, Row
  <2>4. CASE Patch([panel EXCEPT !.row = RowEnded(@)])
    BY <1>1, <1>5, <2>3, <2>4 DEF Patch, AllocPanel
  <2>5. CASE Agreed /\ Patch([panel EXCEPT !.busy = "load", !.row = RowDone])
    <3>1. IF here THEN panel'.row = RowDone ELSE panel' = panel
      BY <1>1, <2>5 DEF Patch, AllocPanel
    <3>2. ASSUME here, arg.op # "invite" PROVE RowDone.invite = panel.row.invite
      BY <2>3, <3>2 DEF RowDone, Row
    <3>3. ASSUME here, arg.op = "invite"
          PROVE  RowDone.invite.address # "loopback" \/ RowDone.invite.told
      <4>1. RowDone.invite = [address |-> InviteAddress, told |-> arg.told]
        BY <2>3, <3>3 DEF RowDone, Row
      <4>2. SUFFICES ASSUME ~arg.told PROVE InviteAddress # "loopback"
        BY <4>1
      <4>3. Head(calls) \in Silent /\ Head(calls) \in Under(calls)
        BY <2>1, <2>2, <3>3, <4>2, HeadIsUnder DEF Silent, here, arg
      <4>4. ~Unaddressed /\ running # None
        BY <2>5, <4>3 DEF InviteLeads, Agreed, Authed
      <4>5. running.addr # "" /\ running.addr \in Addrs \cup {""}
        BY <4>4 DEF Unaddressed, TypeInv, WorldTypes
      <4>6. InviteAddress = running.addr
        BY <4>5 DEF InviteAddress
      <4>7. QED
        BY <4>5, <4>6, HostAssumption
    <3>4. QED
      BY <1>5, <3>1, <3>2, <3>3
  <2>6. QED
    BY <1>12, <2>4, <2>5 DEF RowAnswered, RowDone
<1>13. QED
  BY <1>5, <1>6, <1>7, <1>9, <1>10, <1>11, <1>12 DEF Steps, AllocSteps
-----------------------------------------------------------------------------
\* A section that is opened has heard of nothing, and nobody has asked for a restart or an
\* invite there.
LEMMA LeadOfOpening ==
  ASSUME TypeInv, RestartLeads, NEW section \in Sections, NEW token \in Key, NEW h,
         NEW q, Queued(q), calls' = q \o Mounted(section, token),
         \A c \in Under(q) : ~c.here /\ \E d \in Under(calls) : c.cmd = d.cmd,
         saved' = saved, host'.env = host.env, host'.section = section,
         panel' = NewPanel(section, h)
  PROVE  LeadInv'
<1>1. \A c \in Under(calls') :
        \/ ~c.here /\ \E d \in Under(calls) : c.cmd = d.cmd
        \/ c.cmd \notin Clicked \cup Marked
  BY OpenedCalls
<1>2. RestartLeads'
  <2>1. Restarts' => Restarts
    BY <1>1 DEF Restarts, Marked
  <2>2. QED
    BY <2>1 DEF RestartLeads, Leads
<1>3. InviteLeads'
  <2>1. Under(calls') \cap Silent = {}
    BY <1>1 DEF Silent, Clicked, RowOps
  <2>2. QED
    BY <2>1 DEF InviteLeads, Silent
<1>4. section = "allocations" => panel'.overlay = None /\ panel'.row.invite = None
  BY DEF NewPanel, NewAllocPanel, NewRow
<1>5. AgentLeads' /\ LoopbackInviteWasTold'
  BY <1>4 DEF AgentLeads, LoopbackInviteWasTold
<1>6. QED
  BY <1>2, <1>3, <1>5 DEF LeadInv

LEMMA LeadOpened ==
  ASSUME TypeInv, LeadInv, Reopen \/ OpenSection
  PROVE  LeadInv'
<1>1. host \in Host /\ host.token \in Key /\ "stack" \in Sections /\ saved' = saved
  BY DEF TypeInv, Host, Key, Sections, Reopen, OpenSection, world
<1>2. RestartLeads
  BY DEF LeadInv
<1>3. ASSUME Reopen PROVE LeadInv'
  <2>1. /\ Queued(<<>>) /\ calls' = <<>> \o Mounted("stack", host.token)
        /\ Under(<<>>) = {}
    BY <1>3 DEF Reopen, Queued, Mounted, Under
  <2>2. panel' = NewPanel("stack", host) /\ host'.section = "stack" /\ host'.env = host.env
    BY <1>1, <1>3 DEF Reopen, NewPanel, Host
  <2>3. QED
    BY <1>1, <1>2, <2>1, <2>2, LeadOfOpening
<1>4. ASSUME OpenSection PROVE LeadInv'
  <2>1. PICK section \in Sections :
          /\ host' = [host EXCEPT !.section = section]
          /\ panel' = NewPanel(section, host)
          /\ calls' = Left \o Mounted(section, host.token)
    BY <1>4 DEF OpenSection
  <2>2. Queued(Left) /\ \A c \in Under(Left) : ~c.here /\ \E d \in Under(calls) : c.cmd = d.cmd
    BY LeftCalls DEF TypeInv
  <2>3. host'.section = section /\ host'.env = host.env
    BY <1>1, <2>1 DEF Host
  <2>4. QED
    BY <1>1, <1>2, <2>1, <2>2, <2>3, LeadOfOpening
<1>5. QED
  BY <1>3, <1>4

LEMMA LeadAtStart == Init => LeadInv
<1> SUFFICES ASSUME Init
             PROVE  LeadInv
  OBVIOUS
<1>1. host.section = "stack"
  BY TypesAtStart
<1>2. calls = <<MountCall("stack", host.token)>>
  BY DEF Init, Mounted, MountCall
<1>3. MountCall("stack", host.token).cmd = "refresh_stack"
  BY DEF MountCall, NewCall
<1>4. \A c \in Under(calls) : c.cmd = "refresh_stack"
  BY <1>2, <1>3 DEF Under
<1>5. ~Restarts /\ Under(calls) \cap Silent = {}
  BY <1>4 DEF Restarts, Silent
<1>6. QED
  BY <1>1, <1>5 DEF LeadInv, RestartLeads, AgentLeads, InviteLeads, LoopbackInviteWasTold

LEMMA EnvStep ==
  ASSUME TypeInv, EnvInv, [Next]_shared
  PROVE  EnvInv'
<1>1. CASE UNCHANGED shared
  BY <1>1 DEF shared, EnvInv, InOrder, First, OfOthers, Shown, TokenWrites, TailWrites,
     Under
<1>2. QED
  BY <1>1, EnvOpened, EnvKept DEF Next, Steps

LEMMA LeadStep ==
  ASSUME TypeInv, EnvInv, LeadInv, [Next]_shared
  PROVE  LeadInv'
<1>1. CASE UNCHANGED shared
  BY <1>1 DEF shared, LeadInv, RestartLeads, Restarts, Leads, AgentLeads, Settled,
     Unaddressed, InviteLeads, Silent, LoopbackInviteWasTold, Under
<1>2. CASE Reopen \/ OpenSection
  BY <1>2, LeadOpened
<1>3. CASE Steps
  BY <1>3, RestartsLead, AgentLeadsOn, InviteLeadsOn, InviteToldOn DEF LeadInv
<1>4. QED
  BY <1>1, <1>2, <1>3 DEF Next, Steps

\* An invite is never made that leads to the host's own machine unless the host was told or
\* the agent had not said what its address is: whatever becomes of .env and of the
\* containers between what the section has heard, the click and the call.
THEOREM LoopbackInvitesAreTold == Spec => []LoopbackInviteWasTold
<1> DEFINE Inv == TypeInv /\ EnvInv /\ LeadInv
<1>1. Init => Inv
  BY TypesAtStart, EnvAtStart, LeadAtStart
<1>2. Inv /\ [Next]_shared => Inv'
  BY TypesStep, EnvStep, LeadStep
<1>3. Inv => LoopbackInviteWasTold
  BY DEF LeadInv
<1> HIDE DEF Inv
<1>4. QED
  BY <1>1, <1>2, <1>3, PTL DEF Spec
-----------------------------------------------------------------------------
\* Nothing but a refresh answers what is asked to read .env again.
LEMMA OnlyRefreshReads ==
  ASSUME TypeInv, Steps, ~TsRefreshed, NEW c \in Under(calls), c.cmd = "ts_refresh"
  PROVE  c \in Under(calls')
<1>1. Goes(Fresh) /\ Queued(calls)
  BY QueueOfStack, QueueOfTail, QueueOfAlloc, QueueOfAgentPanels DEF Steps, QueueStep,
     TypeInv
<1>2. \/ Under(calls) \subseteq Under(calls')
      \/ calls # <<>> => Head(calls).cmd # "ts_refresh"
  <2>1. CASE StackSteps
    <3>1. CASE \/ EditToken \/ SaveEnvAndToken \/ FetchTokenHint \/ Connect \/ RefreshStack
               \/ ShowLogs \/ \E op \in ComposeOps : Compose(op)
      BY <3>1, StackClicksAnswerNone DEF NoneAnswered
    <3>2. CASE StackWaited
      BY <3>2, UnderAppend DEF StackWaited, TypeInv
    <3>3. CASE \/ EnvWritten \/ EnvRead \/ TokenHinted \/ LogsShown \/ StackRefreshed
               \/ InfoAnswered \/ StatusAnswered \/ \E op \in ComposeOps : Composed(op)
      BY <3>3 DEF EnvWritten, EnvRead, TokenHinted, LogsShown, StackRefreshed,
         InfoAnswered, StatusAnswered, Composed, ComposeOps, Answered
    <3>4. QED
      BY <2>1, <3>1, <3>2, <3>3 DEF StackSteps
  <2>2. CASE TailSteps
    <3>1. CASE Apply \/ EditEnv \/ RefreshAll \/ SaveAndRestart \/ DoRefreshOverlay
      BY <3>1, TailClicksAnswerNone DEF NoneAnswered
    <3>2. CASE TsWaited
      BY <3>2, UnderAppend DEF TsWaited, TypeInv
    <3>3. CASE OverlayAnswered \/ TsWritten \/ TsRestarted
      BY <3>3 DEF OverlayAnswered, TsWritten, TsRestarted, Answered
    <3>4. QED
      BY <2>2, <3>1, <3>2, <3>3 DEF TailSteps
  <2>3. CASE AllocSteps
    <3>1. CASE \/ AgentStep \/ ConfirmInvite \/ DoGenerateInvite \/ EnterResponse
               \/ DoImportResponse \/ DoResume \/ Cancel \/ LoadAllocations \/ ToggleCreate
               \/ DoCreate
               \/ \E op \in {"suspend", "retire", "delete"} : AskFirst(op) \/ DoConfirmed(op)
      BY <3>1, AllocClicksAnswerNone DEF NoneAnswered
    <3>2. CASE RowAnswered \/ Listed \/ Created
      BY <3>2 DEF RowAnswered, RowOps, Listed, Created, Answered
    <3>3. QED
      BY <2>3, <3>1, <3>2 DEF AllocSteps
  <2>4. CASE AgentPanelSteps
    <3>1. CASE EditSettings \/ SavedFades
      BY <3>1 DEF EditSettings, SavedFades
    <3>2. CASE SaveSettings \/ RefreshDiagnostics \/ RunVerify
      BY <3>2, AskKeeps DEF SaveSettings, RefreshDiagnostics, RunVerify, TypeInv
    <3>3. CASE ConfigLoaded \/ SettingsSaved \/ DiagnosticsRefreshed \/ Verified
      BY <3>3 DEF ConfigLoaded, SettingsSaved, DiagnosticsRefreshed, Verified, Answered
    <3>4. QED
      BY <2>4, <3>1, <3>2, <3>3 DEF AgentPanelSteps
  <2>5. QED
    BY <2>1, <2>2, <2>3, <2>4 DEF Steps
<1>3. c \in Under(calls') \/ (calls # <<>> /\ c = Head(calls))
  BY <1>1, UnderNext DEF Goes
<1>4. QED
  BY <1>2, <1>3

\* The section for the network keeps the address it shows, has it edited, or reads .env again.
LEMMA TailEnvMoves ==
  ASSUME TypeInv, Steps, ~TsRefreshed, ~TsWritten, host.section = "tailscale"
  PROVE  \/ panel'.env = panel.env /\ panel'.restart = panel.restart
         \/ panel'.restart
         \/ \E c \in Under(calls') : c.cmd = "ts_refresh"
<1>1. panel \in TailPanel
  BY DEF TypeInv, PanelOf
<1>2. CASE StackSteps \/ AllocSteps \/ AgentPanelSteps
  <2>1. Reloading
    BY <1>2, StackIsAside, AllocIsAside, AgentPanelsAreAside DEF Aside, Reloading
  <2>2. QED
    BY <1>1, <2>1 DEF Reloading, TailPanel
<1>3. CASE Apply \/ EditEnv
  <2>1. PICK bind, addr : panel' = ApplyTailscaleIp(bind) \/ panel' = ApplyAdvertisedAddress(addr)
    BY <1>3 DEF Apply, EditEnv
  <2>2. panel'.restart = TRUE
    BY <1>1, <2>1 DEF ApplyTailscaleIp, ApplyAdvertisedAddress, TailPanel
  <2>3. QED
    BY <2>2
<1>4. CASE RefreshAll \/ SaveAndRestart \/ DoRefreshOverlay
  BY <1>1, <1>4 DEF RefreshAll, SaveAndRestart, DoRefreshOverlay, TailPanel
<1>5. CASE OverlayAnswered
  BY <1>1, <1>5 DEF OverlayAnswered, Patch, TailPanel
<1>6. CASE TsRestarted
  BY <1>1, <1>6 DEF TsRestarted, Patch, TailPanel
<1>7. CASE TsWaited
  BY <1>7, UnderAppend DEF TsWaited, TypeInv
<1>8. QED
  BY <1>2, <1>3, <1>4, <1>5, <1>6, <1>7 DEF Steps, TailSteps

LEMMA ReadKept ==
  ASSUME TypeInv, EnvInv, EnvIsRead, Steps
  PROVE  EnvIsRead'
<1> SUFFICES ASSUME host.section = "tailscale", ~panel'.restart
             PROVE  \/ panel'.env.addr \in {None, saved'.addr}
                    \/ \E c \in Under(calls') : c.cmd = "ts_refresh"
  BY StepGoesOn DEF EnvIsRead
<1>1. panel \in TailPanel /\ TailShown
  BY DEF TypeInv, PanelOf, TailShown
<1>2. ASSUME panel'.env = panel.env, panel'.restart = panel.restart, saved'.addr = saved.addr,
             ~TsRefreshed
      PROVE  \/ panel'.env.addr \in {None, saved'.addr}
             \/ \E c \in Under(calls') : c.cmd = "ts_refresh"
  BY <1>2, OnlyRefreshReads DEF EnvIsRead
<1>3. ASSUME NEW p, NEW env, EnvChange(p, env), p \in TailPanel
      PROVE  panel'.env = env
  BY <1>1, <1>3 DEF EnvChange, TailPanel
<1>4. CASE TsRefreshed /\ ~TsWritten
  <2>1. PICK env \in ReadEnv : EnvChange(IF here THEN [panel EXCEPT !.known = TRUE,
                                            !.busy = IF arg = None THEN None ELSE @]
                 ELSE panel, env)
    BY <1>4 DEF TsRefreshed
  <2>2. [panel EXCEPT !.known = TRUE, !.busy = IF arg = None THEN None ELSE @] \in TailPanel
    BY <1>1 DEF TailPanel
  <2>3. panel'.env = env
    BY <1>1, <1>3, <2>1, <2>2
  <2>4. saved'.addr = saved.addr
    BY <1>4, AddrKept
  <2>5. QED
    BY <2>1, <2>3, <2>4, ReadIsEnv DEF TypeInv, WorldTypes, EnvFile
<1>5. CASE TsWritten
  <2>1. calls # <<>> /\ Head(calls).cmd = "ts_write" /\ Queued(calls)
    BY <1>5 DEF TsWritten, Answered, TypeInv
  <2>2. arg.env \in HostEnvValues /\ saved \in EnvFile
    BY <2>1, HeadFacts DEF Allowed, WriteArg, TypeInv, WorldTypes, EnvFile
  <2>3. ASSUME NEW p \in TailPanel, EnvChange(p, arg.env), WriteEnv(arg.env)
        PROVE  panel'.env.addr \in {None, saved'.addr}
    BY <1>3, <2>2, <2>3, Written
  <2>4. Saved(panel) \in TailPanel
    BY <1>1 DEF Saved, TailPanel
  <2>5. CASE Patch([panel EXCEPT !.busy = None]) /\ UNCHANGED saved
    <3>1. panel'.env = panel.env /\ panel'.restart = panel.restart
      BY <1>1, <2>5 DEF Patch, TailPanel
    <3>2. ~TsRefreshed
      BY <2>1 DEF TsRefreshed, Answered
    <3>3. QED
      BY <1>2, <2>5, <3>1, <3>2
  <2>6. QED
    BY <1>1, <1>5, <2>3, <2>4, <2>5 DEF TsWritten
<1>6. CASE ~TsRefreshed /\ ~TsWritten
  BY <1>2, <1>6, TailEnvMoves, AddrKept
<1>7. QED
  BY <1>4, <1>5, <1>6

LEMMA ReadStep ==
  ASSUME TypeInv, EnvInv, EnvIsRead, [Next]_shared
  PROVE  EnvIsRead'
<1>1. CASE UNCHANGED shared
  BY <1>1 DEF shared, EnvIsRead, Under
<1>2. CASE Reopen
  BY <1>2 DEF Reopen, EnvIsRead, TypeInv, Host
<1>3. CASE OpenSection
  <2>1. PICK section \in Sections :
          /\ host' = [host EXCEPT !.section = section]
          /\ calls' = Left \o Mounted(section, host.token)
    BY <1>3 DEF OpenSection
  <2>2. host'.section = section /\ host.token \in Key
    BY <2>1 DEF TypeInv, Host, Key
  <2>3. SUFFICES ASSUME section = "tailscale"
                 PROVE  \E c \in Under(calls') : c.cmd = "ts_refresh"
    BY <2>2 DEF EnvIsRead
  <2>4. Queued(Left)
    BY LeftCalls DEF TypeInv
  <2>5. calls' = Append(Left, MountCall("tailscale", host.token))
    BY <2>1, <2>2, <2>3, <2>4, MountedIs
  <2>6. MountCall("tailscale", host.token).cmd = "ts_refresh"
    BY DEF MountCall, NewCall
  <2>7. QED
    BY <2>4, <2>5, <2>6, UnderAppend
<1>4. CASE Steps
  BY <1>4, ReadKept
<1>5. QED
  BY <1>1, <1>2, <1>3, <1>4 DEF Next, Steps

LEMMA NoneUnder == calls = <<>> => Under(calls) = {}
<1>1. Queued(<<>>) /\ Under(<<>>) = {}
  BY DEF Queued, Under
<1>2. QED
  BY <1>1

\* When all is quiet, the section for the network has told the host that the agent runs with
\* another address than .env has, if what it heard of the agent still holds: whoever has
\* written .env or made containers meanwhile, and whatever has failed.
THEOREM MismatchesAreSaid == Spec => []MismatchIsSaid
<1> DEFINE Inv == TypeInv /\ EnvInv /\ EnvIsRead
<1>1. Init => Inv
  <2>1. host.section = "stack" => EnvIsRead
    BY DEF EnvIsRead
  <2>2. QED
    BY <2>1, TypesAtStart, EnvAtStart
<1>2. Inv /\ [Next]_shared => Inv'
  BY TypesStep, EnvStep, ReadStep
<1>3. Inv => MismatchIsSaid
  <2> SUFFICES ASSUME Inv, host.section = "tailscale", running # None,
                      panel.overlay = running.addr, calls = <<>>,
                      saved.addr \notin {"", running.addr}, panel.env.addr # None, ~panel.restart
               PROVE  MismatchShown
    BY DEF MismatchIsSaid
  <2>1. Under(calls) = {}
    BY NoneUnder
  <2>2. panel.env.addr = saved.addr
    BY <2>1 DEF EnvIsRead
  <2>3. panel.overlay # None
    BY HostAssumption DEF TypeInv, WorldTypes
  <2>4. QED
    BY <2>2, <2>3 DEF MismatchShown
<1> HIDE DEF Inv
<1>4. QED
  BY <1>1, <1>2, <1>3, PTL DEF Spec
=============================================================================
