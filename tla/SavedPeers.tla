------------------------------ MODULE SavedPeers ------------------------------
(***************************************************************************)
(* The peers a data owner keeps (savedPeers of AppContext.tsx) and what    *)
(* the Peer page derives from them: whether the invite parses, the host to *)
(* talk to, and the phase of the peer.  No state of its own.               *)
(* A match and its allocation go together, one name stands for both.       *)
(***************************************************************************)
CONSTANTS Peers,      \* identifiers that createNewPeer hands out
          Hosts,      \* SFTP host addresses
          HostKeys,   \* SSH host keys
          Allocs,     \* allocations, each with its match
          Invites,    \* texts that parse as an invite until they expire
          AllocOf,    \* allocation of an invite
          HostOf,     \* its SFTP host, or None
          KeyOf,      \* the host key it pins, or None
          None        \* an empty field, a missing record

ASSUME InviteAssumption ==
  /\ AllocOf \in [Invites -> Allocs]
  /\ HostOf \in [Invites -> Hosts \cup {None}]
  /\ KeyOf \in [Invites -> HostKeys \cup {None}]

ASSUME NoneAssumption ==
  None \notin Hosts \cup HostKeys \cup Allocs \cup Invites \cup {"garbled", "ok"}

Texts == Invites \cup {None, "garbled"}

\* quota_warning counts as ok everywhere; "error" stands for the other failures.
SftpStatus == {"ok", "auth_failed", "host_key_mismatch", "error"}

SavedPeer ==
  [inviteJson : Texts, allocId : Allocs \cup {None},
   sftpHost : Hosts \cup {None}, manualSftpHost : Hosts \cup {None},
   ownerPublicKey : Allocs \cup {None},   \* keys are kept one per match
   responseJson : Allocs \cup {None},     \* the allocation it asks for
   hostKeyConfirmedForAllocId : Allocs \cup {None},
   lastSftpStatus : SftpStatus \cup {None},
   lastRepoMessage : BOOLEAN]

NewPeer ==
  [inviteJson |-> None, allocId |-> None, sftpHost |-> None,
   manualSftpHost |-> None, ownerPublicKey |-> None, responseJson |-> None,
   hostKeyConfirmedForAllocId |-> None, lastSftpStatus |-> None,
   lastRepoMessage |-> FALSE]

\* Session-only state of a peer.  A result carries the host and the invite that it
\* was asked for; busy has the buttons that wait for an answer.
Kinds == {"import", "generate", "submit", "probe", "verify", "connect", "backup"}

Result == [status : SftpStatus, host : Hosts, invite : Invites]

PeerSession ==
  [sftpResult : Result \cup {None}, repoResult : Result \cup {None},
   submitted : BOOLEAN, busy : SUBSET Kinds]

EmptySession ==
  [sftpResult |-> None, repoResult |-> None, submitted |-> FALSE, busy |-> {}]
-----------------------------------------------------------------------------
\* parseHostInviteBundle: a text is refused when it is malformed or out of date.
Parses(text, expired) == text \in Invites \ expired

EffectiveHost(p) == IF p.manualSftpHost # None THEN p.manualSftpHost ELSE p.sftpHost

HostKeyConfirmed(p) ==
  p.inviteJson \in Invites /\ p.hostKeyConfirmedForAllocId = AllocOf[p.inviteJson]

Connected(s) == s.repoResult # None /\ s.repoResult.status = "ok"

\* derivePhase.
PhaseWithKey(p, s) ==
  LET repoReady == p.lastRepoMessage \/ Connected(s)
      status    == IF s.sftpResult # None THEN s.sftpResult.status
                   ELSE p.lastSftpStatus
  IN  CASE s.sftpResult # None /\ status \in {"host_key_mismatch", "error"}
             -> "blocked"
        [] s.sftpResult # None /\ status = "auth_failed" -> "waiting_for_host"
        [] s.sftpResult # None /\ repoReady              -> "repo_ready"
        [] s.sftpResult = None /\ p.lastRepoMessage      -> "repo_ready"
        [] status = "ok"                                 -> "sftp_verified"
        [] status = "auth_failed"                        -> "waiting_for_host"
        [] OTHER                                         -> "response_ready"

Phase(p, s, expired) ==
  CASE p.inviteJson = None             -> "needs_invite"
    [] ~Parses(p.inviteJson, expired)  -> "invite_invalid"
    [] p.ownerPublicKey = None         -> "needs_key"
    [] OTHER                           -> PhaseWithKey(p, s)
-----------------------------------------------------------------------------
\* applyInviteText: what becomes of the peer ...
Cleared(p) ==
  [p EXCEPT !.inviteJson = None, !.allocId = None, !.sftpHost = None]

\* Variant: results of the invite before are kept.
Invited_KeepsStatus(p, i) ==
  [p EXCEPT !.inviteJson = i, !.allocId = AllocOf[i], !.sftpHost = HostOf[i],
            !.manualSftpHost = IF HostOf[i] # None THEN None ELSE @]

Invited(p, i) ==
  [p EXCEPT !.inviteJson = i, !.allocId = AllocOf[i], !.sftpHost = HostOf[i],
            !.manualSftpHost = IF HostOf[i] # None THEN None ELSE @,
            !.ownerPublicKey = None, !.responseJson = None,
            !.lastSftpStatus = None, !.lastRepoMessage = FALSE]

WithText(p, text, expired) ==
  CASE text = None           -> Cleared(p)
    [] Parses(text, expired) -> Invited(p, text)
    [] OTHER                 -> [p EXCEPT !.inviteJson = text]

\* Variant: results on the page survive another invite.
SessionWithText_Kept(s, text, expired) == s

\* ... and of its session.
SessionWithText(s, text, expired) ==
  CASE text = None           -> [s EXCEPT !.sftpResult = None, !.repoResult = None]
    [] Parses(text, expired) -> [s EXCEPT !.sftpResult = None, !.repoResult = None,
                                          !.submitted = FALSE]
    [] OTHER                 -> s

\* handleGenerateKey after its await.
WithKey(p, i) ==
  [p EXCEPT !.ownerPublicKey = AllocOf[i], !.responseJson = AllocOf[i]]
=============================================================================
