------------------------------- MODULE PeerPage -------------------------------
(***************************************************************************)
(* The Peer page (Peer.tsx) over the saved peers of AppContext.tsx, and    *)
(* the commands it calls.  A handler that awaits a command goes on with    *)
(* the peer of the render it was created in: its call carries that record, *)
(* and its end writes the record back with a field changed, whatever the   *)
(* page has made of the peer meanwhile.  Commands run one after the other  *)
(* and their answers come back in order.  Leaving the page drops its       *)
(* sessions, not its calls.  The master password is set, source folders    *)
(* are chosen; labels, probe results, open sections and what the page reports  *)
(* to the dashboard are left out, and the two clicks that delete a peer    *)
(* are one step.                                                           *)
(***************************************************************************)
EXTENDS SavedPeers, Naturals, Sequences

CONSTANTS MaxEdits,    \* bound: edits by the user
          MaxClicks,   \* bound: calls he starts
          MaxVisits,   \* bound: times the page is opened
          MaxCalls     \* bound: calls under way

ASSUME BoundsAssumption ==
  MaxEdits \in Nat /\ MaxClicks \in Nat /\ MaxVisits \in Nat /\ MaxCalls \in Nat

VARIABLES savedPeers,   \* context: record of each peer, or None
          visit,        \* how often the page was opened
          open,         \* the page is shown
          selectedId,
          sessions,
          generating,   \* generateRef
          calls,        \* commands on their way to the Rust process
          answers,      \* answers on their way back
          known,        \* known_fingerprints.json as it is read
          configs,      \* Kopia configuration files, one per target
          expired,      \* invites that were out of date at the last render
          edits,
          clicks,
          overlapped    \* history: two calls were under way at once

page    == <<visit, open, selectedId, sessions, generating>>
wires   == <<calls, answers>>
files   == <<known, configs>>
history == <<edits, clicks, overlapped>>
vars    == <<savedPeers, page, wires, files, expired, history>>

Outcomes == SftpStatus \cup {"failed", "garbled", None} \cup Invites

Call == [kind : Kinds, id : Peers, saved : SavedPeer, invite : Invites \cup {None},
         host : Hosts \cup {None}, visit : 0..MaxVisits, outcome : Outcomes,
         key : HostKeys \cup {None}]

\* The commands and the answers under way.
Pending == {calls[i] : i \in 1..Len(calls)} \cup {answers[i] : i \in 1..Len(answers)}

Existing == {p \in Peers : savedPeers[p] # None}

\* What an earlier session may have left of a peer: its key made and its host key
\* confirmed, and perhaps its repository connected.
Prepared(i) ==
  [WithKey(Invited(NewPeer, i), i) EXCEPT !.hostKeyConfirmedForAllocId = AllocOf[i]]

Repository(i) ==
  [Prepared(i) EXCEPT !.lastSftpStatus = "ok", !.lastRepoMessage = TRUE]

StoredPeers(i) ==
  {Prepared(i)} \cup (IF HostOf[i] # None THEN {Repository(i)} ELSE {})

StoredInvites == {i \in Invites : \E p \in Existing : savedPeers[p] \in StoredPeers(i)}

Init ==
  /\ savedPeers \in [Peers -> {None} \cup UNION {StoredPeers(i) : i \in Invites}]
  /\ \A p, q \in Existing : p = q   \* one stored peer will do
  /\ visit = 0
  /\ open = FALSE
  /\ selectedId = None
  /\ sessions = [p \in Peers |-> EmptySession]
  /\ generating = FALSE
  /\ calls = <<>>
  /\ answers = <<>>
  /\ configs = {<<HostOf[i], AllocOf[i]>> :
                 i \in {j \in StoredInvites : \E p \in Existing :
                                             savedPeers[p] = Repository(j)}}
  /\ known \in [Hosts -> HostKeys \cup {None}]
  /\ \A h \in Hosts : known[h] # None <=> \E t \in configs : t[1] = h
  /\ expired = {}
  /\ edits = 0
  /\ clicks = 0
  /\ overlapped = FALSE
-----------------------------------------------------------------------------
\* A peer is shown by default: the effect that runs whenever the list changes.
DefaultSelection(selected, existing) ==
  IF selected # None \/ existing = {} THEN {selected} ELSE existing

OpenPage ==
  /\ ~open
  /\ visit < MaxVisits
  /\ visit' = visit + 1
  /\ open' = TRUE
  /\ selectedId' \in DefaultSelection(None, Existing)
  /\ UNCHANGED <<savedPeers, sessions, generating, wires, files, expired, history>>

\* The state of the component is gone with it.
Unmount ==
  /\ open' = FALSE
  /\ selectedId' = None
  /\ sessions' = [p \in Peers |-> EmptySession]
  /\ generating' = FALSE

LeavePage ==
  /\ open
  /\ Unmount
  /\ UNCHANGED <<savedPeers, visit, wires, files, expired, history>>

\* load_known_hosts: a file that cannot be parsed is read as one without keys.
Forgotten == [h \in Hosts |-> None]

\* A verification under way may have known_fingerprints.json open for writing.
Verifying == calls # <<>> /\ Head(calls).kind = "verify"

\* The application ends; what AppContext has saved is there at the next start.  The
\* file that was being rewritten in place is torn.
Restart ==
  /\ Pending # {}
  /\ Unmount
  /\ calls' = <<>>
  /\ answers' = <<>>
  /\ known' \in IF Verifying THEN {known, Forgotten} ELSE {known}
  /\ UNCHANGED <<savedPeers, visit, configs, expired, history>>

\* An invite that no peer holds is as good as a garbled text when it is out of date.
Expire(i) ==
  /\ i \notin expired
  /\ \E p \in Existing : savedPeers[p].inviteJson = i
  /\ expired' = expired \cup {i}
  /\ UNCHANGED <<savedPeers, page, wires, files, history>>
-----------------------------------------------------------------------------
\* The user edits something: the page is open, the bound not reached.
EditStep ==
  /\ open
  /\ edits < MaxEdits
  /\ edits' = edits + 1
  /\ UNCHANGED <<visit, open, generating, wires, files, expired,
                 clicks, overlapped>>

OnSelected(p) == selectedId = p /\ p \in Existing

Invite(p) == Parses(savedPeers[p].inviteJson, expired)

\* Which of the controls in its four sections a peer has, and whether they work.
\* 1, Invite: the host override is shown below a valid invite.
ShowsOverride(p) == Invite(p)

\* 2, Response.
CanGenerate(p) == Invite(p) /\ "generate" \notin sessions[p].busy

CanSubmit(p) ==
  /\ savedPeers[p].responseJson # None
  /\ Invite(p)
  /\ "submit" \notin sessions[p].busy
  /\ ~sessions[p].submitted

\* 3, Connect: the check box below the host key, the three buttons.
CanConfirm(p) == Invite(p) /\ savedPeers[p].ownerPublicKey # None

CanConnect(p) ==
  /\ Invite(p)
  /\ savedPeers[p].ownerPublicKey # None
  /\ EffectiveHost(savedPeers[p]) # None

CanProbe(p) == CanConnect(p) /\ "probe" \notin sessions[p].busy

CanVerify(p) ==
  CanConnect(p) /\ HostKeyConfirmed(savedPeers[p]) /\ "verify" \notin sessions[p].busy

CanCreateRepository(p) ==
  /\ Invite(p)
  /\ EffectiveHost(savedPeers[p]) # None
  /\ sessions[p].sftpResult # None
  /\ sessions[p].sftpResult.status = "ok"
  /\ "connect" \notin sessions[p].busy

\* 4, Backup.
CanRunBackup(p) ==
  /\ Phase(savedPeers[p], sessions[p], expired) = "repo_ready"
  /\ EffectiveHost(savedPeers[p]) # None
  /\ "backup" \notin sessions[p].busy

CreateNewPeer(p) ==
  /\ EditStep
  /\ p \notin Existing
  /\ \A c \in Pending : c.id # p
  /\ sessions[p] = EmptySession
  /\ savedPeers' = [savedPeers EXCEPT ![p] = NewPeer]
  /\ selectedId' = p
  /\ UNCHANGED sessions

ApplyInviteText(p, text) ==
  /\ EditStep
  /\ OnSelected(p)
  /\ text # savedPeers[p].inviteJson
  /\ savedPeers' = [savedPeers EXCEPT ![p] = WithText(@, text, expired)]
  /\ sessions' = [sessions EXCEPT ![p] = SessionWithText(@, text, expired)]
  /\ UNCHANGED selectedId

\* The host address override: emptied, or an address that the invite does not give.
EditManualHost(p, h) ==
  /\ EditStep
  /\ OnSelected(p)
  /\ ShowsOverride(p)
  /\ h # savedPeers[p].manualSftpHost
  /\ h = None \/ h # savedPeers[p].sftpHost
  /\ savedPeers' = [savedPeers EXCEPT ![p].manualSftpHost = h]
  /\ sessions' = [sessions EXCEPT ![p].sftpResult = None, ![p].repoResult = None]
  /\ UNCHANGED selectedId

ConfirmHostKey(p, checked) ==
  /\ EditStep
  /\ OnSelected(p)
  /\ CanConfirm(p)
  /\ checked # HostKeyConfirmed(savedPeers[p])
  /\ savedPeers' = [savedPeers EXCEPT ![p].hostKeyConfirmedForAllocId =
                      IF checked THEN AllocOf[savedPeers[p].inviteJson] ELSE None]
  /\ UNCHANGED <<selectedId, sessions>>

DeletePeer(p) ==
  /\ EditStep
  /\ p \in Existing
  /\ savedPeers' = [savedPeers EXCEPT ![p] = None]
  /\ IF selectedId = p THEN selectedId' \in DefaultSelection(None, Existing \ {p})
     ELSE UNCHANGED selectedId
  /\ UNCHANGED sessions

SelectPeer(p) ==
  /\ open
  /\ p \in Existing
  /\ selectedId # p
  /\ selectedId' = p
  /\ UNCHANGED <<savedPeers, visit, open, sessions, generating, wires, files, expired,
                 history>>
-----------------------------------------------------------------------------
\* A click on the button of a command: the handler runs up to its await.
Click(kind, p) ==
  /\ open
  /\ OnSelected(p)
  /\ Len(calls) + Len(answers) < MaxCalls
  /\ clicks < MaxClicks
  /\ clicks' = clicks + 1
  /\ calls' = Append(calls,
       [kind |-> kind, id |-> p, saved |-> savedPeers[p],
        invite |-> IF savedPeers[p].inviteJson \in Invites
                   THEN savedPeers[p].inviteJson ELSE None,
        host |-> EffectiveHost(savedPeers[p]), visit |-> visit, outcome |-> None,
        key |-> None])
  /\ overlapped' = (overlapped \/ Pending # {})
  /\ UNCHANGED <<savedPeers, visit, open, selectedId, answers, files, expired, edits>>

Busy(kind, p) == sessions' = [sessions EXCEPT ![p].busy = @ \cup {kind}]

HandleFileImport(p) ==
  /\ Click("import", p)
  /\ UNCHANGED <<sessions, generating>>

HandleGenerateKey(p) ==
  /\ Click("generate", p)
  /\ CanGenerate(p)
  /\ ~generating
  /\ generating' = TRUE
  /\ Busy("generate", p)

HandleAutoSubmit(p) ==
  /\ Click("submit", p)
  /\ CanSubmit(p)
  /\ Busy("submit", p)
  /\ UNCHANGED generating

HandleProbe(p) ==
  /\ Click("probe", p)
  /\ CanProbe(p)
  /\ Busy("probe", p)
  /\ UNCHANGED generating

HandleVerify(p) ==
  /\ Click("verify", p)
  /\ CanVerify(p)
  /\ Busy("verify", p)
  /\ UNCHANGED generating

HandleRepoConnect(p) ==
  /\ Click("connect", p)
  /\ CanCreateRepository(p)
  /\ Busy("connect", p)
  /\ UNCHANGED generating

HandleRunBackup(p) ==
  /\ Click("backup", p)
  /\ CanRunBackup(p)
  /\ Busy("backup", p)
  /\ UNCHANGED generating
-----------------------------------------------------------------------------
\* The Rust process runs the first call.
Run(kind) ==
  /\ calls # <<>>
  /\ Head(calls).kind = kind
  /\ calls' = Tail(calls)
  /\ UNCHANGED <<savedPeers, page, expired, history>>

Reply(outcome, key) ==
  answers' = Append(answers, [Head(calls) EXCEPT !.outcome = outcome, !.key = key])

Target == <<Head(calls).host, AllocOf[Head(calls).invite]>>

\* The user picks the file of an invite, or closes the dialog.
RunImport ==
  /\ Run("import")
  /\ \E text \in Invites \cup {"failed"} : Reply(text, None)
  /\ UNCHANGED files

\* These change nothing that is kept here, and may fail.
Replied == /\ \E outcome \in {"ok", "failed"} : Reply(outcome, None)
           /\ UNCHANGED files

\* generate_owner_ssh_key: the key of a match is made once.
RunGenerate == Run("generate") /\ Replied

\* submit_peer_response: the host's peer API is asked by the Rust process.
RunSubmit == Run("submit") /\ Replied

\* probe_remote_target tries to connect to the port.
RunProbe == Run("probe") /\ Replied

\* Variant: a host key that has changed is stored like a new one.
TofuChanged_Never(key) == FALSE

\* check_fingerprint_tofu.
TofuChanged(key) == known[Head(calls).host] \notin {None, key}

\* save_fingerprint_tofu rewrites the whole file in place and ignores that it fails.
SaveFingerprint(key) ==
  known' \in {[known EXCEPT ![Head(calls).host] = key], Forgotten}

\* verify_sftp_target: the host may be away, present any key, refuse the login, lack
\* the path (the key is not stored then) or fail the write test (it is).  A key of
\* which there is no fingerprint is neither checked nor stored.
RunVerify ==
  /\ Run("verify")
  /\ \/ /\ \E outcome \in {"auth_failed", "error", "ok"} : Reply(outcome, None)
        /\ UNCHANGED known
     \/ \E key \in HostKeys :
          /\ TofuChanged(key)
          /\ Reply("host_key_mismatch", key)
          /\ UNCHANGED known
     \/ \E key \in HostKeys :
          /\ ~TofuChanged(key)
          /\ \/ /\ \E outcome \in {"auth_failed", "error"} : Reply(outcome, key)
                /\ UNCHANGED known
             \/ /\ \E outcome \in {"ok", "error"} : Reply(outcome, key)
                /\ SaveFingerprint(key)
  /\ UNCHANGED configs

\* initialize_kopia_sftp_repository.
RunConnect ==
  /\ Run("connect")
  /\ \/ Target \in configs /\ Reply("ok", None) /\ UNCHANGED configs
     \/ /\ Target \notin configs
        /\ known[Head(calls).host] # None
        /\ Reply("ok", None)
        /\ configs' = configs \cup {Target}
     \/ Target \notin configs /\ Reply("failed", None) /\ UNCHANGED configs
  /\ UNCHANGED known

\* run_real_sftp_backup_from_config.
RunBackup ==
  /\ Run("backup")
  /\ \/ Target \in configs /\ Reply("ok", None)
     \/ Reply("failed", None)
  /\ UNCHANGED files
-----------------------------------------------------------------------------
\* The handler goes on after its await, in the page it was started from if that is
\* still shown.
Resume(kind) ==
  /\ answers # <<>>
  /\ Head(answers).kind = kind
  /\ answers' = Tail(answers)
  /\ UNCHANGED <<visit, open, calls, files, expired, history>>

Live(a) == open /\ a.visit = visit

PatchSession(a, session) ==
  sessions' = IF Live(a) THEN [sessions EXCEPT ![a.id] = session] ELSE sessions

Idle(a) == [sessions[a.id] EXCEPT !.busy = @ \ {a.kind}]

\* upsertSavedPeer replaces the whole record, or adds it.
Upsert(a, record) ==
  /\ savedPeers' = [savedPeers EXCEPT ![a.id] = record]
  /\ IF open THEN selectedId' \in DefaultSelection(selectedId, Existing \cup {a.id})
     ELSE UNCHANGED selectedId

NoUpsert == UNCHANGED <<savedPeers, selectedId>>

\* Variant: what a closed dialog returns is taken for a text.
FileImported_Cancelled ==
  /\ Resume("import")
  /\ LET a == Head(answers)
     IN  /\ Upsert(a, WithText(a.saved, a.outcome, expired))
         /\ PatchSession(a, SessionWithText(sessions[a.id], a.outcome, expired))
  /\ UNCHANGED generating

FileImported ==
  /\ Resume("import")
  /\ LET a == Head(answers)
     IN  IF a.outcome = "failed"
         THEN NoUpsert /\ UNCHANGED sessions
         ELSE /\ Upsert(a, WithText(a.saved, a.outcome, expired))
              /\ PatchSession(a, SessionWithText(sessions[a.id], a.outcome, expired))
  /\ UNCHANGED generating

KeyGenerated ==
  /\ Resume("generate")
  /\ LET a == Head(answers)
     IN  /\ IF a.outcome = "ok" THEN Upsert(a, WithKey(a.saved, a.invite)) ELSE NoUpsert
         /\ PatchSession(a, Idle(a))
         /\ generating' = (generating /\ ~Live(a))

Submitted ==
  /\ Resume("submit")
  /\ LET a == Head(answers)
     IN  PatchSession(a, [Idle(a) EXCEPT !.submitted = (a.outcome = "ok")])
  /\ NoUpsert
  /\ UNCHANGED generating

\* The probe may throw.
Probed ==
  /\ Resume("probe")
  /\ LET a == Head(answers)
     IN  /\ PatchSession(a, Idle(a))
         /\ Upsert(a, a.saved) \/ (a.outcome = "failed" /\ NoUpsert)
  /\ UNCHANGED generating

\* The page compares the host's key with the one that the invite pins.
VerifyStatus(a) ==
  IF a.key # None /\ KeyOf[a.invite] \notin {None, a.key}
  THEN "host_key_mismatch" ELSE a.outcome

Verified ==
  /\ Resume("verify")
  /\ LET a == Head(answers)
         s == VerifyStatus(a)
     IN  /\ PatchSession(a, [Idle(a) EXCEPT !.sftpResult =
                               [status |-> s, host |-> a.host, invite |-> a.invite]])
         /\ Upsert(a, [a.saved EXCEPT !.lastSftpStatus = s])
  /\ UNCHANGED generating

\* Variant: the catch block forgets the button.
RepoConnected_StaysBusy ==
  /\ Resume("connect")
  /\ LET a == Head(answers)
         s == IF a.outcome = "ok" THEN "ok" ELSE "error"
         r == [status |-> s, host |-> a.host, invite |-> a.invite]
     IN  IF a.outcome = "ok"
         THEN /\ PatchSession(a, [Idle(a) EXCEPT !.repoResult = r])
              /\ Upsert(a, [a.saved EXCEPT !.lastRepoMessage = TRUE])
         ELSE /\ PatchSession(a, [sessions[a.id] EXCEPT !.repoResult = r])
              /\ NoUpsert
  /\ UNCHANGED generating

RepoConnected ==
  /\ Resume("connect")
  /\ LET a == Head(answers)
         s == IF a.outcome = "ok" THEN "ok" ELSE "error"
         r == [status |-> s, host |-> a.host, invite |-> a.invite]
     IN  /\ PatchSession(a, [Idle(a) EXCEPT !.repoResult = r])
         /\ IF a.outcome = "ok"
            THEN Upsert(a, [a.saved EXCEPT !.lastRepoMessage = TRUE])
            ELSE NoUpsert
  /\ UNCHANGED generating

BackedUp ==
  /\ Resume("backup")
  /\ LET a == Head(answers)
     IN  PatchSession(a, Idle(a))
  /\ NoUpsert
  /\ UNCHANGED generating
-----------------------------------------------------------------------------
Edit(p) ==
  \/ CreateNewPeer(p)
  \/ \E text \in Texts : ApplyInviteText(p, text)
  \/ \E h \in Hosts \cup {None} : EditManualHost(p, h)
  \/ \E checked \in BOOLEAN : ConfirmHostKey(p, checked)
  \/ DeletePeer(p)
  \/ SelectPeer(p)

Start(p) ==
  \/ HandleFileImport(p)
  \/ HandleGenerateKey(p)
  \/ HandleAutoSubmit(p)
  \/ HandleProbe(p)
  \/ HandleVerify(p)
  \/ HandleRepoConnect(p)
  \/ HandleRunBackup(p)

Execute ==
  \/ RunImport
  \/ RunGenerate
  \/ RunSubmit
  \/ RunProbe
  \/ RunVerify
  \/ RunConnect
  \/ RunBackup

Answer ==
  \/ FileImported
  \/ KeyGenerated
  \/ Submitted
  \/ Probed
  \/ Verified
  \/ RepoConnected
  \/ BackedUp

Next ==
  \/ OpenPage
  \/ LeavePage
  \/ Restart
  \/ \E i \in Invites : Expire(i)
  \/ \E p \in Peers : Edit(p) \/ Start(p)
  \/ Execute
  \/ Answer

Spec == Init /\ [][Next]_vars
-----------------------------------------------------------------------------
\* The variables have their types.
TypeOK ==
  /\ savedPeers \in [Peers -> SavedPeer \cup {None}]
  /\ visit \in 0..MaxVisits
  /\ open \in BOOLEAN
  /\ selectedId \in Peers \cup {None}
  /\ sessions \in [Peers -> PeerSession]
  /\ generating \in BOOLEAN
  /\ calls \in Seq(Call)
  /\ answers \in Seq(Call)
  /\ known \in [Hosts -> HostKeys \cup {None}]
  /\ configs \in SUBSET (Hosts \X Allocs)
  /\ expired \in SUBSET Invites
  /\ edits \in 0..MaxEdits
  /\ clicks \in 0..MaxClicks
  /\ overlapped \in BOOLEAN

\* Whatever handlers overlap, the key, the response and the last results that are
\* kept for a peer belong to the allocation of the invite that is kept with them:
\* the host is never sent, nor the page shown, those of an invite before.
RecordIsOneInvites ==
  \A p \in Existing :
    LET r == savedPeers[p]
    IN  r.inviteJson \in Invites /\ r.allocId = AllocOf[r.inviteJson] =>
          /\ r.ownerPublicKey \in {None, AllocOf[r.inviteJson]}
          /\ r.responseJson = r.ownerPublicKey
          /\ r.ownerPublicKey = None => r.lastSftpStatus = None /\ ~r.lastRepoMessage

\* A host key that was stored on first use is never replaced by another that a host
\* presents: it is lost only together with all the others, when a verification is cut
\* short, or fails, in the middle of rewriting the file.  (After that the next key of
\* the host is trusted like a first one.)
KnownKeyIsKept ==
  [][\A h \in Hosts :
       known[h] # None => known'[h] = known[h] \/ (Verifying /\ known' = Forgotten)]_vars

\* As long as no two calls have overlapped, a success on the page is one of the host
\* and the invite that the page shows with it, even if the peer was edited, deleted
\* or left while the call was under way.  (A failed connection writes no record back
\* and may be shown with a later invite.)
ResultsMatchTarget ==
  ~overlapped =>
    \A p \in Existing : Parses(savedPeers[p].inviteJson, expired) =>
      \A r \in {sessions[p].sftpResult, sessions[p].repoResult} \ {None} :
        r.status = "ok" =>
          /\ r.invite = savedPeers[p].inviteJson
          /\ r.host = EffectiveHost(savedPeers[p])

\* A button that waits has a call under way that will bring it back, whatever the
\* command answers and whatever happened to the page since.
BusyHasCall ==
  open => \A p \in Peers : \A k \in sessions[p].busy :
            \E c \in Pending : c.kind = k /\ c.id = p /\ c.visit = visit
=============================================================================
