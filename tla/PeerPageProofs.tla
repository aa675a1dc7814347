---------------------------- MODULE PeerPageProofs ----------------------------
(***************************************************************************)
(* For any peers, invites, hosts and bounds: the record that is kept of a  *)
(* peer is that of one invite, a known host key is kept, a button that     *)
(* waits will be given back.                                               *)
(***************************************************************************)
EXTENDS PeerPage, SequenceTheorems, TLAPS

Els(q) == {q[i] : i \in 1..Len(q)}

\* The elements of a sequence without its first, and with one more.
LEMMA TailEls ==
  ASSUME NEW S, NEW q \in Seq(S), q # <<>>
  PROVE  /\ Head(q) \in Els(q)
         /\ Els(Tail(q)) \subseteq Els(q)
         /\ \A x \in Els(q) : x = Head(q) \/ x \in Els(Tail(q))
<1>1. /\ Len(q) \in Nat \ {0}
      /\ Len(Tail(q)) = Len(q) - 1
      /\ \A i \in 1..Len(Tail(q)) : Tail(q)[i] = q[i+1]
      /\ Head(q) = q[1]
  BY HeadTailProperties, EmptySeq
<1>2. Head(q) \in Els(q)
  BY <1>1 DEF Els
<1>3. ASSUME NEW x \in Els(Tail(q))
      PROVE  x \in Els(q)
  <2>1. PICK i \in 1..Len(Tail(q)) : x = Tail(q)[i]
    BY DEF Els
  <2>2. i + 1 \in 1..Len(q) /\ x = q[i+1]
    BY <1>1, <2>1
  <2>3. QED
    BY <2>2 DEF Els
<1>4. ASSUME NEW x \in Els(q), x # Head(q)
      PROVE  x \in Els(Tail(q))
  <2>1. PICK i \in 1..Len(q) : x = q[i]
    BY DEF Els
  <2>2. i # 1
    BY <1>1, <1>4, <2>1
  <2>3. i - 1 \in 1..Len(Tail(q)) /\ x = Tail(q)[i-1]
    BY <1>1, <2>1, <2>2
  <2>4. QED
    BY <2>3 DEF Els
<1>5. QED
  BY <1>2, <1>3, <1>4

LEMMA AppendEls ==
  ASSUME NEW S, NEW q \in Seq(S), NEW e \in S
  PROVE  Els(Append(q, e)) = Els(q) \cup {e}
<1>1. /\ Len(q) \in Nat
      /\ Len(Append(q, e)) = Len(q) + 1
      /\ \A i \in 1..Len(q) : Append(q, e)[i] = q[i]
      /\ Append(q, e)[Len(q) + 1] = e
  BY AppendProperties, LenProperties
<1>2. ASSUME NEW x \in Els(Append(q, e))
      PROVE  x \in Els(q) \cup {e}
  <2>1. PICK i \in 1..Len(Append(q, e)) : x = Append(q, e)[i]
    BY DEF Els
  <2>2. CASE i = Len(q) + 1
    BY <1>1, <2>1, <2>2
  <2>3. CASE i \in 1..Len(q)
    BY <1>1, <2>1, <2>3 DEF Els
  <2>4. QED
    BY <1>1, <2>2, <2>3
<1>3. ASSUME NEW x \in Els(q)
      PROVE  x \in Els(Append(q, e))
  <2>1. PICK i \in 1..Len(q) : x = q[i]
    BY DEF Els
  <2>2. i \in 1..Len(Append(q, e)) /\ x = Append(q, e)[i]
    BY <1>1, <2>1
  <2>3. QED
    BY <2>2 DEF Els
<1>4. e \in Els(Append(q, e))
  <2>1. Len(q) + 1 \in 1..Len(Append(q, e))
    BY <1>1
  <2>2. QED
    BY <1>1, <2>1 DEF Els
<1>5. QED
  BY <1>2, <1>3, <1>4

LEMMA NoEls == Els(<<>>) = {}
  BY DEF Els

LEMMA PendingEls ==
  /\ Pending = Els(calls) \cup Els(answers)
  /\ Pending' = Els(calls') \cup Els(answers')
  BY DEF Pending, Els
-----------------------------------------------------------------------------
\* The visits of the page that the commands of a queue were asked in never decrease.
Sorted(q) == \A i, j \in 1..Len(q) : i <= j => q[i].visit <= q[j].visit

LEMMA SortedTail ==
  ASSUME NEW q \in Seq(Call), q # <<>>, Sorted(q)
  PROVE  Sorted(Tail(q)) /\ \A x \in Els(q) : Head(q).visit <= x.visit
<1>1. /\ Len(q) \in Nat \ {0}
      /\ Len(Tail(q)) = Len(q) - 1
      /\ \A i \in 1..Len(Tail(q)) : Tail(q)[i] = q[i+1]
      /\ Head(q) = q[1]
  BY HeadTailProperties, EmptySeq
<1>2. Sorted(Tail(q))
  <2> SUFFICES ASSUME NEW i \in 1..Len(Tail(q)), NEW j \in 1..Len(Tail(q)), i <= j
               PROVE  Tail(q)[i].visit <= Tail(q)[j].visit
    BY DEF Sorted
  <2>1. i + 1 \in 1..Len(q) /\ j + 1 \in 1..Len(q) /\ i + 1 <= j + 1
    BY <1>1
  <2>2. q[i+1].visit <= q[j+1].visit
    BY <2>1 DEF Sorted
  <2>3. QED
    BY <1>1, <2>2
<1>3. ASSUME NEW x \in Els(q)
      PROVE  Head(q).visit <= x.visit
  <2>1. PICK i \in 1..Len(q) : x = q[i]
    BY DEF Els
  <2>2. 1 \in 1..Len(q) /\ 1 <= i
    BY <1>1
  <2>3. q[1].visit <= q[i].visit
    BY <2>2 DEF Sorted
  <2>4. QED
    BY <1>1, <2>1, <2>3
<1>4. QED
  BY <1>2, <1>3

LEMMA SortedAppend ==
  ASSUME NEW q \in Seq(Call), Sorted(q), NEW e \in Call,
         \A x \in Els(q) : x.visit <= e.visit
  PROVE  Sorted(Append(q, e))
<1>1. /\ Len(q) \in Nat
      /\ Len(Append(q, e)) = Len(q) + 1
      /\ \A i \in 1..Len(q) : Append(q, e)[i] = q[i]
      /\ Append(q, e)[Len(q) + 1] = e
  BY AppendProperties, LenProperties
<1> SUFFICES ASSUME NEW i \in 1..Len(Append(q, e)), NEW j \in 1..Len(Append(q, e)), i <= j
             PROVE  Append(q, e)[i].visit <= Append(q, e)[j].visit
  BY DEF Sorted
<1>2. CASE j \in 1..Len(q)
  <2>1. i \in 1..Len(q)
    BY <1>1, <1>2
  <2>2. QED
    BY <1>1, <1>2, <2>1 DEF Sorted
<1>3. CASE j = Len(q) + 1 /\ i \in 1..Len(q)
  <2>1. q[i] \in Els(q)
    BY <1>3 DEF Els
  <2>2. QED
    BY <1>1, <1>3, <2>1
<1>4. CASE j = Len(q) + 1 /\ i = Len(q) + 1
  <2>1. e.visit \in Nat
    BY BoundsAssumption DEF Call
  <2>2. QED
    BY <1>1, <1>4, <2>1
<1>5. QED
  BY <1>1, <1>2, <1>3, <1>4
-----------------------------------------------------------------------------
\* A record, once the invites in gone are out of date: the key and the response are of
\* its allocation, results need a key, an invite that parses has its allocation there.
Sound(r, gone) ==
  /\ r \in SavedPeer
  /\ r.allocId # None => r.ownerPublicKey \in {None, r.allocId}
  /\ r.responseJson = r.ownerPublicKey
  /\ r.ownerPublicKey = None => r.lastSftpStatus = None /\ ~r.lastRepoMessage
  /\ Parses(r.inviteJson, gone) => r.allocId = AllocOf[r.inviteJson]

LEMMA NewPeerIsSound ==
  ASSUME NEW gone
  PROVE  Sound(NewPeer, gone)
<1>1. None \notin Invites
  BY NoneAssumption
<1>2. QED
  BY <1>1 DEF NewPeer, Sound, SavedPeer, Texts, Parses

LEMMA StillSound ==
  ASSUME NEW r, NEW gone, Sound(r, gone), NEW more, gone \subseteq more
  PROVE  Sound(r, more)
  BY DEF Sound, Parses

LEMMA InvitedIsSound ==
  ASSUME NEW r \in SavedPeer, NEW gone, NEW i \in Invites
  PROVE  Sound(Invited(r, i), gone) /\ Invited(r, i).ownerPublicKey = None
<1>1. AllocOf[i] \in Allocs /\ HostOf[i] \in Hosts \cup {None}
  BY InviteAssumption
<1>2. Invited(r, i) \in SavedPeer
  BY <1>1 DEF Invited, SavedPeer, Texts
<1>3. /\ Invited(r, i).inviteJson = i
      /\ Invited(r, i).allocId = AllocOf[i]
      /\ Invited(r, i).ownerPublicKey = None
      /\ Invited(r, i).responseJson = None
      /\ Invited(r, i).lastSftpStatus = None
      /\ Invited(r, i).lastRepoMessage = FALSE
  BY DEF Invited, SavedPeer
<1>4. QED
  BY <1>2, <1>3 DEF Sound

\* An invite that is pasted, or a text that is none.
LEMMA WithTextIsSound ==
  ASSUME NEW r, NEW gone, Sound(r, gone), NEW text \in Texts
  PROVE  /\ Sound(WithText(r, text, gone), gone)
         /\ Parses(WithText(r, text, gone).inviteJson, gone) => Parses(text, gone)
<1>1. r \in SavedPeer
  BY DEF Sound
<1>2. CASE text = None
  <2>1. ~Parses(None, gone)
    BY NoneAssumption DEF Parses
  <2>2. /\ Cleared(r) \in SavedPeer
        /\ Cleared(r).inviteJson = None
        /\ Cleared(r).allocId = None
        /\ Cleared(r).ownerPublicKey = r.ownerPublicKey
        /\ Cleared(r).responseJson = r.responseJson
        /\ Cleared(r).lastSftpStatus = r.lastSftpStatus
        /\ Cleared(r).lastRepoMessage = r.lastRepoMessage
    BY <1>1 DEF Cleared, SavedPeer, Texts
  <2>3. WithText(r, text, gone) = Cleared(r)
    BY <1>2, <2>1 DEF WithText
  <2>4. QED
    BY <2>1, <2>2, <2>3 DEF Sound
<1>3. CASE text # None /\ Parses(text, gone)
  <2>1. WithText(r, text, gone) = Invited(r, text)
    BY <1>3 DEF WithText
  <2>2. QED
    BY <1>1, <1>3, <2>1, InvitedIsSound DEF Parses
<1>4. CASE text # None /\ ~Parses(text, gone)
  <2> DEFINE w == [r EXCEPT !.inviteJson = text]
  <2>1. WithText(r, text, gone) = w
    BY <1>1, <1>4 DEF WithText, SavedPeer
  <2>2. /\ w \in SavedPeer
        /\ w.inviteJson = text
        /\ w.allocId = r.allocId
        /\ w.ownerPublicKey = r.ownerPublicKey
        /\ w.responseJson = r.responseJson
        /\ w.lastSftpStatus = r.lastSftpStatus
        /\ w.lastRepoMessage = r.lastRepoMessage
    BY <1>1 DEF SavedPeer
  <2>3. ~Parses(w.inviteJson, gone)
    BY <1>4, <2>2
  <2>4. Sound(w, gone)
    <3> HIDE DEF w
    <3>1. QED
      BY <2>2, <2>3 DEF Sound
  <2>5. QED
    BY <2>1, <2>3, <2>4
<1>5. QED
  BY <1>2, <1>3, <1>4

\* A key that is made for the allocation of the record.
LEMMA WithKeyIsSound ==
  ASSUME NEW r, NEW gone, Sound(r, gone), NEW i \in Invites, r.allocId = AllocOf[i]
  PROVE  Sound(WithKey(r, i), gone) /\ WithKey(r, i).ownerPublicKey # None
<1>1. r \in SavedPeer
  BY DEF Sound
<1>2. AllocOf[i] \in Allocs /\ AllocOf[i] # None
  BY InviteAssumption, NoneAssumption
<1>3. /\ WithKey(r, i) \in SavedPeer
      /\ WithKey(r, i).ownerPublicKey = AllocOf[i]
      /\ WithKey(r, i).responseJson = AllocOf[i]
      /\ WithKey(r, i).allocId = r.allocId
      /\ WithKey(r, i).inviteJson = r.inviteJson
  BY <1>1, <1>2 DEF WithKey, SavedPeer
<1>4. QED
  BY <1>2, <1>3 DEF Sound
-----------------------------------------------------------------------------
\* What a command was asked with: its record is sound, a key is generated for the
\* allocation of its invite, and who talks to the host has a key and its address.
SoundCall(c, gone) ==
  /\ Sound(c.saved, gone)
  /\ c.kind = "generate" => c.invite \in Invites /\ c.saved.allocId = AllocOf[c.invite]
  /\ c.kind \in {"probe", "verify"} => c.saved.ownerPublicKey # None
  /\ c.kind = "connect" => c.saved.ownerPublicKey # None
  /\ c.kind \in {"verify", "connect"} => c.host \in Hosts /\ c.invite \in Invites

\* What it may be answered.
SoundAnswer(a) ==
  /\ a.kind = "verify" => a.outcome \in SftpStatus
  /\ a.kind = "import" => a.outcome \in Invites \cup {"failed"}

Records == \A p \in Existing : Sound(savedPeers[p], expired)

Wires ==
  /\ \A c \in Pending : SoundCall(c, expired)
  /\ \A a \in Els(answers) : SoundAnswer(a)

InOrder ==
  /\ Sorted(calls)
  /\ Sorted(answers)
  /\ \A a \in Els(answers), c \in Els(calls) : a.visit <= c.visit
  /\ \A c \in Pending : c.visit <= visit

\* A result is on the page only while no call of an earlier visit is under way, and
\* the peer it is shown for has a key if its invite parses.
SessionSound(p) ==
  sessions[p].sftpResult # None =>
    /\ \A c \in Pending : c.visit = visit
    /\ p \in Existing /\ Parses(savedPeers[p].inviteJson, expired) =>
         savedPeers[p].ownerPublicKey # None

Sessions ==
  /\ ~open => \A p \in Peers : sessions[p] = EmptySession
  /\ \A p \in Peers : SessionSound(p)

Inv == TypeOK /\ Records /\ Wires /\ InOrder /\ Sessions

LEMMA EmptySessionType == EmptySession \in PeerSession /\ EmptySession.sftpResult = None
  BY DEF EmptySession, PeerSession

LEMMA CallIsTyped ==
  ASSUME TypeOK, NEW c \in Pending
  PROVE  c \in Call /\ c.visit \in Nat
<1>1. calls \in Seq(Call) /\ answers \in Seq(Call)
  BY DEF TypeOK
<1>2. c \in Call
  BY <1>1, ElementOfSeq DEF Pending
<1>3. QED
  BY <1>2, BoundsAssumption DEF Call
-----------------------------------------------------------------------------
\* A call is asked: the record it takes along is that of the peer.
LEMMA ClickInv ==
  ASSUME Inv, NEW kind \in Kinds, NEW p \in Peers, Click(kind, p),
         kind \in {"generate", "probe", "verify", "connect"} => Invite(p),
         kind \in {"probe", "verify", "connect"} => savedPeers[p].ownerPublicKey # None,
         kind \in {"verify", "connect"} => EffectiveHost(savedPeers[p]) # None,
         generating' \in BOOLEAN,
         UNCHANGED sessions \/ Busy(kind, p)
  PROVE  Inv'
<1> DEFINE r == savedPeers[p]
           call == [kind |-> kind, id |-> p, saved |-> r,
                    invite |-> IF r.inviteJson \in Invites THEN r.inviteJson ELSE None,
                    host |-> EffectiveHost(r), visit |-> visit, outcome |-> None,
                    key |-> None]
<1>1. p \in Existing /\ r \in SavedPeer /\ Sound(r, expired)
  BY DEF Click, OnSelected, Inv, Records, Sound
<1>2. EffectiveHost(r) \in Hosts \cup {None}
  BY <1>1 DEF EffectiveHost, SavedPeer
<1>3. call \in Call /\ call.visit = visit
  BY <1>1, <1>2 DEF Call, Inv, TypeOK, Outcomes
<1>4. SoundCall(call, expired)
  <2>1. Invite(p) => r.inviteJson \in Invites /\ r.allocId = AllocOf[r.inviteJson]
    BY <1>1 DEF Invite, Parses, Sound
  <2>2. QED
    BY <1>1, <1>2, <2>1 DEF SoundCall
<1>5. /\ calls \in Seq(Call) /\ answers \in Seq(Call)
      /\ calls' = Append(calls, call) /\ answers' = answers
  BY DEF Inv, TypeOK, Click
<1> HIDE DEF call, r
<1>6. /\ calls' \in Seq(Call)
      /\ Els(calls') = Els(calls) \cup {call}
      /\ Pending' = Pending \cup {call}
  BY <1>3, <1>5, AppendProperties, AppendEls, PendingEls
<1>7. /\ sessions' \in [Peers -> PeerSession]
      /\ \A q \in Peers : sessions'[q].sftpResult = sessions[q].sftpResult
  <2>1. sessions \in [Peers -> PeerSession]
    BY DEF Inv, TypeOK
  <2>2. CASE UNCHANGED sessions
    BY <2>1, <2>2
  <2>3. CASE Busy(kind, p)
    <3> DEFINE s == [sessions[p] EXCEPT !.busy = @ \cup {kind}]
    <3>1. s \in PeerSession /\ s.sftpResult = sessions[p].sftpResult
      BY <2>1 DEF PeerSession
    <3>2. sessions' = [sessions EXCEPT ![p] = s]
      BY <2>1, <2>3 DEF Busy
    <3> HIDE DEF s
    <3>3. QED
      BY <2>1, <3>1, <3>2
  <2>4. QED
    BY <2>2, <2>3
<1>8. TypeOK'
  <2>1. /\ clicks' \in 0..MaxClicks
        /\ overlapped' \in BOOLEAN
    BY BoundsAssumption DEF Click, Inv, TypeOK
  <2>2. UNCHANGED <<savedPeers, visit, open, selectedId, answers, known, configs, expired,
                    edits>>
    BY DEF Click, files
  <2>3. QED
    BY <1>6, <1>7, <2>1, <2>2 DEF Inv, TypeOK
<1>9. UNCHANGED <<savedPeers, visit, open, expired>> /\ Existing' = Existing
  BY DEF Click, Existing
<1>10. Records'
  BY <1>9 DEF Inv, Records
<1>11. Wires'
  BY <1>4, <1>5, <1>6, <1>9 DEF Inv, Wires
<1>12. InOrder'
  <2>1. \A x \in Pending : x.visit <= call.visit
    BY <1>3 DEF Inv, InOrder
  <2>2. Sorted(calls')
    BY <1>3, <1>5, <2>1, PendingEls, SortedAppend DEF Inv, InOrder
  <2>3. call.visit <= visit
    BY <1>3 DEF Inv, TypeOK
  <2>4. QED
    BY <1>5, <1>6, <1>9, <2>1, <2>2, <2>3, PendingEls DEF Inv, InOrder
<1>13. Sessions'
  <2>1. ASSUME NEW q \in Peers
        PROVE  SessionSound(q)'
    BY <1>3, <1>6, <1>7, <1>9 DEF Inv, Sessions, SessionSound
  <2>2. open
    BY DEF Click
  <2>3. QED
    BY <1>9, <2>1, <2>2 DEF Sessions
<1>14. QED
  BY <1>8, <1>10, <1>11, <1>12, <1>13 DEF Inv

\* The seven buttons give what the command needs.
LEMMA StartInv ==
  ASSUME Inv, NEW p \in Peers, Start(p)
  PROVE  Inv'
<1>1. CASE HandleFileImport(p)
  BY <1>1, ClickInv DEF HandleFileImport, Inv, TypeOK, Kinds
<1>2. CASE HandleGenerateKey(p)
  BY <1>2, ClickInv DEF HandleGenerateKey, CanGenerate, Kinds
<1>3. CASE HandleAutoSubmit(p)
  BY <1>3, ClickInv DEF HandleAutoSubmit, Inv, TypeOK, Kinds
<1>4. CASE HandleProbe(p)
  BY <1>4, ClickInv DEF HandleProbe, CanProbe, CanConnect, Inv, TypeOK, Kinds
<1>5. CASE HandleVerify(p)
  BY <1>5, ClickInv DEF HandleVerify, CanVerify, CanConnect, Inv, TypeOK, Kinds
<1>6. CASE HandleRepoConnect(p)
  <2>1. p \in Existing
    BY <1>6 DEF HandleRepoConnect, Click, OnSelected
  <2>2. savedPeers[p].ownerPublicKey # None
    BY <1>6, <2>1 DEF HandleRepoConnect, CanCreateRepository, Invite, Inv, Sessions,
       SessionSound
  <2>3. QED
    BY <1>6, <2>2, ClickInv DEF HandleRepoConnect, CanCreateRepository, Inv, TypeOK, Kinds
<1>7. CASE HandleRunBackup(p)
  BY <1>7, ClickInv DEF HandleRunBackup, Inv, TypeOK, Kinds
<1>8. QED
  BY <1>1, <1>2, <1>3, <1>4, <1>5, <1>6, <1>7 DEF Start
-----------------------------------------------------------------------------
\* The Rust process answers a call: its answer is the last of them.
LEMMA RunInv ==
  ASSUME Inv, NEW kind, Run(kind), NEW outcome \in Outcomes,
         NEW key \in HostKeys \cup {None}, Reply(outcome, key),
         kind = "verify" => outcome \in SftpStatus,
         kind = "import" => outcome \in Invites \cup {"failed"},
         known' \in [Hosts -> HostKeys \cup {None}],
         configs' \in SUBSET (Hosts \X Allocs)
  PROVE  Inv'
<1> DEFINE c == Head(calls)
           a == [c EXCEPT !.outcome = outcome, !.key = key]
<1>1. /\ calls # <<>> /\ c.kind = kind
      /\ calls' = Tail(calls) /\ answers' = Append(answers, a)
      /\ calls \in Seq(Call) /\ answers \in Seq(Call)
  BY DEF Run, Reply, Inv, TypeOK
<1>2. /\ c \in Els(calls) /\ Els(Tail(calls)) \subseteq Els(calls)
      /\ c \in Call /\ Tail(calls) \in Seq(Call)
  BY <1>1, TailEls, HeadTailProperties
<1>3. /\ a \in Call
      /\ a.kind = kind /\ a.saved = c.saved /\ a.invite = c.invite /\ a.host = c.host
      /\ a.visit = c.visit /\ a.outcome = outcome
  BY <1>1, <1>2 DEF Call
<1>4. SoundCall(a, expired) /\ SoundAnswer(a)
  <2>1. SoundCall(c, expired)
    BY <1>2, PendingEls DEF Inv, Wires
  <2>2. QED
    BY <1>1, <1>3, <2>1 DEF SoundCall, SoundAnswer
<1> HIDE DEF a, c
<1>5. /\ answers' \in Seq(Call)
      /\ Els(answers') = Els(answers) \cup {a}
      /\ Els(calls') \subseteq Els(calls)
      /\ Pending' \subseteq Pending \cup {a}
  BY <1>1, <1>2, <1>3, AppendProperties, AppendEls, PendingEls
<1>6. UNCHANGED <<savedPeers, visit, open, selectedId, sessions, generating, expired,
                  edits, clicks, overlapped>>
  BY DEF Run, page, history
<1>7. TypeOK'
  BY <1>1, <1>2, <1>5, <1>6 DEF Inv, TypeOK
<1>8. Records'
  BY <1>6 DEF Inv, Records, Existing
<1>9. Wires'
  BY <1>4, <1>5, <1>6 DEF Inv, Wires
<1>10. InOrder'
  <2>1. Sorted(calls') /\ \A x \in Els(calls) : c.visit <= x.visit
    BY <1>1, SortedTail DEF Inv, InOrder, c
  <2>2. Sorted(answers')
    BY <1>1, <1>2, <1>3, SortedAppend DEF Inv, InOrder
  <2>3. \A x \in Els(answers'), y \in Els(calls') : x.visit <= y.visit
    BY <1>3, <1>5, <2>1 DEF Inv, InOrder
  <2>4. \A x \in Pending' : x.visit <= visit
    BY <1>2, <1>3, <1>5, PendingEls DEF Inv, InOrder
  <2>5. QED
    BY <1>6, <2>1, <2>2, <2>3, <2>4 DEF InOrder
<1>11. Sessions'
  <2>1. ASSUME NEW q \in Peers, sessions[q].sftpResult # None
        PROVE  a.visit = visit
    BY <1>2, <1>3, <2>1, PendingEls DEF Inv, Sessions, SessionSound
  <2>2. ASSUME NEW q \in Peers
        PROVE  SessionSound(q)'
    BY <1>5, <1>6, <2>1 DEF Inv, Sessions, SessionSound, Existing
  <2>3. QED
    BY <1>6, <2>2 DEF Inv, Sessions
<1>12. QED
  BY <1>7, <1>8, <1>9, <1>10, <1>11 DEF Inv

LEMMA ExecuteInv ==
  ASSUME Inv, Execute
  PROVE  Inv'
<1>1. /\ known \in [Hosts -> HostKeys \cup {None}]
      /\ configs \in SUBSET (Hosts \X Allocs)
  BY DEF Inv, TypeOK
<1>2. CASE RunImport
  <2>1. PICK text \in Invites \cup {"failed"} : Reply(text, None)
    BY <1>2 DEF RunImport
  <2>2. text \in Outcomes
    BY DEF Outcomes
  <2>3. QED
    BY <1>1, <1>2, <2>1, <2>2, RunInv DEF RunImport, files
<1>3. ASSUME NEW kind \in {"generate", "submit", "probe"}, Run(kind), Replied
      PROVE  Inv'
  <2>1. PICK outcome \in {"ok", "failed"} : Reply(outcome, None)
    BY <1>3 DEF Replied
  <2>2. outcome \in Outcomes
    BY DEF Outcomes, SftpStatus
  <2>3. QED
    BY <1>1, <1>3, <2>1, <2>2, RunInv DEF Replied, files
<1>4. CASE RunVerify
  <2>1. PICK outcome \in SftpStatus, key \in HostKeys \cup {None} :
          Reply(outcome, key) /\ (known' = known \/ SaveFingerprint(key))
    BY <1>4, NoneAssumption DEF RunVerify, SftpStatus
  <2>2. known' \in [Hosts -> HostKeys \cup {None}]
    BY <1>1, <2>1 DEF SaveFingerprint, Forgotten
  <2>3. outcome \in Outcomes
    BY DEF Outcomes
  <2>4. QED
    BY <1>1, <1>4, <2>1, <2>2, <2>3, RunInv DEF RunVerify
<1>5. CASE RunConnect
  <2>1. PICK outcome \in {"ok", "failed"} : Reply(outcome, None)
    BY <1>5 DEF RunConnect
  <2>2. Target \in Hosts \X Allocs
    <3>1. calls # <<>> /\ Head(calls).kind = "connect"
      BY <1>5 DEF RunConnect, Run
    <3>2. Head(calls) \in Pending
      BY <3>1, TailEls, PendingEls DEF Inv, TypeOK
    <3>3. Head(calls).host \in Hosts /\ Head(calls).invite \in Invites
      BY <3>1, <3>2 DEF Inv, Wires, SoundCall
    <3>4. QED
      BY <3>3, InviteAssumption DEF Target
  <2>3. configs' \in SUBSET (Hosts \X Allocs)
    BY <1>1, <1>5, <2>2 DEF RunConnect
  <2>4. outcome \in Outcomes
    BY DEF Outcomes, SftpStatus
  <2>5. QED
    BY <1>1, <1>5, <2>1, <2>3, <2>4, RunInv DEF RunConnect
<1>6. CASE RunBackup
  <2>1. PICK outcome \in {"ok", "failed"} : Reply(outcome, None)
    BY <1>6 DEF RunBackup
  <2>2. outcome \in Outcomes
    BY DEF Outcomes, SftpStatus
  <2>3. QED
    BY <1>1, <1>6, <2>1, <2>2, RunInv DEF RunBackup, files
<1>7. QED
  BY <1>2, <1>3, <1>4, <1>5, <1>6 DEF Execute, RunGenerate, RunSubmit, RunProbe
-----------------------------------------------------------------------------
\* A peer that is there is selected, whatever the list has become.
LEMMA SelectionType ==
  ASSUME NEW s \in Peers \cup {None}, NEW S \in SUBSET Peers,
         NEW t \in DefaultSelection(s, S)
  PROVE  t \in Peers \cup {None}
  BY DEF DefaultSelection

\* A result on the page is that of a record with a key, or of none.
KeyBehind(s, r, gone) ==
  s.sftpResult # None /\ r # None /\ Parses(r.inviteJson, gone) =>
    r.ownerPublicKey # None

\* The handler of the oldest answer goes on: it writes a sound record back or none, and
\* leaves a result on the page only if it is there already or the page is the same.
LEMMA ResumeInv ==
  ASSUME Inv, NEW kind, Resume(kind), NEW a, a = Head(answers),
         UNCHANGED savedPeers
           \/ \E r : Sound(r, expired) /\ savedPeers' = [savedPeers EXCEPT ![a.id] = r],
         selectedId' \in Peers \cup {None},
         UNCHANGED sessions
           \/ (open /\ \E s \in PeerSession : sessions' = [sessions EXCEPT ![a.id] = s]),
         generating' \in BOOLEAN,
         sessions'[a.id].sftpResult # None => sessions[a.id].sftpResult # None \/ Live(a),
         KeyBehind(sessions'[a.id], savedPeers'[a.id], expired)
  PROVE  Inv'
<1>1. /\ answers # <<>> /\ answers' = Tail(answers) /\ calls' = calls
      /\ calls \in Seq(Call) /\ answers \in Seq(Call)
  BY DEF Resume, Inv, TypeOK
<1>2. a \in Pending /\ a \in Els(answers) /\ a \in Call /\ a.id \in Peers /\ a.visit \in Nat
  <2>1. a \in Els(answers) /\ a \in Call
    BY <1>1, TailEls, HeadTailProperties
  <2>2. QED
    BY <2>1, PendingEls, BoundsAssumption DEF Call
<1>3. /\ answers' \in Seq(Call)
      /\ Els(answers') \subseteq Els(answers)
      /\ Pending' \subseteq Pending
  BY <1>1, TailEls, HeadTailProperties, PendingEls
<1>4. UNCHANGED <<visit, open, known, configs, expired, edits, clicks, overlapped>>
  BY DEF Resume, files, history
<1>5. /\ savedPeers' \in [Peers -> SavedPeer \cup {None}]
      /\ \A p \in Peers : p # a.id => savedPeers'[p] = savedPeers[p]
      /\ \A p \in Peers : savedPeers'[p] # None => Sound(savedPeers'[p], expired)
  <2>1. /\ savedPeers \in [Peers -> SavedPeer \cup {None}]
        /\ \A p \in Peers : savedPeers[p] # None => Sound(savedPeers[p], expired)
    BY DEF Inv, TypeOK, Records, Existing
  <2>2. CASE UNCHANGED savedPeers
    BY <2>1, <2>2
  <2>3. ASSUME NEW r, Sound(r, expired), savedPeers' = [savedPeers EXCEPT ![a.id] = r]
        PROVE  <1>5!1 /\ <1>5!2 /\ <1>5!3
    <3>1. r \in SavedPeer
      BY <2>3 DEF Sound
    <3>2. QED
      BY <1>2, <2>1, <2>3, <3>1
  <2>4. QED
    BY <2>2, <2>3
<1>6. /\ sessions' \in [Peers -> PeerSession]
      /\ \A p \in Peers : p # a.id => sessions'[p] = sessions[p]
      /\ ~open => sessions' = sessions
  <2>1. sessions \in [Peers -> PeerSession]
    BY DEF Inv, TypeOK
  <2>2. QED
    BY <1>2, <2>1
<1>7. TypeOK'
  BY <1>1, <1>3, <1>4, <1>5, <1>6 DEF Inv, TypeOK
<1>8. Records'
  BY <1>4, <1>5 DEF Records, Existing
<1>9. Wires'
  BY <1>3, <1>4 DEF Inv, Wires
<1>10. InOrder'
  BY <1>1, <1>3, <1>4, SortedTail DEF Inv, InOrder
<1>11. \A c \in Pending' : a.visit <= c.visit /\ c.visit <= visit /\ c.visit \in Nat
  <2>1. \A c \in Pending : a.visit <= c.visit
    BY <1>1, <1>2, SortedTail, PendingEls DEF Inv, InOrder
  <2>2. \A c \in Pending : c.visit <= visit /\ c.visit \in Nat
    BY CallIsTyped DEF Inv, InOrder
  <2>3. QED
    BY <1>3, <2>1, <2>2
<1>12. visit \in Nat
  BY BoundsAssumption DEF Inv, TypeOK
<1>13. Sessions'
  <2>1. ASSUME NEW p \in Peers, p # a.id
        PROVE  SessionSound(p)'
    BY <1>3, <1>4, <1>5, <1>6, <2>1 DEF Inv, Sessions, SessionSound, Existing
  <2>2. SessionSound(a.id)'
    <3>1. SUFFICES ASSUME sessions'[a.id].sftpResult # None
                   PROVE  \A c \in Pending' : c.visit = visit
      BY <1>4 DEF SessionSound, Existing, KeyBehind
    <3>2. CASE sessions[a.id].sftpResult # None
      BY <1>2, <1>3, <3>2 DEF Inv, Sessions, SessionSound
    <3>3. CASE Live(a)
      BY <1>2, <1>11, <1>12, <3>3 DEF Live
    <3>4. QED
      BY <3>1, <3>2, <3>3
  <2>3. QED
    BY <1>4, <1>6, <2>1, <2>2 DEF Inv, Sessions
<1>14. QED
  BY <1>7, <1>8, <1>9, <1>10, <1>13 DEF Inv

\* What a patch of the session of the answer's peer does.
LEMMA PatchType ==
  ASSUME NEW a, a.id \in Peers, sessions \in [Peers -> PeerSession],
         NEW s \in PeerSession, PatchSession(a, s)
  PROVE  /\ UNCHANGED sessions
              \/ (open /\ \E t \in PeerSession : sessions' = [sessions EXCEPT ![a.id] = t])
         /\ Live(a) => sessions'[a.id] = s
         /\ ~Live(a) => sessions' = sessions
  BY DEF PatchSession, Live

LEMMA IdleType ==
  ASSUME NEW a, a.id \in Peers, sessions \in [Peers -> PeerSession]
  PROVE  /\ Idle(a) \in PeerSession
         /\ Idle(a).sftpResult = sessions[a.id].sftpResult
         /\ Idle(a).repoResult = sessions[a.id].repoResult
         /\ Idle(a).busy = sessions[a.id].busy \ {a.kind}
  BY DEF Idle, PeerSession

\* A record that is written back.
LEMMA UpsertIsSound ==
  ASSUME Inv, NEW a, a.id \in Peers, NEW r, Sound(r, expired), Upsert(a, r)
  PROVE  /\ \E q : Sound(q, expired) /\ savedPeers' = [savedPeers EXCEPT ![a.id] = q]
         /\ selectedId' \in Peers \cup {None}
         /\ savedPeers'[a.id] = r
<1>1. savedPeers' = [savedPeers EXCEPT ![a.id] = r]
  BY DEF Upsert
<1>2. Existing \cup {a.id} \in SUBSET Peers /\ selectedId \in Peers \cup {None}
  BY DEF Existing, Inv, TypeOK
<1>3. selectedId' \in Peers \cup {None}
  BY <1>2, SelectionType DEF Upsert
<1>4. QED
  BY <1>1, <1>3 DEF Inv, TypeOK

\* The record stays as it is: so does what is said of it.
LEMMA NoUpsertKeeps ==
  ASSUME Inv, NEW a, a.id \in Peers, NoUpsert,
         sessions'[a.id].sftpResult # None => sessions[a.id].sftpResult # None
  PROVE  /\ UNCHANGED savedPeers
         /\ selectedId' \in Peers \cup {None}
         /\ KeyBehind(sessions'[a.id], savedPeers'[a.id], expired)
  BY DEF NoUpsert, Inv, TypeOK, Sessions, SessionSound, Existing, KeyBehind

\* The head of the answers is what its command was asked with.
LEMMA HeadIsSound ==
  ASSUME Inv, NEW kind, Resume(kind)
  PROVE  /\ Head(answers) \in Call /\ Head(answers).id \in Peers
         /\ Head(answers).kind = kind
         /\ SoundCall(Head(answers), expired)
         /\ SoundAnswer(Head(answers))
         /\ sessions \in [Peers -> PeerSession]
<1>1. answers # <<>> /\ answers \in Seq(Call) /\ Head(answers).kind = kind
  BY DEF Resume, Inv, TypeOK
<1>2. Head(answers) \in Call /\ Head(answers) \in Els(answers)
  BY <1>1, HeadTailProperties, TailEls
<1>3. QED
  BY <1>1, <1>2, PendingEls DEF Inv, TypeOK, Wires, Call
-----------------------------------------------------------------------------
\* A result of the page is only there while all that is under way is of this visit.
LEMMA ResultIsLive ==
  ASSUME Inv, NEW a \in Pending, a.id \in Peers, sessions[a.id].sftpResult # None
  PROVE  Live(a)
<1>1. a.visit = visit
  BY DEF Inv, Sessions, SessionSound
<1>2. open
  BY EmptySessionType DEF Inv, Sessions
<1>3. QED
  BY <1>1, <1>2 DEF Live

LEMMA FileImportedInv ==
  ASSUME Inv, FileImported
  PROVE  Inv'
<1> DEFINE a == Head(answers)
           record == WithText(a.saved, a.outcome, expired)
           session == SessionWithText(sessions[a.id], a.outcome, expired)
<1>1. /\ Resume("import") /\ generating' \in BOOLEAN
      /\ a.outcome = "failed" => NoUpsert /\ UNCHANGED sessions
      /\ a.outcome # "failed" => Upsert(a, record) /\ PatchSession(a, session)
  BY DEF FileImported, Inv, TypeOK
<1>2. /\ a.id \in Peers /\ a \in Pending
      /\ Sound(a.saved, expired)
      /\ a.outcome \in Invites \cup {"failed"}
      /\ sessions \in [Peers -> PeerSession]
  <2>1. a \in Els(answers)
    BY <1>1, TailEls DEF Resume, Inv, TypeOK
  <2>2. QED
    BY <1>1, <2>1, HeadIsSound, PendingEls DEF SoundCall, SoundAnswer
<1>3. CASE a.outcome = "failed"
  BY <1>1, <1>2, <1>3, NoUpsertKeeps, ResumeInv
<1>4. CASE a.outcome # "failed"
  <2>1. a.outcome \in Texts /\ a.outcome # None
    BY <1>2, <1>4, NoneAssumption DEF Texts
  <2>2. /\ Sound(record, expired)
        /\ Parses(record.inviteJson, expired) => Parses(a.outcome, expired)
    BY <1>2, <2>1, WithTextIsSound
  <2>3. /\ session \in PeerSession
        /\ Parses(a.outcome, expired) => session.sftpResult = None
        /\ session.sftpResult # None => sessions[a.id].sftpResult # None
    <3>1. CASE Parses(a.outcome, expired)
      <4>1. session = [sessions[a.id] EXCEPT !.sftpResult = None, !.repoResult = None,
                                             !.submitted = FALSE]
        BY <2>1, <3>1 DEF SessionWithText
      <4>2. sessions[a.id] \in PeerSession
        BY <1>2
      <4> HIDE DEF a
      <4>3. QED
        BY <4>1, <4>2 DEF PeerSession
    <3>2. CASE ~Parses(a.outcome, expired)
      BY <1>2, <2>1, <3>2 DEF SessionWithText
    <3>3. QED
      BY <3>1, <3>2
  <2> HIDE DEF record, session, a
  <2>4. /\ UNCHANGED sessions
             \/ (open /\ \E t \in PeerSession : sessions' = [sessions EXCEPT ![a.id] = t])
        /\ Live(a) => sessions'[a.id] = session
        /\ ~Live(a) => sessions' = sessions
    BY <1>1, <1>2, <1>4, <2>3, PatchType
  <2>5. /\ \E q : Sound(q, expired) /\ savedPeers' = [savedPeers EXCEPT ![a.id] = q]
        /\ selectedId' \in Peers \cup {None}
        /\ savedPeers'[a.id] = record
    BY <1>1, <1>2, <1>4, <2>2, UpsertIsSound
  <2>6. sessions'[a.id].sftpResult # None => sessions[a.id].sftpResult # None
    BY <2>3, <2>4
  <2>7. KeyBehind(sessions'[a.id], savedPeers'[a.id], expired)
    <3>1. SUFFICES ASSUME sessions'[a.id].sftpResult # None,
                          Parses(record.inviteJson, expired)
                   PROVE  FALSE
      BY <2>5 DEF KeyBehind
    <3>2. Live(a)
      BY <1>2, <2>6, <3>1, ResultIsLive
    <3>3. QED
      BY <2>2, <2>3, <2>4, <3>1, <3>2
  <2>8. QED
    BY <1>1, <1>2, <2>4, <2>5, <2>6, <2>7, ResumeInv DEF a
<1>5. QED
  BY <1>3, <1>4

\* The three handlers that write the record back unchanged or with a field set.
LEMMA KeyedAnswerInv ==
  ASSUME Inv, NEW kind, Resume(kind), NEW a, a = Head(answers),
         NEW r, Sound(r, expired), r.ownerPublicKey # None, Upsert(a, r),
         NEW s \in PeerSession, PatchSession(a, s), generating' \in BOOLEAN
  PROVE  Inv'
<1>1. a.id \in Peers /\ sessions \in [Peers -> PeerSession]
  BY HeadIsSound
<1>2. /\ UNCHANGED sessions
           \/ (open /\ \E t \in PeerSession : sessions' = [sessions EXCEPT ![a.id] = t])
      /\ ~Live(a) => sessions' = sessions
  BY <1>1, PatchType
<1>3. /\ \E q : Sound(q, expired) /\ savedPeers' = [savedPeers EXCEPT ![a.id] = q]
      /\ selectedId' \in Peers \cup {None}
      /\ savedPeers'[a.id] = r
  BY <1>1, UpsertIsSound
<1>4. KeyBehind(sessions'[a.id], savedPeers'[a.id], expired)
  BY <1>3 DEF KeyBehind
<1>5. QED
  BY <1>2, <1>3, <1>4, ResumeInv

\* Those that write none, and leave the result on the page.
LEMMA NoRecordAnswerInv ==
  ASSUME Inv, NEW kind, Resume(kind), NEW a, a = Head(answers), NoUpsert,
         NEW s \in PeerSession, s.sftpResult = sessions[a.id].sftpResult,
         PatchSession(a, s), generating' \in BOOLEAN
  PROVE  Inv'
<1>1. a.id \in Peers /\ sessions \in [Peers -> PeerSession]
  BY HeadIsSound
<1>2. /\ UNCHANGED sessions
           \/ (open /\ \E t \in PeerSession : sessions' = [sessions EXCEPT ![a.id] = t])
      /\ sessions'[a.id].sftpResult = sessions[a.id].sftpResult
  BY <1>1, PatchType
<1>3. QED
  BY <1>1, <1>2, NoUpsertKeeps, ResumeInv

LEMMA AnswerInv ==
  ASSUME Inv, Answer
  PROVE  Inv'
<1> DEFINE a == Head(answers)
<1>1. CASE FileImported
  BY <1>1, FileImportedInv
<1>2. CASE KeyGenerated
  <2>1. /\ Resume("generate")
        /\ IF a.outcome = "ok" THEN Upsert(a, WithKey(a.saved, a.invite)) ELSE NoUpsert
        /\ PatchSession(a, Idle(a))
        /\ generating' \in BOOLEAN
    BY <1>2 DEF KeyGenerated
  <2>2. /\ Sound(a.saved, expired) /\ a.invite \in Invites
        /\ a.saved.allocId = AllocOf[a.invite]
        /\ a.id \in Peers /\ sessions \in [Peers -> PeerSession]
    BY <2>1, HeadIsSound DEF SoundCall
  <2> HIDE DEF a
  <2>3. /\ Idle(a) \in PeerSession
        /\ Idle(a).sftpResult = sessions[a.id].sftpResult
    BY <2>2, IdleType
  <2>4. CASE a.outcome = "ok"
    <3>1. /\ Sound(WithKey(a.saved, a.invite), expired)
          /\ WithKey(a.saved, a.invite).ownerPublicKey # None
      BY <2>2, WithKeyIsSound
    <3>2. QED
      BY <2>1, <2>3, <2>4, <3>1, KeyedAnswerInv DEF a
  <2>5. CASE a.outcome # "ok"
    BY <2>1, <2>3, <2>5, NoRecordAnswerInv DEF a
  <2>6. QED
    BY <2>4, <2>5
<1>3. CASE Submitted
  <2> DEFINE s == [Idle(a) EXCEPT !.submitted = (a.outcome = "ok")]
  <2>1. /\ Resume("submit") /\ PatchSession(a, s) /\ NoUpsert
        /\ generating' \in BOOLEAN
    BY <1>3 DEF Submitted, Inv, TypeOK
  <2>2. a.id \in Peers /\ sessions \in [Peers -> PeerSession]
    BY <2>1, HeadIsSound
  <2>3. s \in PeerSession /\ s.sftpResult = sessions[a.id].sftpResult
    BY <2>2, IdleType DEF PeerSession
  <2>4. QED
    BY <2>1, <2>3, NoRecordAnswerInv
<1>4. CASE Probed
  <2>1. /\ Resume("probe") /\ PatchSession(a, Idle(a))
        /\ Upsert(a, a.saved) \/ NoUpsert
        /\ generating' \in BOOLEAN
    BY <1>4 DEF Probed, Inv, TypeOK
  <2>2. /\ a.id \in Peers /\ sessions \in [Peers -> PeerSession]
        /\ Sound(a.saved, expired) /\ a.saved.ownerPublicKey # None
    BY <2>1, HeadIsSound DEF SoundCall
  <2>3. Idle(a) \in PeerSession /\ Idle(a).sftpResult = sessions[a.id].sftpResult
    BY <2>2, IdleType
  <2>4. QED
    BY <2>1, <2>2, <2>3, KeyedAnswerInv, NoRecordAnswerInv
<1>5. CASE Verified
  <2> DEFINE st == VerifyStatus(a)
             res == [status |-> st, host |-> a.host, invite |-> a.invite]
             s == [Idle(a) EXCEPT !.sftpResult = res]
             r == [a.saved EXCEPT !.lastSftpStatus = st]
  <2>1. /\ Resume("verify") /\ PatchSession(a, s) /\ Upsert(a, r)
        /\ generating' \in BOOLEAN
    BY <1>5 DEF Verified, Inv, TypeOK
  <2>2. /\ a.id \in Peers /\ sessions \in [Peers -> PeerSession]
        /\ Sound(a.saved, expired) /\ a.saved.ownerPublicKey # None
        /\ a.host \in Hosts /\ a.invite \in Invites /\ a.outcome \in SftpStatus
    BY <2>1, HeadIsSound DEF SoundCall, SoundAnswer
  <2>3. st \in SftpStatus
    BY <2>2 DEF VerifyStatus, SftpStatus
  <2>4. res \in Result
    BY <2>2, <2>3 DEF Result
  <2>5. s \in PeerSession
    BY <2>2, <2>4, IdleType DEF PeerSession
  <2>6. /\ r \in SavedPeer
        /\ r.inviteJson = a.saved.inviteJson
        /\ r.allocId = a.saved.allocId
        /\ r.ownerPublicKey = a.saved.ownerPublicKey
        /\ r.responseJson = a.saved.responseJson
    BY <2>2, <2>3 DEF Sound, SavedPeer
  <2>7. Sound(r, expired) /\ r.ownerPublicKey # None
    <3> HIDE DEF r, a
    <3>1. QED
      BY <2>2, <2>6 DEF Sound
  <2>8. QED
    BY <2>1, <2>5, <2>7, KeyedAnswerInv
<1>6. CASE RepoConnected
  <2> DEFINE res == [status |-> IF a.outcome = "ok" THEN "ok" ELSE "error",
                     host |-> a.host, invite |-> a.invite]
             s == [Idle(a) EXCEPT !.repoResult = res]
             r == [a.saved EXCEPT !.lastRepoMessage = TRUE]
  <2>1. /\ Resume("connect") /\ PatchSession(a, s)
        /\ Upsert(a, r) \/ NoUpsert
        /\ generating' \in BOOLEAN
    BY <1>6 DEF RepoConnected, Inv, TypeOK
  <2>2. /\ a.id \in Peers /\ sessions \in [Peers -> PeerSession]
        /\ Sound(a.saved, expired) /\ a.saved.ownerPublicKey # None
        /\ a.host \in Hosts /\ a.invite \in Invites
    BY <2>1, HeadIsSound DEF SoundCall
  <2>3. res \in Result
    BY <2>2 DEF Result, SftpStatus
  <2>4. s \in PeerSession /\ s.sftpResult = sessions[a.id].sftpResult
    BY <2>2, <2>3, IdleType DEF PeerSession
  <2>5. /\ r \in SavedPeer
        /\ r.inviteJson = a.saved.inviteJson
        /\ r.allocId = a.saved.allocId
        /\ r.ownerPublicKey = a.saved.ownerPublicKey
        /\ r.responseJson = a.saved.responseJson
    BY <2>2 DEF Sound, SavedPeer
  <2>6. Sound(r, expired) /\ r.ownerPublicKey # None
    <3> HIDE DEF r, a
    <3>1. QED
      BY <2>2, <2>5 DEF Sound
  <2>7. QED
    BY <2>1, <2>4, <2>6, KeyedAnswerInv, NoRecordAnswerInv
<1>7. CASE BackedUp
  <2>1. /\ Resume("backup") /\ PatchSession(a, Idle(a)) /\ NoUpsert
        /\ generating' \in BOOLEAN
    BY <1>7 DEF BackedUp, Inv, TypeOK
  <2>2. a.id \in Peers /\ sessions \in [Peers -> PeerSession]
    BY <2>1, HeadIsSound
  <2>3. Idle(a) \in PeerSession /\ Idle(a).sftpResult = sessions[a.id].sftpResult
    BY <2>2, IdleType
  <2>4. QED
    BY <2>1, <2>3, NoRecordAnswerInv
<1>8. QED
  BY <1>1, <1>2, <1>3, <1>4, <1>5, <1>6, <1>7 DEF Answer
-----------------------------------------------------------------------------
\* The user edits a peer: its record is replaced by a sound one or deleted, and a result
\* is only left on the page with a key.
LEMMA EditedInv ==
  ASSUME Inv, NEW p \in Peers, EditStep,
         NEW r, r = None \/ Sound(r, expired), savedPeers' = [savedPeers EXCEPT ![p] = r],
         NEW s \in PeerSession, sessions' = [sessions EXCEPT ![p] = s],
         s.sftpResult # None => sessions[p].sftpResult # None,
         KeyBehind(s, r, expired),
         selectedId' \in Peers \cup {None}
  PROVE  Inv'
<1>1. UNCHANGED <<visit, open, generating, calls, answers, known, configs, expired,
                  clicks, overlapped>>
  BY DEF EditStep, wires, files
<1>2. edits' \in 0..MaxEdits /\ open
  BY BoundsAssumption DEF EditStep, Inv, TypeOK
<1>3. /\ savedPeers' \in [Peers -> SavedPeer \cup {None}]
      /\ \A q \in Peers : q # p => savedPeers'[q] = savedPeers[q]
      /\ savedPeers'[p] = r
  BY DEF Inv, TypeOK, Sound
<1>4. /\ sessions' \in [Peers -> PeerSession]
      /\ \A q \in Peers : q # p => sessions'[q] = sessions[q]
      /\ sessions'[p] = s
  BY DEF Inv, TypeOK
<1>5. TypeOK'
  BY <1>1, <1>2, <1>3, <1>4 DEF Inv, TypeOK
<1>6. Records'
  BY <1>1, <1>3 DEF Inv, Records, Existing
<1>7. Pending' = Pending
  BY <1>1 DEF Pending
<1>8. Wires' /\ InOrder'
  BY <1>1, <1>7 DEF Inv, Wires, InOrder
<1>9. Sessions'
  <2>1. ASSUME NEW q \in Peers, q # p
        PROVE  SessionSound(q)'
    BY <1>1, <1>3, <1>4, <1>7, <2>1 DEF Inv, Sessions, SessionSound, Existing
  <2>2. SessionSound(p)'
    BY <1>1, <1>3, <1>4, <1>7 DEF Inv, Sessions, SessionSound, Existing, KeyBehind
  <2>3. QED
    BY <1>1, <1>2, <2>1, <2>2 DEF Sessions
<1>10. QED
  BY <1>5, <1>6, <1>8, <1>9 DEF Inv

\* The peer edited is one that is there, with its session.
LEMMA EditedPeer ==
  ASSUME Inv, NEW p \in Existing
  PROVE  /\ p \in Peers /\ Sound(savedPeers[p], expired) /\ savedPeers[p] \in SavedPeer
         /\ sessions[p] \in PeerSession
         /\ selectedId \in Peers \cup {None}
         /\ KeyBehind(sessions[p], savedPeers[p], expired)
         /\ sessions = [sessions EXCEPT ![p] = sessions[p]]
  BY DEF Inv, TypeOK, Records, Existing, Sound, Sessions, SessionSound, KeyBehind

LEMMA EditInv ==
  ASSUME Inv, NEW p \in Peers, Edit(p)
  PROVE  Inv'
<1> DEFINE old == savedPeers[p]
           s0 == sessions[p]
<1>1. CASE CreateNewPeer(p)
  <2>1. /\ EditStep /\ sessions[p] = EmptySession /\ UNCHANGED sessions
        /\ savedPeers' = [savedPeers EXCEPT ![p] = NewPeer] /\ selectedId' = p
    BY <1>1 DEF CreateNewPeer
  <2>2. sessions' = [sessions EXCEPT ![p] = EmptySession]
    BY <2>1 DEF Inv, TypeOK
  <2>3. Sound(NewPeer, expired) /\ KeyBehind(EmptySession, NewPeer, expired)
    BY NewPeerIsSound, EmptySessionType DEF KeyBehind
  <2>4. EmptySession \in PeerSession /\ EmptySession.sftpResult = None
    BY EmptySessionType
  <2>5. QED
    BY <2>1, <2>2, <2>3, <2>4, EditedInv
<1>2. ASSUME NEW text \in Texts, ApplyInviteText(p, text)
      PROVE  Inv'
  <2> DEFINE r == WithText(old, text, expired)
             s == SessionWithText(s0, text, expired)
  <2>1. /\ EditStep /\ p \in Existing /\ UNCHANGED selectedId
        /\ savedPeers' = [savedPeers EXCEPT ![p] = r]
        /\ sessions' = [sessions EXCEPT ![p] = s]
    BY <1>2 DEF ApplyInviteText, OnSelected, Inv, TypeOK
  <2>2. /\ Sound(old, expired) /\ s0 \in PeerSession /\ selectedId \in Peers \cup {None}
    BY <2>1, EditedPeer
  <2>3. /\ Sound(r, expired)
        /\ Parses(r.inviteJson, expired) => Parses(text, expired)
    BY <2>2, WithTextIsSound
  <2>4. s \in PeerSession /\ ((s = s0 /\ ~Parses(text, expired)) \/ s.sftpResult = None)
    <3>1. CASE text = None
      <4>1. ~Parses(text, expired)
        BY <3>1, NoneAssumption DEF Parses
      <4>2. s = [s0 EXCEPT !.sftpResult = None, !.repoResult = None]
        BY <3>1, <4>1 DEF SessionWithText
      <4> HIDE DEF s, s0
      <4>3. QED
        BY <2>2, <4>2 DEF PeerSession
    <3>2. CASE text # None /\ Parses(text, expired)
      <4>1. s = [s0 EXCEPT !.sftpResult = None, !.repoResult = None, !.submitted = FALSE]
        BY <3>2 DEF SessionWithText
      <4> HIDE DEF s, s0
      <4>2. QED
        BY <2>2, <4>1 DEF PeerSession
    <3>3. CASE text # None /\ ~Parses(text, expired)
      BY <2>2, <3>3 DEF SessionWithText
    <3>4. QED
      BY <3>1, <3>2, <3>3
  <2>5. KeyBehind(s, r, expired)
    BY <2>3, <2>4 DEF KeyBehind
  <2> HIDE DEF s, r
  <2>6. QED
    BY <2>1, <2>2, <2>3, <2>4, <2>5, EditedInv
<1>3. ASSUME NEW h \in Hosts \cup {None}, EditManualHost(p, h)
      PROVE  Inv'
  <2> DEFINE r == [old EXCEPT !.manualSftpHost = h]
             s == [s0 EXCEPT !.sftpResult = None, !.repoResult = None]
  <2>1. /\ EditStep /\ p \in Existing /\ UNCHANGED selectedId
        /\ savedPeers' = [savedPeers EXCEPT ![p].manualSftpHost = h]
        /\ sessions' = [sessions EXCEPT ![p].sftpResult = None, ![p].repoResult = None]
    BY <1>3 DEF EditManualHost, OnSelected
  <2>2. /\ Sound(old, expired) /\ old \in SavedPeer /\ s0 \in PeerSession
        /\ selectedId \in Peers \cup {None}
    BY <2>1, EditedPeer
  <2>3. savedPeers' = [savedPeers EXCEPT ![p] = r]
    BY <2>1
  <2>4. sessions' = [sessions EXCEPT ![p] = s]
    BY <2>1 DEF Inv, TypeOK
  <2>5. s \in PeerSession /\ s.sftpResult = None
    BY <2>2 DEF PeerSession
  <2>6. /\ r \in SavedPeer
        /\ r.inviteJson = old.inviteJson
        /\ r.allocId = old.allocId
        /\ r.ownerPublicKey = old.ownerPublicKey
        /\ r.responseJson = old.responseJson
        /\ r.lastSftpStatus = old.lastSftpStatus
        /\ r.lastRepoMessage = old.lastRepoMessage
    BY <2>2 DEF SavedPeer
  <2> HIDE DEF r, s, old
  <2>7. Sound(r, expired)
    BY <2>2, <2>6 DEF Sound
  <2>8. KeyBehind(s, r, expired)
    BY <2>5 DEF KeyBehind
  <2>9. QED
    BY <2>1, <2>2, <2>3, <2>4, <2>5, <2>7, <2>8, EditedInv
<1>4. ASSUME NEW checked \in BOOLEAN, ConfirmHostKey(p, checked)
      PROVE  Inv'
  <2> DEFINE v == IF checked THEN AllocOf[old.inviteJson] ELSE None
             r == [old EXCEPT !.hostKeyConfirmedForAllocId = v]
  <2>1. /\ EditStep /\ p \in Existing /\ UNCHANGED <<selectedId, sessions>>
        /\ old.inviteJson \in Invites
        /\ savedPeers' = [savedPeers EXCEPT ![p].hostKeyConfirmedForAllocId = v]
    BY <1>4 DEF ConfirmHostKey, OnSelected, CanConfirm, Invite, Parses
  <2>2. /\ Sound(old, expired) /\ old \in SavedPeer /\ s0 \in PeerSession
        /\ selectedId \in Peers \cup {None}
        /\ KeyBehind(s0, old, expired)
        /\ sessions = [sessions EXCEPT ![p] = s0]
    BY <2>1, EditedPeer
  <2>3. savedPeers' = [savedPeers EXCEPT ![p] = r]
    BY <2>1
  <2>4. v \in Allocs \cup {None}
    BY <2>1, InviteAssumption
  <2> HIDE DEF v, old
  <2>5. /\ r \in SavedPeer
        /\ r.inviteJson = old.inviteJson
        /\ r.allocId = old.allocId
        /\ r.ownerPublicKey = old.ownerPublicKey
        /\ r.responseJson = old.responseJson
        /\ r.lastSftpStatus = old.lastSftpStatus
        /\ r.lastRepoMessage = old.lastRepoMessage
    BY <2>2, <2>4 DEF SavedPeer
  <2> HIDE DEF r
  <2>6. Sound(r, expired)
    BY <2>2, <2>5 DEF Sound
  <2>7. KeyBehind(s0, r, expired)
    BY <2>2, <2>5, <2>1 DEF KeyBehind, old, Existing
  <2>8. sessions' = [sessions EXCEPT ![p] = s0]
    BY <2>1, <2>2
  <2> HIDE DEF s0
  <2>9. QED
    BY <2>1, <2>2, <2>3, <2>6, <2>7, <2>8, EditedInv DEF s0
<1>5. CASE DeletePeer(p)
  <2>1. /\ EditStep /\ p \in Existing /\ UNCHANGED sessions
        /\ savedPeers' = [savedPeers EXCEPT ![p] = None]
    BY <1>5 DEF DeletePeer
  <2>2. /\ s0 \in PeerSession /\ selectedId \in Peers \cup {None}
        /\ sessions = [sessions EXCEPT ![p] = s0]
    BY <2>1, EditedPeer
  <2>3. selectedId' \in Peers \cup {None}
    <3>1. Existing \ {p} \in SUBSET Peers
      BY DEF Existing
    <3>2. QED
      BY <1>5, <2>2, <3>1, SelectionType DEF DeletePeer
  <2>4. KeyBehind(s0, None, expired)
    BY DEF KeyBehind
  <2>5. QED
    BY <2>1, <2>2, <2>3, <2>4, EditedInv
<1>6. CASE SelectPeer(p)
  <2>1. UNCHANGED <<savedPeers, visit, open, sessions, generating, calls, answers, known,
                    configs, expired, edits, clicks, overlapped>>
    BY <1>6 DEF SelectPeer, wires, files, history
  <2>2. TypeOK'
    BY <1>6, <2>1 DEF SelectPeer, Inv, TypeOK
  <2>3. Pending' = Pending /\ Existing' = Existing
    BY <2>1 DEF Pending, Existing
  <2>4. QED
    BY <2>1, <2>2, <2>3 DEF Inv, Records, Wires, InOrder, Sessions, SessionSound
<1>7. QED
  BY <1>1, <1>2, <1>3, <1>4, <1>5, <1>6 DEF Edit
-----------------------------------------------------------------------------
\* The page is opened or left, the application ends, an invite goes out of date.
LEMMA PageInv ==
  ASSUME Inv, OpenPage \/ LeavePage \/ Restart \/ \E i \in Invites : Expire(i)
  PROVE  Inv'
<1>1. CASE OpenPage
  <2>1. UNCHANGED <<savedPeers, sessions, generating, calls, answers, known, configs,
                    expired, edits, clicks, overlapped>>
    BY <1>1 DEF OpenPage, wires, files, history
  <2>2. visit' = visit + 1 /\ visit' \in 0..MaxVisits /\ visit \in Nat /\ open' = TRUE
    BY <1>1, BoundsAssumption DEF OpenPage, Inv, TypeOK
  <2>3. selectedId' \in Peers \cup {None}
    <3>1. Existing \in SUBSET Peers
      BY DEF Existing
    <3>2. QED
      BY <1>1, <3>1, SelectionType DEF OpenPage
  <2>4. TypeOK'
    BY <2>1, <2>2, <2>3 DEF Inv, TypeOK
  <2>5. Pending' = Pending /\ Existing' = Existing
    BY <2>1 DEF Pending, Existing
  <2>6. Records' /\ Wires'
    BY <2>1, <2>5 DEF Inv, Records, Wires
  <2>7. InOrder'
    <3>1. \A c \in Pending' : c.visit <= visit'
      BY <2>2, <2>5, CallIsTyped DEF Inv, InOrder
    <3>2. QED
      BY <2>1, <3>1 DEF Inv, InOrder
  <2>8. Sessions'
    BY <1>1, <2>1, <2>2, EmptySessionType DEF OpenPage, Inv, Sessions, SessionSound
  <2>9. QED
    BY <2>4, <2>6, <2>7, <2>8 DEF Inv
<1>2. CASE LeavePage \/ Restart
  <2>0. known' \in [Hosts -> HostKeys \cup {None}]
    <3>1. known' \in {known, Forgotten}
      BY <1>2 DEF LeavePage, Restart, files
    <3>2. QED
      BY <3>1 DEF Inv, TypeOK, Forgotten
  <2>1. UNCHANGED <<savedPeers, visit, configs, expired, edits, clicks, overlapped>>
    BY <1>2 DEF LeavePage, Restart, files, history
  <2>2. /\ open' = FALSE /\ selectedId' = None /\ generating' = FALSE
        /\ sessions' = [p \in Peers |-> EmptySession]
    BY <1>2 DEF LeavePage, Restart, Unmount
  <2>3. (calls' = calls /\ answers' = answers) \/ (calls' = <<>> /\ answers' = <<>>)
    BY <1>2 DEF LeavePage, Restart, wires
  <2>4. calls' \in Seq(Call) /\ answers' \in Seq(Call)
    BY <2>3, EmptySeq DEF Inv, TypeOK
  <2>5. sessions' \in [Peers -> PeerSession]
    BY <2>2, EmptySessionType
  <2>6. TypeOK'
    BY <2>0, <2>1, <2>2, <2>4, <2>5 DEF Inv, TypeOK
  <2>7. Wires' /\ InOrder'
    <3>1. CASE calls' = calls /\ answers' = answers
      BY <2>1, <3>1 DEF Inv, Wires, InOrder, Pending
    <3>2. CASE calls' = <<>> /\ answers' = <<>>
      <4>1. Pending' = {} /\ Els(calls') = {} /\ Els(answers') = {}
        BY <3>2, NoEls, PendingEls
      <4>2. Sorted(calls') /\ Sorted(answers')
        BY <3>2 DEF Sorted
      <4>3. QED
        BY <4>1, <4>2 DEF Wires, InOrder
    <3>3. QED
      BY <2>3, <3>1, <3>2
  <2>8. Records'
    BY <2>1 DEF Inv, Records, Existing
  <2>9. Sessions'
    BY <2>2, EmptySessionType DEF Sessions, SessionSound
  <2>10. QED
    BY <2>6, <2>7, <2>8, <2>9 DEF Inv
<1>3. ASSUME NEW i \in Invites, Expire(i)
      PROVE  Inv'
  <2>1. UNCHANGED <<savedPeers, visit, open, selectedId, sessions, generating, calls,
                    answers, known, configs, edits, clicks, overlapped>>
    BY <1>3 DEF Expire, page, wires, files, history
  <2>2. expired' = expired \cup {i}
    BY <1>3 DEF Expire
  <2>3. TypeOK'
    BY <2>1, <2>2 DEF Inv, TypeOK
  <2>4. Pending' = Pending /\ Existing' = Existing
    BY <2>1 DEF Pending, Existing
  <2>5. Records'
    BY <2>1, <2>2, <2>4, StillSound DEF Inv, Records
  <2>6. Wires'
    BY <2>1, <2>2, <2>4, StillSound DEF Inv, Wires, SoundCall
  <2>7. InOrder'
    BY <2>1, <2>4 DEF Inv, InOrder
  <2>8. Sessions'
    BY <2>1, <2>2, <2>4 DEF Inv, Sessions, SessionSound, Parses
  <2>9. QED
    BY <2>3, <2>5, <2>6, <2>7, <2>8 DEF Inv
<1>4. QED
  BY <1>1, <1>2, <1>3

\* What an earlier session left behind.
LEMMA StoredIsSound ==
  ASSUME NEW i \in Invites, NEW r \in StoredPeers(i), NEW gone
  PROVE  Sound(r, gone) /\ r.inviteJson = i /\ (r = Repository(i) => HostOf[i] \in Hosts)
<1>1. /\ Sound(Invited(NewPeer, i), gone)
      /\ Invited(NewPeer, i).allocId = AllocOf[i]
      /\ Invited(NewPeer, i).inviteJson = i
  <2>1. NewPeer \in SavedPeer
    BY NewPeerIsSound DEF Sound
  <2>2. QED
    BY <2>1, InvitedIsSound DEF Invited, SavedPeer
<1> DEFINE n == Invited(NewPeer, i)
           k == WithKey(n, i)
<1>2. /\ Sound(k, gone) /\ k.ownerPublicKey # None /\ k.inviteJson = i
  <2>1. Sound(n, gone) /\ n.allocId = AllocOf[i] /\ n.inviteJson = i
    BY <1>1
  <2> HIDE DEF n
  <2>2. Sound(k, gone) /\ k.ownerPublicKey # None
    BY <2>1, WithKeyIsSound
  <2>3. k.inviteJson = n.inviteJson
    BY <2>1 DEF WithKey, Sound, SavedPeer
  <2>4. QED
    BY <2>1, <2>2, <2>3
<1>3. AllocOf[i] \in Allocs /\ HostOf[i] \in Hosts \cup {None}
  BY InviteAssumption
<1>4. Prepared(i) = [k EXCEPT !.hostKeyConfirmedForAllocId = AllocOf[i]]
  BY DEF Prepared
<1> HIDE DEF k
<1> DEFINE q == Prepared(i)
<1>5. /\ q \in SavedPeer
      /\ q.inviteJson = k.inviteJson
      /\ q.allocId = k.allocId
      /\ q.ownerPublicKey = k.ownerPublicKey
      /\ q.responseJson = k.responseJson
      /\ q.lastSftpStatus = k.lastSftpStatus
      /\ q.lastRepoMessage = k.lastRepoMessage
  BY <1>2, <1>3, <1>4 DEF Sound, SavedPeer
<1>6. q.lastRepoMessage = FALSE
  BY <1>5 DEF k, WithKey, Invited, NewPeer
<1> DEFINE w == Repository(i)
<1>7. w = [q EXCEPT !.lastSftpStatus = "ok", !.lastRepoMessage = TRUE]
  BY DEF Repository
<1> HIDE DEF q, w
<1>8. Sound(q, gone)
  BY <1>2, <1>5 DEF Sound
<1>9. /\ w \in SavedPeer
      /\ w.inviteJson = q.inviteJson
      /\ w.allocId = q.allocId
      /\ w.ownerPublicKey = q.ownerPublicKey
      /\ w.responseJson = q.responseJson
      /\ w.lastRepoMessage = TRUE
  BY <1>5, <1>7 DEF SavedPeer, SftpStatus
<1>10. Sound(w, gone)
  BY <1>2, <1>5, <1>8, <1>9 DEF Sound
<1>11. r = q \/ (r = w /\ HostOf[i] # None)
  BY DEF StoredPeers, q, w
<1>12. QED
  BY <1>2, <1>3, <1>5, <1>6, <1>8, <1>9, <1>10, <1>11 DEF w

LEMMA InitInv == Init => Inv
<1> SUFFICES ASSUME Init
             PROVE  Inv
  OBVIOUS
<1>1. ASSUME NEW p \in Existing
      PROVE  \E i \in Invites : savedPeers[p] \in StoredPeers(i)
  BY DEF Init, Existing
<1>2. ASSUME NEW p \in Existing
      PROVE  Sound(savedPeers[p], expired)
  BY <1>1, StoredIsSound
<1>3. savedPeers \in [Peers -> SavedPeer \cup {None}]
  <2>1. \A p \in Peers : savedPeers[p] # None => savedPeers[p] \in SavedPeer
    BY <1>2 DEF Existing, Sound
  <2>2. QED
    BY <2>1 DEF Init
<1>4. configs \in SUBSET (Hosts \X Allocs)
  <2> SUFFICES ASSUME NEW t \in configs
               PROVE  t \in Hosts \X Allocs
    OBVIOUS
  <2>1. PICK j \in Invites, p \in Existing :
          t = <<HostOf[j], AllocOf[j]>> /\ savedPeers[p] = Repository(j)
    BY DEF Init, StoredInvites
  <2>2. PICK i \in Invites : savedPeers[p] \in StoredPeers(i)
    BY <1>1
  <2>3. Repository(j) \in StoredPeers(j) \/ HostOf[j] = None
    BY DEF StoredPeers
  <2>4. Repository(j).inviteJson = j
    BY DEF Repository, Prepared, WithKey, Invited, NewPeer
  <2>5. i = j
    BY <2>1, <2>2, <2>4, StoredIsSound
  <2>6. HostOf[j] \in Hosts
    BY <2>1, <2>2, <2>5, StoredIsSound
  <2>7. QED
    BY <2>1, <2>6, InviteAssumption
<1>5. /\ Pending = {} /\ Els(answers) = {} /\ Els(calls) = {}
  BY NoEls, PendingEls DEF Init
<1>6. TypeOK
  <2>1. sessions \in [Peers -> PeerSession]
    BY EmptySessionType DEF Init
  <2>2. /\ known \in [Hosts -> HostKeys \cup {None}]
        /\ calls \in Seq(Call) /\ answers \in Seq(Call)
    BY EmptySeq DEF Init
  <2>3. visit \in 0..MaxVisits /\ edits \in 0..MaxEdits /\ clicks \in 0..MaxClicks
    BY BoundsAssumption DEF Init
  <2>4. /\ open \in BOOLEAN /\ generating \in BOOLEAN /\ overlapped \in BOOLEAN
        /\ selectedId \in Peers \cup {None}
        /\ expired \in SUBSET Invites
    BY DEF Init
  <2>5. QED
    BY <1>3, <1>4, <2>1, <2>2, <2>3, <2>4 DEF TypeOK
<1>7. Records /\ Wires
  BY <1>2, <1>5 DEF Records, Wires
<1>8. InOrder
  BY <1>5 DEF InOrder, Init, Sorted
<1>9. Sessions
  BY EmptySessionType DEF Init, Sessions, SessionSound
<1>10. QED
  BY <1>6, <1>7, <1>8, <1>9 DEF Inv

LEMMA StepInv ==
  ASSUME Inv, [Next]_vars
  PROVE  Inv'
<1>1. CASE OpenPage \/ LeavePage \/ Restart \/ \E i \in Invites : Expire(i)
  BY <1>1, PageInv
<1>2. ASSUME NEW p \in Peers, Edit(p) \/ Start(p)
      PROVE  Inv'
  BY <1>2, EditInv, StartInv
<1>3. CASE Execute
  BY <1>3, ExecuteInv
<1>4. CASE Answer
  BY <1>4, AnswerInv
<1>5. CASE UNCHANGED vars
  <2>1. UNCHANGED <<savedPeers, visit, open, selectedId, sessions, generating, calls,
                    answers, known, configs, expired, edits, clicks, overlapped>>
    BY <1>5 DEF vars, page, wires, files, history
  <2>2. Pending' = Pending /\ Existing' = Existing
    BY <2>1 DEF Pending, Existing
  <2>3. QED
    BY <2>1, <2>2 DEF Inv, TypeOK, Records, Wires, InOrder, Sessions, SessionSound
<1>6. QED
  BY <1>1, <1>2, <1>3, <1>4, <1>5 DEF Next

\* The inductive invariant of the page, its files and the calls under way.
THEOREM PageInvariant == Spec => []Inv
<1>1. QED
  BY InitInv, StepInv, PTL DEF Spec

\* The variables of the Peer page have their types.
THEOREM TypeCorrect == Spec => []TypeOK
<1>1. Inv => TypeOK
  BY DEF Inv
<1>2. QED
  BY <1>1, PageInvariant, PTL

\* A key, a response and results that are kept with an invite are of its allocation,
\* whatever handlers of the Peer page overlap and however long the user goes on.
THEOREM RecordIsOfOneInvite == Spec => []RecordIsOneInvites
<1>1. Inv => RecordIsOneInvites
  <2> SUFFICES ASSUME Inv, NEW p \in Existing,
                      savedPeers[p].inviteJson \in Invites,
                      savedPeers[p].allocId = AllocOf[savedPeers[p].inviteJson]
               PROVE  LET r == savedPeers[p]
                      IN  /\ r.ownerPublicKey \in {None, AllocOf[r.inviteJson]}
                          /\ r.responseJson = r.ownerPublicKey
                          /\ r.ownerPublicKey = None =>
                               r.lastSftpStatus = None /\ ~r.lastRepoMessage
    BY DEF RecordIsOneInvites
  <2>1. Sound(savedPeers[p], expired)
    BY DEF Inv, Records
  <2>2. savedPeers[p].allocId # None
    BY InviteAssumption, NoneAssumption
  <2>3. QED
    BY <2>1, <2>2 DEF Sound
<1>2. QED
  BY <1>1, PageInvariant, PTL

\* Whether a step keeps the stored key of a host, or loses the whole file in the middle
\* of rewriting it.
Kept(h) == known'[h] = known[h] \/ (Verifying /\ known' = Forgotten)

\* A host key that was stored on first use is never replaced by one that a host
\* presents, by no handler and no verification: it is lost only with all the others,
\* when a verification ends in the middle of rewriting known_fingerprints.json.
THEOREM KnownKeysAreKept == Spec => KnownKeyIsKept
<1>1. Inv /\ [Next]_vars => [\A h \in Hosts : known[h] # None => Kept(h)]_vars
  <2> SUFFICES ASSUME Inv, [Next]_vars, NEW h \in Hosts, known[h] # None
               PROVE  Kept(h)
    OBVIOUS
  <2>1. CASE RunVerify
    <3>1. known \in [Hosts -> HostKeys \cup {None}]
      BY DEF Inv, TypeOK
    <3>2. CASE known' = known
      BY <3>2 DEF Kept
    <3>3. ASSUME NEW key \in HostKeys, ~TofuChanged(key), SaveFingerprint(key)
          PROVE  Kept(h)
      <4>1. CASE known' = [known EXCEPT ![Head(calls).host] = key]
        BY <3>1, <3>3, <4>1 DEF TofuChanged, Kept
      <4>2. CASE known' = Forgotten
        BY <2>1, <4>2 DEF Kept, Verifying, RunVerify, Run
      <4>3. QED
        BY <3>3, <4>1, <4>2 DEF SaveFingerprint
    <3>4. QED
      BY <2>1, <3>2, <3>3 DEF RunVerify
  <2>2. CASE OpenPage \/ LeavePage \/ Restart \/ \E i \in Invites : Expire(i)
    <3>1. CASE Restart
      <4>1. known' = known \/ (Verifying /\ known' = Forgotten)
        BY <3>1 DEF Restart
      <4>2. QED
        BY <4>1 DEF Kept
    <3>2. CASE ~Restart
      BY <2>2, <3>2 DEF OpenPage, LeavePage, Expire, files, Kept
    <3>3. QED
      BY <3>1, <3>2
  <2>3. ASSUME NEW p \in Peers, Edit(p)
        PROVE  Kept(h)
    BY <2>3 DEF Edit, CreateNewPeer, ApplyInviteText, EditManualHost, ConfirmHostKey,
       DeletePeer, SelectPeer, EditStep, files, Kept
  <2>4. ASSUME NEW p \in Peers, Start(p)
        PROVE  Kept(h)
    BY <2>4 DEF Start, HandleFileImport, HandleGenerateKey, HandleAutoSubmit, HandleProbe,
       HandleVerify, HandleRepoConnect, HandleRunBackup, Click, files, Kept
  <2>5. CASE Execute /\ ~RunVerify
    BY <2>5 DEF Execute, RunImport, RunGenerate, RunSubmit, RunProbe, Replied, RunConnect,
       RunBackup, files, Kept
  <2>6. CASE Answer
    BY <2>6 DEF Answer, FileImported, KeyGenerated, Submitted, Probed, Verified,
       RepoConnected, BackedUp, Resume, files, Kept
  <2>7. CASE UNCHANGED vars
    BY <2>7 DEF vars, files, Kept
  <2>8. QED
    BY <2>1, <2>2, <2>3, <2>4, <2>5, <2>6, <2>7 DEF Next
<1>2. QED
  BY <1>1, PageInvariant, PTL DEF Spec, KnownKeyIsKept, Kept
-----------------------------------------------------------------------------
\* The buttons that wait: that of the import does not.
BusyInv == BusyHasCall /\ \A p \in Peers : "import" \notin sessions[p].busy

\* As long as calls are only added to, and no button begins to wait.
LEMMA BusyKept ==
  ASSUME BusyInv,
         \A p \in Peers : sessions'[p].busy \subseteq sessions[p].busy,
         open' => open /\ visit' = visit,
         \A c \in Pending : \E d \in Pending' :
           d.kind = c.kind /\ d.id = c.id /\ d.visit = c.visit
  PROVE  BusyInv'
<1>1. ASSUME open', NEW p \in Peers, NEW k \in sessions'[p].busy
      PROVE  \E d \in Pending' : d.kind = k /\ d.id = p /\ d.visit = visit'
  <2>1. PICK c \in Pending : c.kind = k /\ c.id = p /\ c.visit = visit
    BY <1>1 DEF BusyInv, BusyHasCall
  <2>2. QED
    BY <1>1, <2>1
<1>2. \A p \in Peers : "import" \notin sessions'[p].busy
  BY DEF BusyInv
<1>3. QED
  BY <1>1, <1>2 DEF BusyInv, BusyHasCall

\* The call that a click adds.
LEMMA ClickedCall ==
  ASSUME Inv, NEW kind \in Kinds, NEW p \in Peers, Click(kind, p)
  PROVE  \E call \in Call :
           /\ calls' = Append(calls, call)
           /\ Pending' = Pending \cup {call}
           /\ call.kind = kind /\ call.id = p /\ call.visit = visit
           /\ call.saved = savedPeers[p] /\ call.saved \in SavedPeer
           /\ call.host = EffectiveHost(savedPeers[p])
           /\ savedPeers[p].inviteJson \in Invites => call.invite = savedPeers[p].inviteJson
<1> DEFINE r == savedPeers[p]
           call == [kind |-> kind, id |-> p, saved |-> r,
                    invite |-> IF r.inviteJson \in Invites THEN r.inviteJson ELSE None,
                    host |-> EffectiveHost(r), visit |-> visit, outcome |-> None,
                    key |-> None]
<1>1. r \in SavedPeer
  BY DEF Click, OnSelected, Inv, Records, Sound
<1>2. EffectiveHost(r) \in Hosts \cup {None}
  BY <1>1 DEF EffectiveHost, SavedPeer
<1>3. call \in Call
  BY <1>1, <1>2 DEF Call, Inv, TypeOK, Outcomes
<1>4. /\ calls \in Seq(Call) /\ answers \in Seq(Call)
      /\ calls' = Append(calls, call) /\ answers' = answers
  BY DEF Inv, TypeOK, Click
<1>5. Pending' = Pending \cup {call}
  <2> HIDE DEF call
  <2>1. QED
    BY <1>3, <1>4, AppendEls, PendingEls
<1>6. QED
  BY <1>1, <1>3, <1>4, <1>5

\* The call that the Rust process runs, and the answer it becomes.
LEMMA ExecutedCall ==
  ASSUME Inv, Execute
  PROVE  \E c \in Pending, a \in Call :
           /\ calls # <<>> /\ calls' = Tail(calls) /\ answers' = Append(answers, a)
           /\ Pending' \subseteq Pending \cup {a}
           /\ a \in Pending'
           /\ \A x \in Pending : x = c \/ x \in Pending'
           /\ a.kind = c.kind /\ a.id = c.id /\ a.visit = c.visit /\ a.saved = c.saved
           /\ a.invite = c.invite /\ a.host = c.host
<1>1. PICK outcome \in Outcomes, key \in HostKeys \cup {None} : Reply(outcome, key)
  BY DEF Execute, RunImport, RunGenerate, RunSubmit, RunProbe, Replied, RunVerify,
     RunConnect, RunBackup, Outcomes, SftpStatus
<1> DEFINE c == Head(calls)
           a == [c EXCEPT !.outcome = outcome, !.key = key]
<1>2. /\ calls # <<>> /\ calls' = Tail(calls) /\ answers' = Append(answers, a)
      /\ calls \in Seq(Call) /\ answers \in Seq(Call)
  BY <1>1 DEF Execute, RunImport, RunGenerate, RunSubmit, RunProbe, RunVerify, RunConnect,
     RunBackup, Run, Reply, Inv, TypeOK
<1>3. /\ c \in Els(calls) /\ Els(calls') \subseteq Els(calls) /\ c \in Call
      /\ \A x \in Els(calls) : x = c \/ x \in Els(calls')
  BY <1>2, TailEls, HeadTailProperties
<1>4. /\ a \in Call
      /\ a.kind = c.kind /\ a.id = c.id /\ a.visit = c.visit /\ a.saved = c.saved
      /\ a.invite = c.invite /\ a.host = c.host
  BY <1>3 DEF Call
<1> HIDE DEF a, c
<1>5. Els(answers') = Els(answers) \cup {a}
  BY <1>2, <1>4, AppendEls
<1>6. /\ c \in Pending
      /\ Pending' \subseteq Pending \cup {a}
      /\ a \in Pending'
      /\ \A x \in Pending : x = c \/ x \in Pending'
  BY <1>3, <1>5, PendingEls
<1>7. QED
  BY <1>2, <1>4, <1>6

\* The answer that a handler goes on with.
LEMMA ResumedAnswer ==
  ASSUME Inv, NEW kind, Resume(kind), NEW a, a = Head(answers)
  PROVE  /\ a \in Pending /\ a \in Call /\ a.kind = kind /\ a.id \in Peers
         /\ Pending' \subseteq Pending
         /\ \A x \in Pending : x = a \/ x \in Pending'
         /\ SoundCall(a, expired) /\ SoundAnswer(a)
         /\ sessions \in [Peers -> PeerSession]
<1>1. /\ answers # <<>> /\ answers \in Seq(Call) /\ answers' = Tail(answers)
      /\ calls' = calls
  BY DEF Resume, Inv, TypeOK
<1>2. /\ a \in Els(answers) /\ Els(answers') \subseteq Els(answers)
      /\ \A x \in Els(answers) : x = a \/ x \in Els(answers')
  BY <1>1, TailEls
<1>3. /\ a \in Pending
      /\ Pending' \subseteq Pending
      /\ \A x \in Pending : x = a \/ x \in Pending'
  BY <1>1, <1>2, PendingEls
<1>4. QED
  BY <1>3, HeadIsSound

\* A button that begins to wait does so for the call it asks.
LEMMA BusyOfClick ==
  ASSUME Inv, BusyInv, NEW kind \in Kinds, NEW p \in Peers, Click(kind, p),
         UNCHANGED sessions \/ (kind # "import" /\ Busy(kind, p))
  PROVE  BusyInv'
<1>1. PICK call \in Call : /\ Pending' = Pending \cup {call}
                           /\ call.kind = kind /\ call.id = p /\ call.visit = visit
  BY ClickedCall
<1>2. visit' = visit /\ open
  BY DEF Click
<1>3. ASSUME NEW q \in Peers
      PROVE  sessions'[q].busy \subseteq sessions[q].busy
               \/ (q = p /\ kind # "import" /\ sessions'[q].busy = sessions[q].busy \cup {kind})
  BY DEF Busy, Inv, TypeOK, PeerSession
<1>4. ASSUME NEW q \in Peers, NEW k \in sessions'[q].busy
      PROVE  \E d \in Pending' : d.kind = k /\ d.id = q /\ d.visit = visit'
  <2>1. CASE k \in sessions[q].busy
    BY <1>1, <1>2, <2>1 DEF BusyInv, BusyHasCall
  <2>2. CASE q = p /\ k = kind
    BY <1>1, <1>2, <2>2
  <2>3. QED
    BY <1>3, <1>4, <2>1, <2>2
<1>5. \A q \in Peers : "import" \notin sessions'[q].busy
  BY <1>3 DEF BusyInv
<1>6. QED
  BY <1>4, <1>5 DEF BusyInv, BusyHasCall

\* The button whose call was answered is given back, if the page is still the one it
\* was pressed on.
LEMMA BusyOfAnswer ==
  ASSUME Inv, BusyInv, NEW kind, Resume(kind), NEW a, a = Head(answers),
         NEW s \in PeerSession, s.busy = sessions[a.id].busy \ {kind}, PatchSession(a, s)
  PROVE  BusyInv'
<1>1. /\ a \in Pending /\ a.kind = kind /\ a.id \in Peers
      /\ \A x \in Pending : x = a \/ x \in Pending'
      /\ sessions \in [Peers -> PeerSession]
  BY ResumedAnswer
<1>2. visit' = visit /\ open' = open
  BY DEF Resume
<1>3. /\ Live(a) => sessions' = [sessions EXCEPT ![a.id] = s]
      /\ ~Live(a) => sessions' = sessions
  BY DEF PatchSession
<1>4. \A q \in Peers : sessions'[q].busy \subseteq sessions[q].busy
  BY <1>1, <1>3
<1>5. ASSUME open', NEW q \in Peers, NEW k \in sessions'[q].busy
      PROVE  \E d \in Pending' : d.kind = k /\ d.id = q /\ d.visit = visit'
  <2>1. PICK c \in Pending : c.kind = k /\ c.id = q /\ c.visit = visit
    BY <1>2, <1>4, <1>5 DEF BusyInv, BusyHasCall
  <2>2. CASE c = a
    <3>1. Live(a) /\ q = a.id /\ k = kind
      BY <1>1, <1>2, <1>5, <2>1, <2>2 DEF Live
    <3>2. sessions'[q].busy = s.busy
      BY <1>1, <1>3, <3>1
    <3>3. QED
      BY <1>5, <3>1, <3>2
  <2>3. CASE c # a
    BY <1>1, <1>2, <2>1, <2>3
  <2>4. QED
    BY <2>2, <2>3
<1>6. \A q \in Peers : "import" \notin sessions'[q].busy
  BY <1>4 DEF BusyInv
<1>7. QED
  BY <1>5, <1>6 DEF BusyInv, BusyHasCall

\* Another text leaves the buttons.
LEMMA TextKeepsBusy ==
  ASSUME NEW s \in PeerSession, NEW text, NEW gone
  PROVE  /\ SessionWithText(s, text, gone) \in PeerSession
         /\ SessionWithText(s, text, gone).busy = s.busy
<1>1. ~Parses(None, gone)
  BY NoneAssumption DEF Parses
<1>2. SessionWithText(s, text, gone) \in
        {s, [s EXCEPT !.sftpResult = None, !.repoResult = None],
         [s EXCEPT !.sftpResult = None, !.repoResult = None, !.submitted = FALSE]}
  BY <1>1 DEF SessionWithText
<1>3. QED
  BY <1>2 DEF PeerSession

\* Every button that waits is given back: the handler that will do so has its call
\* under way, whatever the command answers and whatever became of the page or peer.
THEOREM WaitingButtonHasCall == Spec => []BusyHasCall
<1>1. Init => BusyInv
  BY DEF Init, BusyInv, BusyHasCall, EmptySession
<1>2. Inv /\ BusyInv /\ [Next]_vars => BusyInv'
  <2> SUFFICES ASSUME Inv, BusyInv, [Next]_vars
               PROVE  BusyInv'
    OBVIOUS
  <2>1. CASE OpenPage
    <3>1. sessions' = sessions /\ \A p \in Peers : sessions[p].busy = {}
      BY <2>1 DEF OpenPage, Inv, Sessions, EmptySession
    <3>2. QED
      BY <3>1 DEF BusyInv, BusyHasCall
  <2>2. CASE LeavePage \/ Restart
    BY <2>2 DEF LeavePage, Restart, Unmount, BusyInv, BusyHasCall, EmptySession
  <2>3. ASSUME NEW i \in Invites, Expire(i)
        PROVE  BusyInv'
    BY <2>3, BusyKept DEF Expire, page, wires, Pending
  <2>4. ASSUME NEW p \in Peers, Edit(p)
        PROVE  BusyInv'
    <3>1. /\ \A q \in Peers : sessions'[q].busy \subseteq sessions[q].busy
          /\ UNCHANGED <<open, visit, calls, answers>>
      <4>1. CASE \E text \in Texts : ApplyInviteText(p, text)
        <5>1. PICK text \in Texts : ApplyInviteText(p, text)
          BY <4>1
        <5> DEFINE s == SessionWithText(sessions[p], text, expired)
        <5>2. sessions' = [sessions EXCEPT ![p] = s] /\ sessions[p] \in PeerSession
          BY <5>1 DEF ApplyInviteText, Inv, TypeOK
        <5>3. s.busy = sessions[p].busy
          BY <5>2, TextKeepsBusy
        <5>4. QED
          BY <5>1, <5>2, <5>3 DEF ApplyInviteText, EditStep, wires, Inv, TypeOK
      <4>2. CASE \E h \in Hosts \cup {None} : EditManualHost(p, h)
        BY <4>2 DEF EditManualHost, EditStep, wires, Inv, TypeOK, PeerSession
      <4>3. CASE CreateNewPeer(p) \/ (\E checked \in BOOLEAN : ConfirmHostKey(p, checked))
                 \/ DeletePeer(p)
        BY <4>3 DEF CreateNewPeer, ConfirmHostKey, DeletePeer, EditStep, wires
      <4>4. CASE SelectPeer(p)
        BY <4>4 DEF SelectPeer, wires
      <4>5. QED
        BY <2>4, <4>1, <4>2, <4>3, <4>4 DEF Edit
    <3>2. QED
      BY <3>1, BusyKept DEF Pending
  <2>5. ASSUME NEW p \in Peers, Start(p)
        PROVE  BusyInv'
    BY <2>5, BusyOfClick DEF Start, HandleFileImport, HandleGenerateKey, HandleAutoSubmit,
       HandleProbe, HandleVerify, HandleRepoConnect, HandleRunBackup, Kinds
  <2>6. CASE Execute
    <3>1. UNCHANGED <<sessions, open, visit>>
      BY <2>6 DEF Execute, RunImport, RunGenerate, RunSubmit, RunProbe, RunVerify,
         RunConnect, RunBackup, Run, page
    <3>2. \A c \in Pending : \E d \in Pending' :
            d.kind = c.kind /\ d.id = c.id /\ d.visit = c.visit
      BY <2>6, ExecutedCall
    <3>3. QED
      BY <3>1, <3>2, BusyKept
  <2> DEFINE a == Head(answers)
  <2>7. CASE FileImported
    <3>1. Resume("import")
      BY <2>7 DEF FileImported
    <3>2. /\ a.id \in Peers /\ sessions \in [Peers -> PeerSession]
          /\ sessions[a.id].busy = sessions[a.id].busy \ {"import"}
      BY <3>1, ResumedAnswer DEF BusyInv
    <3>3. CASE UNCHANGED sessions
      <4>1. PatchSession(a, sessions[a.id])
        BY <3>2, <3>3 DEF PatchSession
      <4>2. QED
        BY <3>1, <3>2, <4>1, BusyOfAnswer
    <3>4. CASE PatchSession(a, SessionWithText(sessions[a.id], a.outcome, expired))
      BY <3>1, <3>2, <3>4, TextKeepsBusy, BusyOfAnswer
    <3>5. QED
      BY <2>7, <3>3, <3>4 DEF FileImported
  <2>8. ASSUME NEW kind, Resume(kind), NEW s \in PeerSession,
               s.busy = Idle(a).busy, PatchSession(a, s)
        PROVE  BusyInv'
    <3>1. a.id \in Peers /\ a.kind = kind /\ sessions \in [Peers -> PeerSession]
      BY <2>8, ResumedAnswer
    <3>2. s.busy = sessions[a.id].busy \ {kind}
      BY <2>8, <3>1, IdleType
    <3>3. QED
      BY <2>8, <3>2, BusyOfAnswer
  <2>9. ASSUME NEW kind, Resume(kind)
        PROVE  /\ Idle(a) \in PeerSession
               /\ [Idle(a) EXCEPT !.submitted = (a.outcome = "ok")] \in PeerSession
               /\ [Idle(a) EXCEPT !.submitted = (a.outcome = "ok")].busy = Idle(a).busy
    <3>1. Idle(a) \in PeerSession
      BY <2>9, ResumedAnswer, IdleType
    <3>2. QED
      BY <3>1 DEF PeerSession
  <2>10. CASE KeyGenerated \/ Probed \/ BackedUp
    BY <2>8, <2>9, <2>10 DEF KeyGenerated, Probed, BackedUp
  <2>11. CASE Submitted
    BY <2>8, <2>9, <2>11 DEF Submitted
  <2>12. CASE Verified
    <3> DEFINE res == [status |-> VerifyStatus(a), host |-> a.host, invite |-> a.invite]
    <3>1. Resume("verify") /\ PatchSession(a, [Idle(a) EXCEPT !.sftpResult = res])
      BY <2>12 DEF Verified
    <3>2. a.host \in Hosts /\ a.invite \in Invites /\ a.outcome \in SftpStatus
      BY <3>1, ResumedAnswer DEF SoundCall, SoundAnswer
    <3>3. res \in Result
      BY <3>2 DEF Result, VerifyStatus, SftpStatus
    <3> HIDE DEF res
    <3>4. Idle(a) \in PeerSession
      BY <2>9, <3>1
    <3>5. /\ [Idle(a) EXCEPT !.sftpResult = res] \in PeerSession
          /\ [Idle(a) EXCEPT !.sftpResult = res].busy = Idle(a).busy
      BY <3>3, <3>4 DEF PeerSession
    <3>6. QED
      BY <2>8, <3>1, <3>5
  <2>13. CASE RepoConnected
    <3> DEFINE res == [status |-> IF a.outcome = "ok" THEN "ok" ELSE "error",
                       host |-> a.host, invite |-> a.invite]
    <3>1. Resume("connect") /\ PatchSession(a, [Idle(a) EXCEPT !.repoResult = res])
      BY <2>13 DEF RepoConnected
    <3>2. a.host \in Hosts /\ a.invite \in Invites
      BY <3>1, ResumedAnswer DEF SoundCall
    <3>3. res \in Result
      BY <3>2 DEF Result, SftpStatus
    <3> HIDE DEF res
    <3>4. Idle(a) \in PeerSession
      BY <2>9, <3>1
    <3>5. /\ [Idle(a) EXCEPT !.repoResult = res] \in PeerSession
          /\ [Idle(a) EXCEPT !.repoResult = res].busy = Idle(a).busy
      BY <3>3, <3>4 DEF PeerSession
    <3>6. QED
      BY <2>8, <3>1, <3>5
  <2>14. CASE UNCHANGED vars
    BY <2>14, BusyKept DEF vars, page, wires, Pending
  <2>15. QED
    BY <2>1, <2>2, <2>3, <2>4, <2>5, <2>6, <2>7, <2>10, <2>11, <2>12, <2>13, <2>14
       DEF Next, Answer
<1>3. BusyInv => BusyHasCall
  BY DEF BusyInv
<1>4. QED
  BY <1>1, <1>2, <1>3, PageInvariant, PTL DEF Spec
-----------------------------------------------------------------------------
\* A result is none, no success, or one of the invite and the host of a record.
ResultOf(x, r) ==
  x # None /\ x.status = "ok" => x.invite = r.inviteJson /\ x.host = EffectiveHost(r)

Matches(s, r) == ResultOf(s.sftpResult, r) /\ ResultOf(s.repoResult, r)

\* As long as no two calls have overlapped, at most one is under way; the results on
\* its page are those of the record it took along, and those of a peer of its record.
MatchInv ==
  ~overlapped =>
    /\ Len(calls) + Len(answers) <= 1
    /\ \A c \in Pending : c.host = EffectiveHost(c.saved)
    /\ \A c \in Pending : c.saved.inviteJson \in Invites => c.invite = c.saved.inviteJson
    /\ \A c \in Pending : Live(c) /\ Parses(c.saved.inviteJson, expired) =>
         Matches(sessions[c.id], c.saved)
    /\ \A p \in Peers : sessions[p].repoResult # None => \A c \in Pending : c.visit = visit
    /\ \A p \in Existing : Parses(savedPeers[p].inviteJson, expired) =>
         Matches(sessions[p], savedPeers[p])

\* Results are kept or dropped with the record they are of.
LEMMA MatchesLess ==
  ASSUME NEW s, NEW r, Matches(s, r),
         NEW t, t.sftpResult \in {s.sftpResult, None}, t.repoResult \in {s.repoResult, None},
         NEW q, q.inviteJson = r.inviteJson, EffectiveHost(q) = EffectiveHost(r)
  PROVE  Matches(t, q)
  BY DEF Matches, ResultOf

\* Whose call is answered is alone: nothing is under way any more.
LEMMA MatchOfAnswer ==
  ASSUME Inv, MatchInv, NEW kind, Resume(kind), NEW a, a = Head(answers),
         \A p \in Peers \ {a.id} : savedPeers'[p] = savedPeers[p] /\ sessions'[p] = sessions[p],
         ~Live(a) => sessions' = sessions,
         ~overlapped /\ Live(a) =>
           (savedPeers'[a.id] # None /\ Parses(savedPeers'[a.id].inviteJson, expired) =>
              Matches(sessions'[a.id], savedPeers'[a.id]))
  PROVE  MatchInv'
<1> SUFFICES ASSUME ~overlapped
             PROVE  MatchInv'
  BY DEF Resume, history, MatchInv
<1>1. /\ answers # <<>> /\ answers \in Seq(Call) /\ calls \in Seq(Call)
      /\ answers' = Tail(answers) /\ calls' = calls
      /\ UNCHANGED <<visit, open, expired, overlapped>>
  BY DEF Resume, Inv, TypeOK, history
<1>2. /\ a \in Pending /\ a.id \in Peers
  BY ResumedAnswer
<1>3. Len(answers') = 0 /\ Len(calls') = 0
  <2>1. Len(answers) + Len(calls) <= 1
    BY LenProperties, <1>1 DEF MatchInv
  <2>2. Len(answers) \in Nat \ {0} /\ Len(calls) \in Nat /\ Len(answers') = Len(answers) - 1
    BY <1>1, EmptySeq, LenProperties, HeadTailProperties
  <2>3. QED
    BY <1>1, <2>1, <2>2
<1>4. Pending' = {}
  BY <1>3 DEF Pending
<1>5. ASSUME NEW p \in Existing', Parses(savedPeers'[p].inviteJson, expired)
      PROVE  Matches(sessions'[p], savedPeers'[p])
  <2>1. CASE p # a.id
    BY <1>5, <2>1 DEF MatchInv, Existing
  <2>2. CASE p = a.id /\ Live(a)
    BY <1>5, <2>2 DEF Existing
  <2>3. CASE p = a.id /\ ~Live(a)
    <3>1. sessions[a.id].sftpResult = None
      BY <1>2, <2>3, ResultIsLive
    <3>2. sessions[a.id].repoResult = None
      <4>1. SUFFICES ASSUME sessions[a.id].repoResult # None
                     PROVE  FALSE
        OBVIOUS
      <4>2. a.visit = visit
        BY <1>2, <4>1 DEF MatchInv
      <4>3. open
        BY <1>2, <4>1 DEF Inv, Sessions, EmptySession
      <4>4. QED
        BY <2>3, <4>2, <4>3 DEF Live
    <3>3. QED
      BY <2>3, <3>1, <3>2 DEF Matches, ResultOf
  <2>4. QED
    BY <2>1, <2>2, <2>3
<1>6. QED
  BY <1>1, <1>3, <1>4, <1>5 DEF MatchInv

\* What is shown and taken along does not change, nor what is under way.
LEMMA MatchKept ==
  ASSUME Inv, MatchInv, UNCHANGED <<savedPeers, sessions, calls, answers, overlapped>>,
         expired \subseteq expired',
         \/ UNCHANGED <<open, visit>>
         \/ sessions = [p \in Peers |-> EmptySession]
  PROVE  MatchInv'
<1>1. Pending' = Pending /\ Existing' = Existing
  BY DEF Pending, Existing
<1>2. CASE UNCHANGED <<open, visit>>
  BY <1>1, <1>2 DEF MatchInv, Live, Parses
<1>3. CASE sessions = [p \in Peers |-> EmptySession]
  <2>1. \A p \in Peers : /\ sessions[p].sftpResult = None /\ sessions[p].repoResult = None
                         /\ sessions'[p].sftpResult = None /\ sessions'[p].repoResult = None
    BY <1>3 DEF EmptySession
  <2>2. \A c \in Pending : c.id \in Peers
    BY CallIsTyped DEF Inv, Call
  <2>3. \A p \in Peers : \A r : Matches(sessions'[p], r)
    BY <2>1 DEF Matches, ResultOf
  <2>4. \A p \in Existing : p \in Peers
    BY DEF Existing
  <2>5. QED
    BY <1>1, <2>1, <2>2, <2>3, <2>4 DEF MatchInv
<1>4. QED
  BY <1>2, <1>3

LEMMA NothingPending ==
  ASSUME TypeOK, Pending = {}
  PROVE  Len(calls) = 0 /\ Len(answers) = 0
<1>1. /\ Len(calls) \in Nat /\ Len(answers) \in Nat
      /\ \A i \in 1..Len(calls) : calls[i] \in Pending
      /\ \A i \in 1..Len(answers) : answers[i] \in Pending
  BY LenProperties DEF TypeOK, Pending
<1>2. 1 \notin 1..Len(calls) /\ 1 \notin 1..Len(answers)
  BY <1>1
<1>3. QED
  BY <1>1, <1>2

\* A first call takes along the record whose results are shown.
LEMMA MatchOfClick ==
  ASSUME Inv, MatchInv, NEW kind \in Kinds, NEW p \in Peers, Click(kind, p),
         UNCHANGED sessions \/ Busy(kind, p)
  PROVE  MatchInv'
<1> SUFFICES ASSUME ~overlapped'
             PROVE  MatchInv'
  BY DEF MatchInv
<1>1. /\ ~overlapped /\ Pending = {} /\ open
      /\ UNCHANGED <<savedPeers, visit, open, answers, expired>>
      /\ p \in Existing
  BY DEF Click, OnSelected
<1>2. PICK call \in Call :
        /\ calls' = Append(calls, call)
        /\ Pending' = Pending \cup {call}
        /\ call.kind = kind /\ call.id = p /\ call.visit = visit
        /\ call.saved = savedPeers[p] /\ call.saved \in SavedPeer
        /\ call.host = EffectiveHost(savedPeers[p])
        /\ savedPeers[p].inviteJson \in Invites => call.invite = savedPeers[p].inviteJson
  BY ClickedCall
<1>3. Len(calls') + Len(answers') <= 1
  <2>1. Len(calls) = 0 /\ Len(answers) = 0 /\ calls \in Seq(Call)
    BY <1>1, NothingPending DEF Inv, TypeOK
  <2>2. Len(calls') = Len(calls) + 1
    BY <1>2, <2>1, AppendProperties
  <2>3. QED
    BY <1>1, <2>1, <2>2
<1>4. Pending' = {call} /\ Existing' = Existing /\ expired' = expired
  BY <1>1, <1>2 DEF Existing
<1>5. ASSUME NEW q \in Peers
      PROVE  /\ sessions'[q].sftpResult = sessions[q].sftpResult
             /\ sessions'[q].repoResult = sessions[q].repoResult
  BY DEF Busy, Inv, TypeOK, PeerSession
<1>6. ASSUME NEW q \in Existing, Parses(savedPeers[q].inviteJson, expired)
      PROVE  Matches(sessions'[q], savedPeers[q])
  <2>1. q \in Peers /\ Matches(sessions[q], savedPeers[q])
    BY <1>1, <1>6 DEF MatchInv, Existing
  <2>2. QED
    BY <1>5, <2>1, MatchesLess
<1>7. /\ \A c \in Pending' : c.host = EffectiveHost(c.saved)
      /\ \A c \in Pending' : c.saved.inviteJson \in Invites => c.invite = c.saved.inviteJson
      /\ \A c \in Pending' : c.visit = visit'
  BY <1>1, <1>2, <1>4
<1>8. \A c \in Pending' : Parses(c.saved.inviteJson, expired') =>
        Matches(sessions'[c.id], c.saved)
  BY <1>1, <1>2, <1>4, <1>6
<1>9. \A q \in Existing' : Parses(savedPeers'[q].inviteJson, expired') =>
        Matches(sessions'[q], savedPeers'[q])
  BY <1>1, <1>4, <1>6
<1>10. QED
  BY <1>3, <1>7, <1>8, <1>9 DEF MatchInv

\* The call that is run is the only one.
LEMMA MatchOfExecute ==
  ASSUME Inv, MatchInv, Execute
  PROVE  MatchInv'
<1>1. UNCHANGED <<savedPeers, sessions, open, visit, expired, overlapped>>
  BY DEF Execute, RunImport, RunGenerate, RunSubmit, RunProbe, RunVerify, RunConnect,
     RunBackup, Run, page, history
<1> SUFFICES ASSUME ~overlapped
             PROVE  MatchInv'
  BY <1>1 DEF MatchInv
<1>2. PICK c \in Pending, a \in Call :
        /\ calls # <<>> /\ calls' = Tail(calls) /\ answers' = Append(answers, a)
        /\ a.kind = c.kind /\ a.id = c.id /\ a.visit = c.visit /\ a.saved = c.saved
        /\ a.invite = c.invite /\ a.host = c.host
  BY ExecutedCall
<1>3. /\ calls \in Seq(Call) /\ answers \in Seq(Call)
      /\ Len(calls) + Len(answers) <= 1
  BY DEF Inv, TypeOK, MatchInv
<1>4. /\ Len(calls) = 1 /\ Len(answers) = 0
      /\ Len(calls') = 0 /\ Len(answers') = 1 /\ answers'[1] = a
  <2>1. Len(calls) \in Nat \ {0} /\ Len(answers) \in Nat
    BY <1>2, <1>3, EmptySeq, LenProperties
  <2>2. Len(calls') = Len(calls) - 1
    BY <1>2, <1>3, HeadTailProperties
  <2>3. /\ Len(answers') = Len(answers) + 1
        /\ answers'[Len(answers) + 1] = a
    BY <1>2, <1>3, AppendProperties
  <2>4. QED
    BY <1>3, <2>1, <2>2, <2>3
<1>5. Pending' = {a} /\ Len(calls') + Len(answers') <= 1
  BY <1>4 DEF Pending
<1>6. Existing' = Existing
  BY <1>1 DEF Existing
<1>7. /\ \A x \in Pending' : x.host = EffectiveHost(x.saved)
      /\ \A x \in Pending' : x.saved.inviteJson \in Invites => x.invite = x.saved.inviteJson
      /\ \A p \in Peers : sessions'[p].repoResult # None =>
           \A x \in Pending' : x.visit = visit'
  BY <1>1, <1>2, <1>5 DEF MatchInv
<1>8. \A x \in Pending' : Live(x)' /\ Parses(x.saved.inviteJson, expired') =>
        Matches(sessions'[x.id], x.saved)
  BY <1>1, <1>2, <1>5 DEF MatchInv, Live
<1>9. \A p \in Existing' : Parses(savedPeers'[p].inviteJson, expired') =>
        Matches(sessions'[p], savedPeers'[p])
  BY <1>1, <1>6 DEF MatchInv
<1>10. QED
  BY <1>5, <1>7, <1>8, <1>9 DEF MatchInv

\* An edit drops the results, or neither the invite nor the host is another.
LEMMA MatchOfEdit ==
  ASSUME Inv, MatchInv, NEW p \in Peers, EditStep,
         \A q \in Peers \ {p} : savedPeers'[q] = savedPeers[q] /\ sessions'[q] = sessions[q],
         \/ sessions'[p] = sessions[p]
         \/ sessions'[p].sftpResult = None /\ sessions'[p].repoResult = None,
         savedPeers'[p] # None /\ Parses(savedPeers'[p].inviteJson, expired) =>
           \/ sessions'[p].sftpResult = None /\ sessions'[p].repoResult = None
           \/ /\ savedPeers[p] # None
              /\ savedPeers'[p].inviteJson = savedPeers[p].inviteJson
              /\ EffectiveHost(savedPeers'[p]) = EffectiveHost(savedPeers[p])
  PROVE  MatchInv'
<1>1. UNCHANGED <<open, visit, calls, answers, expired, overlapped>>
  BY DEF EditStep, wires
<1> SUFFICES ASSUME ~overlapped
             PROVE  MatchInv'
  BY <1>1 DEF MatchInv
<1>2. Pending' = Pending
  BY <1>1 DEF Pending
<1>3. ASSUME NEW q \in Peers, NEW r, Matches(sessions[q], r)
      PROVE  Matches(sessions'[q], r)
  BY <1>3 DEF Matches, ResultOf
<1>4. \A c \in Pending : c.id \in Peers
  BY CallIsTyped DEF Inv, Call
<1>5. \A c \in Pending' : Live(c)' /\ Parses(c.saved.inviteJson, expired') =>
        Matches(sessions'[c.id], c.saved)
  BY <1>1, <1>2, <1>3, <1>4 DEF MatchInv, Live
<1>6. \A q \in Peers : sessions'[q].repoResult # None =>
        \A c \in Pending' : c.visit = visit'
  BY <1>1, <1>2 DEF MatchInv
<1>7. ASSUME NEW q \in Existing', Parses(savedPeers'[q].inviteJson, expired)
      PROVE  Matches(sessions'[q], savedPeers'[q])
  <2>1. CASE q # p
    BY <1>7, <2>1 DEF MatchInv, Existing
  <2>2. CASE q = p /\ sessions'[p].sftpResult = None /\ sessions'[p].repoResult = None
    BY <2>2 DEF Matches, ResultOf
  <2>3. CASE /\ q = p /\ savedPeers[p] # None
             /\ savedPeers'[p].inviteJson = savedPeers[p].inviteJson
             /\ EffectiveHost(savedPeers'[p]) = EffectiveHost(savedPeers[p])
    <3>1. Matches(sessions[p], savedPeers[p])
      BY <1>7, <2>3 DEF MatchInv, Existing
    <3>2. Matches(sessions'[p], savedPeers[p])
      BY <1>3, <3>1
    <3>3. QED
      BY <2>3, <3>2, MatchesLess
  <2>4. QED
    BY <1>7, <2>1, <2>2, <2>3 DEF Existing
<1>8. QED
  BY <1>1, <1>2, <1>5, <1>6, <1>7 DEF MatchInv

\* The answer writes a record back that the results on the page are of ...
LEMMA MatchOfWritten ==
  ASSUME Inv, MatchInv, NEW kind, Resume(kind), NEW a, a = Head(answers),
         NEW r, Upsert(a, r), NEW s, PatchSession(a, s),
         ~overlapped /\ Live(a) /\ Parses(r.inviteJson, expired) => Matches(s, r)
  PROVE  MatchInv'
<1>1. a.id \in Peers
  BY ResumedAnswer
<1>2. savedPeers \in [Peers -> SavedPeer \cup {None}] /\ sessions \in [Peers -> PeerSession]
  BY DEF Inv, TypeOK
<1>3. /\ savedPeers' = [savedPeers EXCEPT ![a.id] = r]
      /\ sessions' = IF Live(a) THEN [sessions EXCEPT ![a.id] = s] ELSE sessions
  BY DEF Upsert, PatchSession
<1>4. /\ \A p \in Peers \ {a.id} : savedPeers'[p] = savedPeers[p] /\ sessions'[p] = sessions[p]
      /\ savedPeers'[a.id] = r
      /\ Live(a) => sessions'[a.id] = s
      /\ ~Live(a) => sessions' = sessions
  BY <1>1, <1>2, <1>3
<1>5. QED
  BY <1>4, MatchOfAnswer

\* ... or none, and adds no success to the results.
LEMMA MatchOfUnwritten ==
  ASSUME Inv, MatchInv, NEW kind, Resume(kind), NEW a, a = Head(answers),
         NoUpsert, NEW s, PatchSession(a, s),
         s.sftpResult = sessions[a.id].sftpResult,
         s.repoResult = sessions[a.id].repoResult \/ s.repoResult.status # "ok"
  PROVE  MatchInv'
<1>1. a.id \in Peers
  BY ResumedAnswer
<1>2. sessions \in [Peers -> PeerSession]
  BY DEF Inv, TypeOK
<1>3. /\ savedPeers' = savedPeers
      /\ sessions' = IF Live(a) THEN [sessions EXCEPT ![a.id] = s] ELSE sessions
  BY DEF NoUpsert, PatchSession
<1>4. /\ \A p \in Peers \ {a.id} : savedPeers'[p] = savedPeers[p] /\ sessions'[p] = sessions[p]
      /\ Live(a) => sessions'[a.id] = s
      /\ ~Live(a) => sessions' = sessions
  BY <1>1, <1>2, <1>3
<1>5. ASSUME ~overlapped, savedPeers[a.id] # None, Parses(savedPeers[a.id].inviteJson, expired)
      PROVE  Matches(s, savedPeers[a.id])
  <2>1. Matches(sessions[a.id], savedPeers[a.id])
    BY <1>1, <1>5 DEF MatchInv, Existing
  <2>2. QED
    BY <2>1 DEF Matches, ResultOf
<1>6. QED
  BY <1>3, <1>4, <1>5, MatchOfAnswer

\* What is known of the record that an answer took along.
LEMMA AnswerOf ==
  ASSUME Inv, MatchInv, NEW kind, Resume(kind), NEW a, a = Head(answers)
  PROVE  /\ a.id \in Peers /\ a.saved \in SavedPeer /\ SoundCall(a, expired) /\ SoundAnswer(a)
         /\ a.kind = kind
         /\ Idle(a) \in PeerSession
         /\ Idle(a).sftpResult = sessions[a.id].sftpResult
         /\ Idle(a).repoResult = sessions[a.id].repoResult
         /\ ~overlapped => /\ a.host = EffectiveHost(a.saved)
                           /\ a.saved.inviteJson \in Invites => a.invite = a.saved.inviteJson
         /\ ~overlapped /\ Live(a) /\ Parses(a.saved.inviteJson, expired) =>
              Matches(Idle(a), a.saved)
<1>1. /\ a \in Pending /\ a.kind = kind /\ a.id \in Peers
      /\ SoundCall(a, expired) /\ SoundAnswer(a)
      /\ sessions \in [Peers -> PeerSession]
  BY ResumedAnswer
<1>2. a.saved \in SavedPeer
  BY <1>1 DEF SoundCall, Sound
<1>3. /\ Idle(a) \in PeerSession
      /\ Idle(a).sftpResult = sessions[a.id].sftpResult
      /\ Idle(a).repoResult = sessions[a.id].repoResult
  BY <1>1, IdleType
<1>4. ~overlapped => /\ a.host = EffectiveHost(a.saved)
                     /\ a.saved.inviteJson \in Invites => a.invite = a.saved.inviteJson
  BY <1>1 DEF MatchInv
<1>5. ASSUME ~overlapped, Live(a), Parses(a.saved.inviteJson, expired)
      PROVE  Matches(Idle(a), a.saved)
  <2>1. Matches(sessions[a.id], a.saved)
    BY <1>1, <1>5 DEF MatchInv
  <2>2. QED
    BY <1>3, <2>1 DEF Matches
<1>6. QED
  BY <1>1, <1>2, <1>3, <1>4, <1>5

LEMMA MatchOfImport ==
  ASSUME Inv, MatchInv, FileImported
  PROVE  MatchInv'
<1> DEFINE a == Head(answers)
           record == WithText(a.saved, a.outcome, expired)
           session == SessionWithText(sessions[a.id], a.outcome, expired)
<1>1. /\ Resume("import")
      /\ a.outcome = "failed" => NoUpsert /\ UNCHANGED sessions
      /\ a.outcome # "failed" => Upsert(a, record) /\ PatchSession(a, session)
  BY DEF FileImported
<1>2. /\ a.id \in Peers /\ Sound(a.saved, expired)
      /\ a.outcome \in Invites \cup {"failed"}
      /\ sessions \in [Peers -> PeerSession]
  BY <1>1, ResumedAnswer DEF SoundCall, SoundAnswer
<1>3. CASE a.outcome = "failed"
  <2>1. PatchSession(a, sessions[a.id])
    BY <1>1, <1>2, <1>3 DEF PatchSession
  <2>2. QED
    BY <1>1, <1>3, <2>1, MatchOfUnwritten
<1>4. CASE a.outcome # "failed"
  <2>1. a.outcome \in Texts /\ a.outcome # None
    BY <1>2, <1>4, NoneAssumption DEF Texts
  <2>2. Parses(record.inviteJson, expired) => Parses(a.outcome, expired)
    BY <1>2, <2>1, WithTextIsSound
  <2>3. ASSUME Parses(a.outcome, expired)
        PROVE  session.sftpResult = None /\ session.repoResult = None
    <3>1. session = [sessions[a.id] EXCEPT !.sftpResult = None, !.repoResult = None,
                                           !.submitted = FALSE]
      BY <2>1, <2>3 DEF SessionWithText
    <3>2. sessions[a.id] \in PeerSession
      BY <1>2
    <3> HIDE DEF a
    <3>3. QED
      BY <3>1, <3>2 DEF PeerSession
  <2>4. Parses(record.inviteJson, expired) => Matches(session, record)
    <3> HIDE DEF session, record, a
    <3>1. QED
      BY <2>2, <2>3 DEF Matches, ResultOf
  <2>5. QED
    BY <1>1, <1>4, <2>4, MatchOfWritten
<1>5. QED
  BY <1>3, <1>4

LEMMA MatchOfReply ==
  ASSUME Inv, MatchInv, Answer
  PROVE  MatchInv'
<1> DEFINE a == Head(answers)
<1>1. CASE FileImported
  BY <1>1, MatchOfImport
<1>2. CASE KeyGenerated
  <2> DEFINE r == WithKey(a.saved, a.invite)
  <2>1. /\ Resume("generate") /\ PatchSession(a, Idle(a))
        /\ IF a.outcome = "ok" THEN Upsert(a, r) ELSE NoUpsert
    BY <1>2 DEF KeyGenerated
  <2>2. r.inviteJson = a.saved.inviteJson /\ EffectiveHost(r) = EffectiveHost(a.saved)
    BY <2>1, AnswerOf DEF WithKey, SavedPeer, EffectiveHost
  <2> HIDE DEF r
  <2>3. ~overlapped /\ Live(a) /\ Parses(r.inviteJson, expired) => Matches(Idle(a), r)
    BY <2>1, <2>2, AnswerOf, MatchesLess
  <2>4. QED
    BY <2>1, <2>3, AnswerOf, MatchOfWritten, MatchOfUnwritten
<1>3. CASE Submitted
  <2> DEFINE s == [Idle(a) EXCEPT !.submitted = (a.outcome = "ok")]
  <2>1. Resume("submit") /\ PatchSession(a, s) /\ NoUpsert
    BY <1>3 DEF Submitted
  <2>2. s.sftpResult = sessions[a.id].sftpResult /\ s.repoResult = sessions[a.id].repoResult
    BY <2>1, AnswerOf DEF PeerSession
  <2>3. QED
    BY <2>1, <2>2, MatchOfUnwritten
<1>4. CASE Probed
  <2>1. Resume("probe") /\ PatchSession(a, Idle(a)) /\ (Upsert(a, a.saved) \/ NoUpsert)
    BY <1>4 DEF Probed
  <2>2. QED
    BY <2>1, AnswerOf, MatchOfWritten, MatchOfUnwritten
<1>5. CASE Verified
  <2> DEFINE st == VerifyStatus(a)
             res == [status |-> st, host |-> a.host, invite |-> a.invite]
             s == [Idle(a) EXCEPT !.sftpResult = res]
             r == [a.saved EXCEPT !.lastSftpStatus = st]
  <2>1. Resume("verify") /\ PatchSession(a, s) /\ Upsert(a, r)
    BY <1>5 DEF Verified
  <2>2. r.inviteJson = a.saved.inviteJson /\ EffectiveHost(r) = EffectiveHost(a.saved)
    BY <2>1, AnswerOf DEF SavedPeer, EffectiveHost
  <2>3. s.sftpResult = res /\ s.repoResult = Idle(a).repoResult
    BY <2>1, AnswerOf DEF PeerSession
  <2>4. res.invite = a.invite /\ res.host = a.host
    OBVIOUS
  <2> HIDE DEF r, s, res
  <2>5. ASSUME ~overlapped, Live(a), Parses(r.inviteJson, expired)
        PROVE  Matches(s, r)
    <3>1. a.invite = r.inviteJson /\ a.host = EffectiveHost(r)
      BY <2>1, <2>2, <2>5, AnswerOf DEF Parses
    <3>2. Matches(Idle(a), a.saved)
      BY <2>1, <2>2, <2>5, AnswerOf
    <3>3. QED
      BY <2>2, <2>3, <2>4, <3>1, <3>2 DEF Matches, ResultOf
  <2>6. QED
    BY <2>1, <2>5, MatchOfWritten
<1>6. CASE RepoConnected
  <2> DEFINE res == [status |-> IF a.outcome = "ok" THEN "ok" ELSE "error",
                     host |-> a.host, invite |-> a.invite]
             s == [Idle(a) EXCEPT !.repoResult = res]
             r == [a.saved EXCEPT !.lastRepoMessage = TRUE]
  <2>1. /\ Resume("connect") /\ PatchSession(a, s)
        /\ IF a.outcome = "ok" THEN Upsert(a, r) ELSE NoUpsert
    BY <1>6 DEF RepoConnected
  <2>2. r.inviteJson = a.saved.inviteJson /\ EffectiveHost(r) = EffectiveHost(a.saved)
    BY <2>1, AnswerOf DEF SavedPeer, EffectiveHost
  <2>3. s.repoResult = res /\ s.sftpResult = sessions[a.id].sftpResult
        /\ s.sftpResult = Idle(a).sftpResult
    BY <2>1, AnswerOf DEF PeerSession
  <2>4. /\ res.invite = a.invite /\ res.host = a.host
        /\ a.outcome # "ok" => res.status # "ok"
    OBVIOUS
  <2> HIDE DEF r, s, res
  <2>5. ASSUME ~overlapped, Live(a), Parses(r.inviteJson, expired)
        PROVE  Matches(s, r)
    <3>1. a.invite = r.inviteJson /\ a.host = EffectiveHost(r)
      BY <2>1, <2>2, <2>5, AnswerOf DEF Parses
    <3>2. Matches(Idle(a), a.saved)
      BY <2>1, <2>2, <2>5, AnswerOf
    <3>3. QED
      BY <2>2, <2>3, <2>4, <3>1, <3>2 DEF Matches, ResultOf
  <2>6. CASE a.outcome = "ok"
    BY <2>1, <2>5, <2>6, MatchOfWritten
  <2>7. CASE a.outcome # "ok"
    BY <2>1, <2>3, <2>4, <2>7, MatchOfUnwritten
  <2>8. QED
    BY <2>6, <2>7
<1>7. CASE BackedUp
  <2>1. Resume("backup") /\ PatchSession(a, Idle(a)) /\ NoUpsert
    BY <1>7 DEF BackedUp
  <2>2. QED
    BY <2>1, AnswerOf, MatchOfUnwritten
<1>8. QED
  BY <1>1, <1>2, <1>3, <1>4, <1>5, <1>6, <1>7 DEF Answer

LEMMA MatchOfUser ==
  ASSUME Inv, MatchInv, NEW p \in Peers, Edit(p)
  PROVE  MatchInv'
<1>1. savedPeers \in [Peers -> SavedPeer \cup {None}] /\ sessions \in [Peers -> PeerSession]
  BY DEF Inv, TypeOK
<1>2. CASE CreateNewPeer(p)
  <2>1. /\ EditStep /\ UNCHANGED sessions /\ sessions[p] = EmptySession
        /\ \A q \in Peers \ {p} : savedPeers'[q] = savedPeers[q]
    BY <1>1, <1>2 DEF CreateNewPeer
  <2>2. sessions[p].sftpResult = None /\ sessions[p].repoResult = None
    BY <2>1 DEF EmptySession
  <2>3. QED
    BY <2>1, <2>2, MatchOfEdit
<1>3. ASSUME NEW text \in Texts, ApplyInviteText(p, text)
      PROVE  MatchInv'
  <2> DEFINE w == WithText(savedPeers[p], text, expired)
             s == SessionWithText(sessions[p], text, expired)
  <2>1. /\ EditStep /\ p \in Existing
        /\ savedPeers' = [savedPeers EXCEPT ![p] = w]
        /\ sessions' = [sessions EXCEPT ![p] = s]
    BY <1>3 DEF ApplyInviteText, OnSelected
  <2>2. Parses(w.inviteJson, expired) => Parses(text, expired)
    BY <2>1, EditedPeer, WithTextIsSound
  <2>3. /\ Parses(text, expired) => s.sftpResult = None /\ s.repoResult = None
        /\ s = sessions[p] \/ (s.sftpResult = None /\ s.repoResult = None)
    <3>1. sessions[p] \in PeerSession /\ ~Parses(None, expired)
      BY <1>1, NoneAssumption DEF Parses
    <3>2. CASE text = None
      <4>1. s = [sessions[p] EXCEPT !.sftpResult = None, !.repoResult = None]
        BY <3>1, <3>2 DEF SessionWithText
      <4>2. QED
        BY <3>1, <3>2, <4>1 DEF PeerSession
    <3>3. CASE text # None /\ Parses(text, expired)
      <4>1. s = [sessions[p] EXCEPT !.sftpResult = None, !.repoResult = None,
                                    !.submitted = FALSE]
        BY <3>3 DEF SessionWithText
      <4>2. QED
        BY <3>1, <3>3, <4>1 DEF PeerSession
    <3>4. CASE text # None /\ ~Parses(text, expired)
      BY <3>4 DEF SessionWithText
    <3>5. QED
      BY <3>2, <3>3, <3>4
  <2> HIDE DEF w, s
  <2>4. /\ savedPeers'[p] = w /\ sessions'[p] = s
        /\ \A q \in Peers \ {p} : savedPeers'[q] = savedPeers[q] /\ sessions'[q] = sessions[q]
    BY <1>1, <2>1
  <2>5. QED
    BY <2>1, <2>2, <2>3, <2>4, MatchOfEdit
<1>4. ASSUME NEW h \in Hosts \cup {None}, EditManualHost(p, h)
      PROVE  MatchInv'
  <2>1. /\ EditStep
        /\ \A q \in Peers \ {p} : savedPeers'[q] = savedPeers[q] /\ sessions'[q] = sessions[q]
        /\ sessions'[p] = [sessions[p] EXCEPT !.sftpResult = None, !.repoResult = None]
    BY <1>1, <1>4 DEF EditManualHost
  <2>2. sessions'[p].sftpResult = None /\ sessions'[p].repoResult = None
    BY <1>1, <2>1 DEF PeerSession
  <2>3. QED
    BY <2>1, <2>2, MatchOfEdit
<1>5. ASSUME NEW checked \in BOOLEAN, ConfirmHostKey(p, checked)
      PROVE  MatchInv'
  <2>1. /\ EditStep /\ UNCHANGED sessions /\ p \in Existing
        /\ \A q \in Peers \ {p} : savedPeers'[q] = savedPeers[q]
        /\ savedPeers[p] \in SavedPeer
    BY <1>1, <1>5, EditedPeer DEF ConfirmHostKey, OnSelected
  <2>2. savedPeers'[p] = [savedPeers[p] EXCEPT !.hostKeyConfirmedForAllocId =
                            IF checked THEN AllocOf[savedPeers[p].inviteJson] ELSE None]
    BY <1>1, <1>5 DEF ConfirmHostKey
  <2>3. /\ savedPeers[p] # None
        /\ savedPeers'[p].inviteJson = savedPeers[p].inviteJson
        /\ EffectiveHost(savedPeers'[p]) = EffectiveHost(savedPeers[p])
    BY <2>1, <2>2 DEF EffectiveHost, SavedPeer, Existing
  <2>4. QED
    BY <2>1, <2>3, MatchOfEdit
<1>6. CASE DeletePeer(p)
  <2>1. /\ EditStep /\ UNCHANGED sessions
        /\ \A q \in Peers \ {p} : savedPeers'[q] = savedPeers[q]
        /\ savedPeers'[p] = None
    BY <1>1, <1>6 DEF DeletePeer
  <2>2. QED
    BY <2>1, MatchOfEdit
<1>7. CASE SelectPeer(p)
  BY <1>7, MatchKept DEF SelectPeer, wires, history
<1>8. QED
  BY <1>2, <1>3, <1>4, <1>5, <1>6, <1>7 DEF Edit

\* The page goes: no session is left, nor any call at the end of the application.
LEMMA MatchOfUnmount ==
  ASSUME Inv, MatchInv, Unmount, UNCHANGED <<savedPeers, visit, expired, overlapped>>,
         UNCHANGED <<calls, answers>> \/ (calls' = <<>> /\ answers' = <<>>)
  PROVE  MatchInv'
<1>1. ~open' /\ Existing' = Existing
  BY DEF Unmount, Existing
<1>2. \A p \in Peers : /\ sessions'[p].sftpResult = None
                       /\ sessions'[p].repoResult = None
  BY DEF Unmount, EmptySession
<1>3. \A p \in Peers : \A r : Matches(sessions'[p], r)
  BY <1>2 DEF Matches, ResultOf
<1>4. /\ Pending' \subseteq Pending
      /\ Len(calls) + Len(answers) <= 1 => Len(calls') + Len(answers') <= 1
  <2>1. CASE UNCHANGED <<calls, answers>>
    BY <2>1 DEF Pending
  <2>2. CASE calls' = <<>> /\ answers' = <<>>
    <3>1. Len(calls') = 0 /\ Len(answers') = 0
      BY <2>2, EmptySeq
    <3>2. QED
      BY <3>1 DEF Pending
  <2>3. QED
    BY <2>1, <2>2
<1>5. \A p \in Existing : p \in Peers
  BY DEF Existing
<1>6. QED
  BY <1>1, <1>2, <1>3, <1>4, <1>5 DEF MatchInv, Live

LEMMA MatchOfStep ==
  ASSUME Inv, MatchInv, [Next]_vars
  PROVE  MatchInv'
<1>1. CASE OpenPage
  <2>1. ~open /\ sessions \in [Peers -> PeerSession]
    BY <1>1 DEF OpenPage, Inv, TypeOK
  <2>2. sessions = [p \in Peers |-> EmptySession]
    BY <2>1 DEF Inv, Sessions
  <2>3. QED
    BY <1>1, <2>2, MatchKept DEF OpenPage, wires, history
<1>2. CASE LeavePage
  BY <1>2, MatchOfUnmount DEF LeavePage, wires, history
<1>3. CASE Restart
  BY <1>3, MatchOfUnmount DEF Restart, history
<1>4. ASSUME NEW i \in Invites, Expire(i)
      PROVE  MatchInv'
  BY <1>4, MatchKept DEF Expire, page, wires, history
<1>5. ASSUME NEW p \in Peers, Edit(p)
      PROVE  MatchInv'
  BY <1>5, MatchOfUser
<1>6. ASSUME NEW p \in Peers, Start(p)
      PROVE  MatchInv'
  <2>1. PICK kind \in Kinds : Click(kind, p) /\ (UNCHANGED sessions \/ Busy(kind, p))
    BY <1>6 DEF Start, HandleFileImport, HandleGenerateKey, HandleAutoSubmit, HandleProbe,
       HandleVerify, HandleRepoConnect, HandleRunBackup, Kinds
  <2>2. QED
    BY <2>1, MatchOfClick
<1>7. CASE Execute
  BY <1>7, MatchOfExecute
<1>8. CASE Answer
  BY <1>8, MatchOfReply
<1>9. CASE UNCHANGED vars
  BY <1>9, MatchKept DEF vars, page, wires, history
<1>10. QED
  BY <1>1, <1>2, <1>3, <1>4, <1>5, <1>6, <1>7, <1>8, <1>9 DEF Next

\* ResultsMatchTarget of Peer.tsx: as long as its handlers have not overlapped, a success
\* on the page is one of the host and the invite shown with it.
THEOREM ShownResultsMatch == Spec => []ResultsMatchTarget
<1>1. Init => MatchInv
  <2> SUFFICES ASSUME Init
               PROVE  MatchInv
    OBVIOUS
  <2>1. /\ Len(calls) = 0 /\ Len(answers) = 0 /\ ~overlapped
        /\ sessions = [p \in Peers |-> EmptySession]
    BY EmptySeq DEF Init
  <2>2. Pending = {}
    BY <2>1 DEF Pending
  <2>3. \A p \in Peers : \A r : Matches(sessions[p], r)
    BY <2>1 DEF EmptySession, Matches, ResultOf
  <2>4. QED
    BY <2>1, <2>2, <2>3 DEF MatchInv, Existing
<1>2. Inv /\ MatchInv /\ [Next]_vars => MatchInv'
  BY MatchOfStep
<1>3. MatchInv => ResultsMatchTarget
  BY DEF MatchInv, ResultsMatchTarget, Matches, ResultOf
<1>4. QED
  BY <1>1, <1>2, <1>3, PageInvariant, PTL DEF Spec
=============================================================================
