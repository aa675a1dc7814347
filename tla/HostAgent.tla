------------------------------ MODULE HostAgent ------------------------------
(***************************************************************************)
(* One storage allocation of the Go host agent (apps/host-agent/src), from *)
(* its creation to its deletion, under every interleaving of the HTTP      *)
(* handlers and of the three background goroutines.  The agent holds no    *)
(* lock around an allocation: a handler reads the JSON record, works on    *)
(* its own copy, changes the SFTP server's authorized_keys and then saves  *)
(* the WHOLE copy through a temporary file and a rename.  All saves use    *)
(* the same temporary name.  An action below is what happens between two   *)
(* such accesses, each of which may also fail.  A definition Name_Bug is a *)
(* variant of Name with a mistake the code could have made, which the      *)
(* properties must notice; no action uses it.                              *)
(*                                                                         *)
(* Allocations have their own record file, their own SFTP user and their   *)
(* own directory, and share only the reload trigger (module SftpReload),   *)
(* so one allocation stands for all of them.                               *)
(***************************************************************************)
EXTENDS Naturals, FiniteSets

CONSTANTS Requests,    \* the handler goroutines that may be in flight at once
          Keys,        \* the public keys that data owners present
          NoKey,       \* an absent, empty or unparsable public key
          Usages,      \* the levels that the repository's usage reaches
          MaxInvites,  \* bound: invites issued in a behaviour
          Faults,      \* the kinds of faults that happen
          MaxFaults,   \* bound: faults in a behaviour
          MaxInFlight  \* bound: handlers and ticks at work at the same time

Background == {"poller", "expirer", "retirer"}
Workers    == Requests \cup Background

Levels     == {"ok", "warning", "critical"}

\* What may go wrong: the agent's container restarts; a write fails of the record
\* (save, delete), or of the user's directory and key (provision, authorize); the
\* removal of the key fails.
Kinds == {"crash", "record", "access", "removal"}

ASSUME ConstantsAssumption ==
  /\ NoKey \notin Keys
  /\ Usages \subseteq Levels
  /\ "ok" \in Usages
  /\ MaxInvites \in Nat
  /\ Faults \subseteq Kinds
  /\ MaxFaults \in Nat
  /\ MaxInFlight \in Nat
  /\ IsFiniteSet(Requests)
  /\ Requests \cap Background = {}
-----------------------------------------------------------------------------
(***************************************************************************)
(* The record.  A token is the number of the invite it was issued with,    *)
(* 0 when cleared; `invite' stands for inviteExpiresAt.  "ABSENT" is the   *)
(* state of a file that does not exist, "EMPTY" of one that was truncated  *)
(* and not written yet, "TORN" of one that was written in part, or over a  *)
(* longer text: json.Unmarshal refuses both.                               *)
(***************************************************************************)
States  == {"DRAFT", "PENDING_KEY", "EXPIRED", "READY", "SUSPENDED",
            "RETIRING", "RETIRED"}
Invites == 0..MaxInvites

Record == [state : States \cup {"ABSENT", "EMPTY", "TORN"}, ownerKey : Keys \cup {NoKey},
           token : Invites, invite : Invites,
           quotaState : Levels, enforced : BOOLEAN]

Blank(s) == [state |-> s, ownerKey |-> NoKey, token |-> 0, invite |-> 0,
             quotaState |-> "ok", enforced |-> FALSE]

Absent == Blank("ABSENT")
Empty  == Blank("EMPTY")
Torn   == Blank("TORN")

Present(r)  == r.state # "ABSENT"
Readable(r) == r.state \in States

validTransitions ==
  [s \in States |->
     CASE s = "DRAFT"       -> {"PENDING_KEY", "RETIRING"}
       [] s = "PENDING_KEY" -> {"READY", "EXPIRED", "RETIRING"}
       [] s = "EXPIRED"     -> {"PENDING_KEY", "RETIRING"}
       [] s = "READY"       -> {"SUSPENDED", "RETIRING"}
       [] s = "SUSPENDED"   -> {"READY", "RETIRING"}
       [] s = "RETIRING"    -> {"RETIRED"}
       [] s = "RETIRED"     -> {}]

CanTransition(r, s) == r.state \in States /\ s \in validTransitions[r.state]

(***************************************************************************)
(* What a handler in flight holds: the operation, the next thing it does,  *)
(* its copy of the record and, until it has authorized it, the key it was  *)
(* given and the token it came with.                                       *)
(***************************************************************************)
Ops == {"none", "create", "patch", "invite", "import", "submit", "burn",
        "suspend", "resume", "readmit", "retire", "delete", "poll", "expire",
        "finalize"}
Pcs == {"idle", "save", "write", "rename", "authorize", "deauthorize", "measure",
        "reread", "provision", "remove"}

Job == [op : Ops, pc : Pcs, rec : Record, key : Keys \cup {NoKey},
        token : Invites]

IdleJob == [op |-> "none", pc |-> "idle", rec |-> Absent, key |-> NoKey,
            token |-> 0]

(***************************************************************************)
(* A save that has opened the temporary file writes to the file it opened, *)
(* whatever name that file has by then: the temporary one, that of the     *)
(* record after another save's rename, or none.                            *)
(***************************************************************************)
Targets == {"none", "tmp", "file", "gone"}
-----------------------------------------------------------------------------
VARIABLES file,      \* the allocation's JSON record
          tmp,       \* its .json.tmp file
          fd,        \* where each save under way will write
          authKeys,  \* the key in the user's authorized_keys, NoKey if empty
          userDir,   \* the SFTP user's directory exists
          created,   \* POST /allocations has drawn this allocation's id
          job,       \* what each handler and goroutine is doing
          usage,     \* how full the repository is, against the quota
          issued,    \* invites drawn so far
          lapsed,    \* invites up to this one are past their expiry
          failed,    \* faults so far, of each kind
          grants     \* history: the keys ever authorized, on which tokens

filesVars == <<file, tmp, fd, authKeys, userDir, created>>
clockVars == <<usage, issued, lapsed>>
envVars   == <<clockVars, failed>>
vars      == <<filesVars, job, envVars, grants>>

Init ==
  /\ file = Absent
  /\ tmp = Absent
  /\ fd = [w \in Workers |-> "none"]
  /\ authKeys = NoKey
  /\ userDir = FALSE
  /\ created = FALSE
  /\ job = [w \in Workers |-> IdleJob]
  /\ usage = "ok"
  /\ issued = 0
  /\ lapsed = 0
  /\ failed = [k \in Kinds |-> 0]
  /\ grants = [keys |-> {}, tokens |-> {}]

Idle(w) == job[w].pc = "idle"
Busy    == {w \in Workers : ~Idle(w)}
Quiet   == Busy = {}
Room    == Cardinality(Busy) < MaxInFlight
Free(w) == Idle(w) /\ Room

Begin(w, op, pc, r, k, t) ==
  job' = [job EXCEPT ![w] = [op |-> op, pc |-> pc, rec |-> r, key |-> k,
                             token |-> t]]
Return(w)   == job' = [job EXCEPT ![w] = IdleJob]
GoTo(w, pc) == job' = [job EXCEPT ![w].pc = pc]

Fault(k) ==
  /\ k \in Faults
  /\ failed["crash"] + failed["record"] + failed["access"] + failed["removal"]
       < MaxFaults
  /\ failed' = [failed EXCEPT ![k] = @ + 1]
  /\ UNCHANGED clockVars
-----------------------------------------------------------------------------
(***************************************************************************)
(* The first step of each request: the record is read, the guards of the   *)
(* handler are evaluated on the copy, and the copy gets the values that    *)
(* will be saved.  A request that a guard turns down changes nothing.      *)
(***************************************************************************)
Create(w) ==
  /\ Free(w)
  /\ ~created
  /\ created' = TRUE
  /\ Begin(w, "create", "save", [Absent EXCEPT !.state = "DRAFT"], NoKey, 0)
  /\ UNCHANGED <<file, tmp, fd, authKeys, userDir, envVars, grants>>

\* Get turns a file down that is not there or does not parse, List skips it.
Read(w) == Free(w) /\ Readable(file) /\ UNCHANGED <<filesVars, grants>>

\* The patched fields (quota, thresholds, labels) show up as a change of usage.
Patch(w) ==
  /\ Read(w)
  /\ Begin(w, "patch", "save", file, NoKey, 0)
  /\ UNCHANGED envVars

GenerateInvite(w) ==
  /\ Read(w)
  /\ file.state \in {"DRAFT", "EXPIRED"}
  /\ CanTransition(file, "PENDING_KEY")
  /\ issued < MaxInvites
  /\ issued' = issued + 1
  /\ Begin(w, "invite", "save",
           [file EXCEPT !.state = "PENDING_KEY", !.token = issued + 1,
                        !.invite = issued + 1], NoKey, 0)
  /\ UNCHANGED <<usage, lapsed, failed>>

HasLapsed(r) == r.invite \in 1..lapsed

ImportOwnerResponse(w, k) ==
  /\ Read(w)
  /\ file.state = "PENDING_KEY"
  /\ ~HasLapsed(file)
  /\ Begin(w, "import", "authorize", file, k, 0)
  /\ UNCHANGED envVars

\* Variant: the token survives its use.
Cleared_Kept(r) == r

Cleared(r) == [r EXCEPT !.token = 0]

TokenMatches(t) == t # 0 /\ file.token = t

\* The token is cleared whatever the request holds; a request whose token, state
\* or key is refused afterwards has burnt it.
SubmitResponse(w, t, k) ==
  /\ Read(w)
  /\ IF TokenMatches(t) /\ file.state = "PENDING_KEY" /\ k # NoKey
     THEN Begin(w, "submit", "save", Cleared(file), k, t)
     ELSE Begin(w, "burn", "save", Cleared(file), NoKey, 0)
  /\ UNCHANGED envVars

Suspend(w) ==
  /\ Read(w)
  /\ file.state = "READY"
  /\ Begin(w, "suspend", "deauthorize", [file EXCEPT !.state = "SUSPENDED"],
           NoKey, 0)
  /\ UNCHANGED envVars

Resume(w) ==
  /\ Read(w)
  /\ file.state = "SUSPENDED"
  /\ file.ownerKey # NoKey
  /\ Begin(w, "resume", "measure", file, NoKey, 0)
  /\ UNCHANGED envVars

\* Variant: the guard on RETIRING and RETIRED is missing.
Retire_AnyState(w) ==
  /\ Read(w)
  /\ Begin(w, "retire", "deauthorize", [file EXCEPT !.state = "RETIRING"],
           NoKey, 0)
  /\ UNCHANGED envVars

\* Variant: the key is left in place.
Retire_KeepsKey(w) ==
  /\ Read(w)
  /\ file.state \notin {"RETIRING", "RETIRED"}
  /\ Begin(w, "retire", "save", [file EXCEPT !.state = "RETIRING"], NoKey, 0)
  /\ UNCHANGED envVars

Retire(w) ==
  /\ Read(w)
  /\ file.state \notin {"RETIRING", "RETIRED"}
  /\ Begin(w, "retire", "deauthorize", [file EXCEPT !.state = "RETIRING"],
           NoKey, 0)
  /\ UNCHANGED envVars

DeleteAllocation(w) ==
  /\ Read(w)
  /\ Begin(w, "delete", "deauthorize", Absent, NoKey, 0)
  /\ UNCHANGED envVars

\* The ticks: List is the read, what follows works on that snapshot.
PollTick ==
  /\ Read("poller")
  /\ file.state \in {"READY", "SUSPENDED"}
  /\ Begin("poller", "poll", "measure", file, NoKey, 0)
  /\ UNCHANGED envVars

\* Variant: only an invite whose token is still live expires.
ExpiryTick_LiveTokenOnly ==
  /\ Read("expirer")
  /\ file.state = "PENDING_KEY"
  /\ file.token # 0
  /\ HasLapsed(file)
  /\ Begin("expirer", "expire", "save", [file EXCEPT !.state = "EXPIRED"],
           NoKey, 0)
  /\ UNCHANGED envVars

ExpiryTick ==
  /\ Read("expirer")
  /\ file.state = "PENDING_KEY"
  /\ HasLapsed(file)
  /\ Begin("expirer", "expire", "save", [file EXCEPT !.state = "EXPIRED"],
           NoKey, 0)
  /\ UNCHANGED envVars

\* Variant: the copy is saved without its new state.
RetirementTick_ForgetsState ==
  /\ Read("retirer")
  /\ file.state = "RETIRING"
  /\ Begin("retirer", "finalize", "save", file, NoKey, 0)
  /\ UNCHANGED envVars

\* Any tick may be the first after the grace period, which can be zero days.
RetirementTick ==
  /\ Read("retirer")
  /\ file.state = "RETIRING"
  /\ Begin("retirer", "finalize", "save", [file EXCEPT !.state = "RETIRED"],
           NoKey, 0)
  /\ UNCHANGED envVars
-----------------------------------------------------------------------------
(***************************************************************************)
(* The steps of a handler in flight.                                       *)
(***************************************************************************)
\* Variant: the level goes to the state of the allocation, which PollOne assigns
\* without Transition's check.
Polled_StateIsLevel(r, u) == [r EXCEPT !.state = u]

\* Variant: usage back at ok does not end the suspension.
Polled_NoRestore(r, u) ==
  IF u = "critical" /\ r.state = "READY"
  THEN [r EXCEPT !.quotaState = u, !.enforced = TRUE, !.state = "SUSPENDED"]
  ELSE [r EXCEPT !.quotaState = u]

\* Variant: the key is removed at the critical threshold, never given back.
PollAccess_NoRestore(r, u) ==
  IF u = "critical" /\ r.state = "READY" THEN "deauthorize" ELSE "save"

\* Variant: the key is given back, never removed.
PollAccess_NoRemoval(r, u) ==
  IF u = "ok" /\ r.quotaState = "critical" /\ r.enforced THEN "authorize"
  ELSE "save"

\* PollOne on the copy r when du reports level u: the copy it will save, and
\* what it does to the key before.
Polled(r, u) ==
  IF u = "critical" /\ r.state = "READY"
  THEN [r EXCEPT !.quotaState = u, !.enforced = TRUE, !.state = "SUSPENDED"]
  ELSE IF u = "ok" /\ r.quotaState = "critical" /\ r.enforced
  THEN [r EXCEPT !.quotaState = u, !.enforced = FALSE, !.state = "READY"]
  ELSE [r EXCEPT !.quotaState = u]

PollAccess(r, u) ==
  IF u = "critical" /\ r.state = "READY" THEN "deauthorize"
  ELSE IF u = "ok" /\ r.quotaState = "critical" /\ r.enforced THEN "authorize"
  ELSE "save"

Measure(w) ==
  /\ job[w].pc = "measure"
  /\ LET next == PollAccess(job[w].rec, usage)
     IN  Begin(w, job[w].op, next, Polled(job[w].rec, usage),
               IF next = "authorize" THEN job[w].rec.ownerKey ELSE NoKey, 0)
  /\ UNCHANGED <<filesVars, envVars, grants>>

\* du fails or runs past the 30 seconds that Resume gives it.
MeasureFails(w) ==
  /\ job[w].pc = "measure"
  /\ Return(w)
  /\ UNCHANGED <<filesVars, envVars, grants>>

\* Token 0 is none.
Grant(k, t) ==
  grants' = [keys |-> grants.keys \cup {k}, tokens |-> grants.tokens \cup ({t} \ {0})]

\* Variant: the record does not get the key.
Admitted_NoOwner(r, k) == [r EXCEPT !.state = "READY"]

Admitted(r, k) == [r EXCEPT !.ownerKey = k, !.state = "READY"]

\* PollOne ignores what AuthorizeKey returns; the others return its error.
AuthorizeKey(w) ==
  /\ job[w].pc = "authorize"
  /\ userDir
  /\ job[w].key # NoKey
  /\ authKeys' = job[w].key
  /\ Grant(job[w].key, job[w].token)
  /\ \/ /\ job[w].op \in {"poll", "resume"}
        /\ Begin(w, job[w].op, "save", job[w].rec, NoKey, 0)
     \/ /\ job[w].op \in {"import", "submit", "readmit"}
        /\ CanTransition(job[w].rec, "READY")
        /\ Begin(w, job[w].op, "save",
                 Admitted(job[w].rec, job[w].key), NoKey, 0)
     \/ /\ job[w].op = "readmit"
        /\ ~CanTransition(job[w].rec, "READY")
        /\ Return(w)
  /\ UNCHANGED <<file, tmp, fd, userDir, created, envVars>>

\* What follows an error of AuthorizeKey.
NotAuthorized(w) ==
  IF job[w].op \in {"poll", "resume"} THEN GoTo(w, "save") ELSE Return(w)

\* Variant: the handlers ignore the error too.
AuthorizeFails_Ignored(w) ==
  /\ job[w].pc = "authorize"
  /\ ~userDir \/ job[w].key = NoKey
  /\ Begin(w, job[w].op, "save", Admitted(job[w].rec, job[w].key), NoKey, 0)
  /\ UNCHANGED <<filesVars, envVars, grants>>

AuthorizeFails(w) ==
  /\ job[w].pc = "authorize"
  /\ ~userDir \/ job[w].key = NoKey
  /\ NotAuthorized(w)
  /\ UNCHANGED <<filesVars, envVars, grants>>

\* A write of AuthorizeKey fails: that of the key, which may leave the file empty,
\* or a later one, with the key in place.
AuthorizeStops(w) ==
  /\ job[w].pc = "authorize"
  /\ userDir
  /\ job[w].key # NoKey
  /\ Fault("access")
  /\ \/ /\ authKeys' \in {authKeys, NoKey}
        /\ UNCHANGED grants
     \/ /\ authKeys' = job[w].key
        /\ Grant(job[w].key, job[w].token)
  /\ NotAuthorized(w)
  /\ UNCHANGED <<file, tmp, fd, userDir, created>>

Deauthorized(w) == GoTo(w, IF job[w].op = "delete" THEN "remove" ELSE "save")

DeauthorizeKey(w) ==
  /\ job[w].pc = "deauthorize"
  /\ authKeys' = NoKey
  /\ Deauthorized(w)
  /\ UNCHANGED <<file, tmp, fd, userDir, created, envVars, grants>>

\* Only Suspend returns the error; Retire, DELETE and PollOne ignore it and go on.
DeauthorizeFails(w) ==
  /\ job[w].pc = "deauthorize"
  /\ Fault("removal")
  /\ authKeys' \in {authKeys, NoKey}
  /\ IF job[w].op = "suspend" THEN Return(w) ELSE Deauthorized(w)
  /\ UNCHANGED <<file, tmp, fd, userDir, created, grants>>

(***************************************************************************)
(* Manager.save: os.WriteFile truncates the temporary file, or makes it,   *)
(* and then writes it; os.Rename gives it the record's name.               *)
(***************************************************************************)
OpenTmp(w) ==
  /\ job[w].pc = "save"
  /\ tmp' = Empty
  /\ fd' = [fd EXCEPT ![w] = "tmp"]
  /\ GoTo(w, "write")
  /\ UNCHANGED <<file, authKeys, userDir, created, envVars, grants>>

Opened(w) == IF fd[w] = "tmp" THEN tmp ELSE file

Fill(w, r) ==
  /\ tmp' = IF fd[w] = "tmp" THEN r ELSE tmp
  /\ file' = IF fd[w] = "file" THEN r ELSE file
  /\ fd' = [fd EXCEPT ![w] = "none"]

\* What a record written from the start leaves of what another save has written
\* since the file was truncated: nothing, or the end of a longer text.
Overlaid(old, r) == IF old = Empty THEN {r} ELSE {r, Torn}

\* A submission that has cleared its token, and not yet authorized its key.
Clearing(w) == job[w].op = "submit" /\ job[w].rec.state = "PENDING_KEY"

\* Once it is written, only such a submission still needs its copy.
WriteTmp(w) ==
  /\ job[w].pc = "write"
  /\ \E r \in Overlaid(Opened(w), job[w].rec) : Fill(w, r)
  /\ Begin(w, job[w].op, "rename", IF Clearing(w) THEN job[w].rec ELSE Absent,
           job[w].key, job[w].token)
  /\ UNCHANGED <<authKeys, userDir, created, envVars, grants>>

Saved(w) ==
  CASE job[w].op = "create" -> GoTo(w, "provision")
    [] job[w].op = "resume" -> GoTo(w, "reread")
    [] Clearing(w)          -> GoTo(w, "authorize")
    [] OTHER                -> Return(w)

\* The temporary file takes the name of the record, whose own file loses it.
Renamed(t) == CASE t = "tmp" -> "file" [] t = "file" -> "gone" [] OTHER -> t

\* Variant: the temporary file is copied and stays.
RenameTmp_Copies(w) ==
  /\ job[w].pc = "rename"
  /\ Present(tmp)
  /\ file' = tmp
  /\ Saved(w)
  /\ UNCHANGED <<tmp, fd, authKeys, userDir, created, envVars, grants>>

RenameTmp(w) ==
  /\ job[w].pc = "rename"
  /\ Present(tmp)
  /\ file' = tmp
  /\ tmp' = Absent
  /\ fd' = [v \in Workers |-> Renamed(fd[v])]
  /\ Saved(w)
  /\ UNCHANGED <<authKeys, userDir, created, envVars, grants>>

\* Only handleSubmitResponse goes on, when it is its token that was not saved.
NotSaved(w) == IF Clearing(w) THEN GoTo(w, "authorize") ELSE Return(w)

\* Another save has renamed the shared .tmp file first: os.Rename fails.
RenameFails(w) ==
  /\ job[w].pc = "rename"
  /\ ~Present(tmp)
  /\ NotSaved(w)
  /\ UNCHANGED <<filesVars, envVars, grants>>

\* Variant: the error of os.WriteFile is not looked at.
SaveFails_Ignored(w) ==
  /\ job[w].pc = "write"
  /\ Fault("record")
  /\ \E r \in {Opened(w), Torn} : Fill(w, r)
  /\ GoTo(w, "rename")
  /\ UNCHANGED <<authKeys, userDir, created, grants>>

\* The volume refuses the open, the write, after all or part of it, or the rename:
\* the temporary file stays as it is.
SaveFails(w) ==
  /\ job[w].pc \in {"save", "write", "rename"}
  /\ Fault("record")
  /\ \E r \in {Opened(w), Torn} : Fill(w, r)
  /\ NotSaved(w)
  /\ UNCHANGED <<authKeys, userDir, created, grants>>

\* Resume reads the record again after the poll and checks its quota state.
Reread(w) ==
  /\ job[w].pc = "reread"
  /\ IF Readable(file) /\ file.quotaState # "critical"
     THEN Begin(w, "readmit", "authorize", file, file.ownerKey, 0)
     ELSE Return(w)
  /\ UNCHANGED <<filesVars, envVars, grants>>

ProvisionUser(w) ==
  /\ job[w].pc = "provision"
  /\ userDir' = TRUE
  /\ Return(w)
  /\ UNCHANGED <<file, tmp, fd, authKeys, created, envVars, grants>>

\* The directory may be there all the same.
ProvisionFails(w) ==
  /\ job[w].pc = "provision"
  /\ Fault("access")
  /\ userDir' \in {userDir, TRUE}
  /\ Return(w)
  /\ UNCHANGED <<file, tmp, fd, authKeys, created, grants>>

RemoveFile(w) ==
  /\ job[w].pc = "remove"
  /\ file' = Absent
  /\ fd' = [v \in Workers |-> IF fd[v] = "file" THEN "gone" ELSE fd[v]]
  /\ Return(w)
  /\ UNCHANGED <<tmp, authKeys, userDir, created, envVars, grants>>

RemoveFails(w) ==
  /\ job[w].pc = "remove"
  /\ Fault("record")
  /\ Return(w)
  /\ UNCHANGED <<filesVars, grants>>
-----------------------------------------------------------------------------
(***************************************************************************)
(* What happens around the agent: the owner fills or empties the           *)
(* repository, or the host patches the quota; 90 days pass; the container  *)
(* restarts, and nothing is reconciled when it comes back.                 *)
(***************************************************************************)
UsageChanges ==
  /\ usage' \in Usages \ {usage}
  /\ UNCHANGED <<filesVars, job, issued, lapsed, failed, grants>>

InviteLapses ==
  /\ lapsed < issued
  /\ lapsed' = lapsed + 1
  /\ UNCHANGED <<filesVars, job, usage, issued, failed, grants>>

Crash ==
  /\ ~Quiet
  /\ Fault("crash")
  /\ job' = [w \in Workers |-> IdleJob]
  /\ fd' = [w \in Workers |-> "none"]
  /\ UNCHANGED <<file, tmp, authKeys, userDir, created, grants>>
-----------------------------------------------------------------------------
Request(w) ==
  \/ Create(w)
  \/ Patch(w)
  \/ GenerateInvite(w)
  \/ \E k \in Keys : ImportOwnerResponse(w, k)
  \/ \E t \in 0..issued, k \in Keys \cup {NoKey} : SubmitResponse(w, t, k)
  \/ Suspend(w)
  \/ Resume(w)
  \/ Retire(w)
  \/ DeleteAllocation(w)

Tick == PollTick \/ ExpiryTick \/ RetirementTick

Access(w) ==
  \/ AuthorizeKey(w)
  \/ AuthorizeFails(w)
  \/ AuthorizeStops(w)
  \/ DeauthorizeKey(w)
  \/ DeauthorizeFails(w)
  \/ ProvisionUser(w)
  \/ ProvisionFails(w)

Save(w) ==
  \/ OpenTmp(w)
  \/ WriteTmp(w)
  \/ RenameTmp(w)
  \/ RenameFails(w)
  \/ SaveFails(w)

Remove(w) == RemoveFile(w) \/ RemoveFails(w)

Step(w) ==
  \/ Measure(w)
  \/ MeasureFails(w)
  \/ Access(w)
  \/ Save(w)
  \/ Reread(w)
  \/ Remove(w)

Environment == UsageChanges \/ InviteLapses \/ Crash

Next ==
  \/ /\ Room
     /\ Tick \/ \E w \in Requests : Request(w)
  \/ \E w \in Busy : Step(w)
  \/ Environment

Spec == Init /\ [][Next]_vars
-----------------------------------------------------------------------------
JobsOK ==
  \A w \in Workers : /\ Idle(w) => job[w] = IdleJob
                     /\ fd[w] = "none" <=> job[w].pc # "write"

\* The variables have their types, an idle worker holds nothing, and a save has the
\* temporary file open between its open and its write only.
TypeOK ==
  /\ file \in Record
  /\ tmp \in Record
  /\ fd \in [Workers -> Targets]
  /\ authKeys \in Keys \cup {NoKey}
  /\ userDir \in BOOLEAN
  /\ created \in BOOLEAN
  /\ job \in [Workers -> Job]
  /\ usage \in Usages
  /\ issued \in Invites
  /\ lapsed \in 0..issued
  /\ failed \in [Kinds -> 0..MaxFaults]
  /\ grants \in [keys : SUBSET Keys, tokens : SUBSET Invites]
  /\ JobsOK

\* What makes a record whole: it has an owner from acceptance on and none before,
\* quota enforcement only ever marks a record that has been READY, a live token is
\* that of the record's last invite.
Whole(r) ==
  /\ r.state \in {"READY", "SUSPENDED"} => r.ownerKey # NoKey
  /\ r.state \in {"DRAFT", "PENDING_KEY", "EXPIRED"} =>
       r.ownerKey = NoKey /\ ~r.enforced /\ r.quotaState = "ok"
  /\ r.state \in {"PENDING_KEY", "EXPIRED", "READY", "SUSPENDED"} => r.invite # 0
  /\ r.state = "DRAFT" => r.invite = 0
  /\ r.token \in {0, r.invite}
  /\ Readable(r) \/ r \in {Absent, Empty, Torn}

\* Saves are lost and records go back in time when handlers overlap, and two saves
\* that write the shared temporary file at once may leave one that does not parse;
\* but no record that does parse has an owner without a state that has one, a live
\* token of another invite, or a quota mark of another life of the allocation.
RecordIsWhole == Whole(file) /\ Whole(tmp)

\* With one handler at a time the record can always be read: a crash or a full disk
\* in the middle of Manager.save hits the temporary file only.
RecordIsReadable == file \notin {Empty, Torn}

\* No record names an owner whose key never reached sshd: every path authorizes
\* the key before it saves the record that claims it.
OwnerWasGranted ==
  file.ownerKey # NoKey => file.ownerKey \in grants.keys

\* A .json.tmp file always has a save under way that will rename it, however many
\* saves share that one name and whichever of them comes first; only a save that
\* fails on the volume and a crash leave one behind.
TmpIsTransient ==
  Present(tmp) =>
    \/ failed["crash"] > 0
    \/ failed["record"] > 0
    \/ \E w \in Workers : fd[w] = "tmp" \/ job[w].pc = "rename"

Undisturbed == \A k \in Kinds : failed[k] = 0

\* Between operations sshd admits exactly the owner of a READY allocation, as long
\* as no write has failed and the agent has not crashed; this is what suspend,
\* resume, the quota poller, import and retire must agree on.
AccessMatchesState ==
  Quiet /\ Undisturbed =>
    authKeys = IF file.state = "READY" THEN file.ownerKey ELSE NoKey

\* An allocation that is a draft, retiring, retired or deleted admits nobody, even
\* if the agent has crashed between two writes or saves have failed: Retire and
\* DELETE remove the key before they save.  They ignore the error if that removal
\* fails, so one that has failed is excepted.  A waiting or expired allocation is
\* not meant: a crash between AuthorizeKey and the save of READY leaves it a key.
ClosedHasNoAccess ==
  file.state \in {"ABSENT", "DRAFT", "RETIRING", "RETIRED"} =>
    authKeys = NoKey \/ failed["removal"] > 0

\* The peer API authorizes a key on the strength of an invite token once
\* (docs/host-agent/api-contract.md: "Auth is one-time inviteToken"), unless the
\* save that clears a token has failed: handleSubmitResponse prints a warning then
\* and goes on, and the token stays live.
OneTimeToken ==
  [][\A w \in Workers :
       /\ job[w].op = "submit"
       /\ job[w].pc = "authorize"
       /\ job'[w].pc = "save"
       /\ failed["record"] = 0
       => job[w].token \notin grants.tokens]_vars

\* The allocation's id has not had a record yet.
Fresh ==
  \/ ~created
  \/ \E w \in Workers :
       job[w].op = "create" /\ job[w].pc \in {"save", "write", "rename"}

\* The record moves along the state diagram only (validTransitions, and the
\* diagram of docs/host-agent/api-contract.md) as long as it can be read, and is
\* not seen again once deleted.
FollowsStateDiagram ==
  [][/\ Readable(file) /\ Readable(file') =>
          file'.state \in {file.state} \cup validTransitions[file.state]
     /\ ~Present(file) /\ ~Fresh => ~Present(file')]_vars

(***************************************************************************)
(* Fairness.  A goroutine that has begun goes on; the three tickers keep   *)
(* firing; and `du' does not fail at every poll.  Nothing obliges a client *)
(* to call or an invite to lapse.  What the tickers bring about is stated  *)
(* for clients that eventually pause: where handlers are bounded, a client *)
(* that never stops calling could keep a ticker from its turn for ever.    *)
(* It is checked of one handler or tick at a time, where no save is stale. *)
(***************************************************************************)
Fairness ==
  /\ WF_vars(PollTick)
  /\ WF_vars(ExpiryTick)
  /\ WF_vars(RetirementTick)
  /\ \A w \in Workers : WF_vars(Step(w)) /\ SF_vars(Measure(w))

FairSpec == Spec /\ Fairness

ClientsPause == <>[](\A r \in Requests : Idle(r))

\* A retirement ends, also when the agent restarts or a save fails on the way.
RetirementFinishes ==
  ClientsPause => (file.state = "RETIRING" ~> file.state \in {"RETIRED", "ABSENT"})

\* An invite past its expiry does not stay open
\* (docs/adr/0003: "Background goroutine (hourly) transitions PENDING_KEY").
LapsedInviteExpires ==
  ClientsPause => (file.state = "PENDING_KEY" /\ HasLapsed(file) ~>
                     file.state # "PENDING_KEY")

\* A repository that stays critically full loses its SFTP access.  PollOne ignores
\* a removal that fails, saves SUSPENDED and does not come back to it: excepted.
CriticalLosesAccess ==
  ClientsPause => (file.state = "READY" /\ usage = "critical" ~>
                     \/ authKeys = NoKey
                     \/ usage # "critical"
                     \/ failed["removal"] > 0)

QuotaSuspended == file.state = "SUSPENDED" /\ file.enforced

\* The same for every live key, as docs/adr/0003 has it: "At critical threshold:
\* SFTP access removed (authorized_keys cleared)".
CriticalRemovesAccess ==
  ClientsPause => (authKeys # NoKey /\ usage = "critical" ~>
                     authKeys = NoKey \/ usage # "critical")

\* A suspension by the quota ends when the poll after a critical one finds usage
\* ok.  It is the poll after that counts: had it found a warning, no later poll
\* would give the access back.
QuotaSuspensionEnds ==
  ClientsPause => (Quiet /\ QuotaSuspended /\ file.quotaState = "critical"
                     /\ usage = "ok" ~> ~QuotaSuspended \/ usage # "ok")

(***************************************************************************)
(* One handler at a time, the record lives as AllocationLifecycle says.    *)
(***************************************************************************)
Lifecycle == INSTANCE AllocationLifecycle WITH
  state  <- file.state,
  owner  <- file.ownerKey,
  token  <- file.token,
  invite <- file.invite,
  fresh  <- Fresh

LifecycleSpec == Lifecycle!Spec
=============================================================================
