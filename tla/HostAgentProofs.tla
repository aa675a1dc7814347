---------------------------- MODULE HostAgentProofs ----------------------------
(***************************************************************************)
(* What holds of one allocation for any number of handlers, keys, invites, *)
(* restarts, failing writes and overlapping calls.                         *)
(***************************************************************************)
EXTENDS HostAgent, TLAPS

(***************************************************************************)
(* The copies of the record that the handlers make.                        *)
(***************************************************************************)
LEMMA AbsentIsRecord ==
  /\ Absent \in Record
  /\ Empty \in Record
  /\ Torn \in Record
  /\ IdleJob \in Job
<1>1. \A x \in {"ABSENT", "EMPTY", "TORN"} : Blank(x) \in Record
  BY ConstantsAssumption DEF Blank, Record, States, Levels, Invites
<1>2. Absent \in Record /\ Empty \in Record /\ Torn \in Record
  BY <1>1 DEF Absent, Empty, Torn
<1>3. QED
  BY <1>2, ConstantsAssumption DEF IdleJob, Job, Ops, Pcs, Invites

LEMMA NewStateIsRecord ==
  ASSUME NEW r \in Record, NEW s \in States
  PROVE  [r EXCEPT !.state = s] \in Record
BY DEF Record

LEMMA InvitedIsRecord ==
  ASSUME NEW r \in Record, NEW i \in Invites
  PROVE  [r EXCEPT !.state = "PENDING_KEY", !.token = i, !.invite = i] \in Record
BY DEF Record, States

LEMMA ClearedIsRecord ==
  ASSUME NEW r \in Record
  PROVE  Cleared(r) \in Record
BY ConstantsAssumption DEF Cleared, Record, Invites

LEMMA PolledIsRecord ==
  ASSUME NEW r \in Record, NEW u \in Levels
  PROVE  Polled(r, u) \in Record
BY DEF Polled, Record, States

LEMMA AdmittedIsRecord ==
  ASSUME NEW r \in Record, NEW k \in Keys
  PROVE  Admitted(r, k) \in Record
BY DEF Admitted, Record, States
-----------------------------------------------------------------------------
(***************************************************************************)
(* Every action but Crash changes one worker's job, through Begin, GoTo or *)
(* Return, and keeps the others' files open where they are.                *)
(***************************************************************************)
SameOpen(w) ==
  /\ fd'[w] = "none"
  /\ \A v \in Workers \ {w} : fd'[v] = "none" <=> fd[v] = "none"

LEMMA BeginJobs ==
  ASSUME job \in [Workers -> Job], JobsOK, NEW w \in Workers,
         NEW op, NEW pc \in Pcs \ {"idle", "write"}, NEW r, NEW k, NEW t,
         Begin(w, op, pc, r, k, t), SameOpen(w)
  PROVE  JobsOK'
<1>1. job'[w].pc = pc
  BY DEF Begin
<1>2. \A v \in Workers \ {w} : job'[v] = job[v]
  BY DEF Begin
<1>3. QED
  BY <1>1, <1>2 DEF JobsOK, Idle, SameOpen

LEMMA GoToJobs ==
  ASSUME job \in [Workers -> Job], JobsOK, NEW w \in Workers,
         NEW pc \in Pcs \ {"idle", "write"}, GoTo(w, pc), SameOpen(w)
  PROVE  JobsOK'
<1>1. job'[w].pc = pc
  BY DEF GoTo, Job
<1>2. \A v \in Workers \ {w} : job'[v] = job[v]
  BY DEF GoTo
<1>3. QED
  BY <1>1, <1>2 DEF JobsOK, Idle, SameOpen

LEMMA ReturnJobs ==
  ASSUME job \in [Workers -> Job], JobsOK, NEW w \in Workers, Return(w), SameOpen(w)
  PROVE  JobsOK'
<1>1. job'[w] = IdleJob /\ job'[w].pc = "idle"
  BY DEF Return, IdleJob
<1>2. \A v \in Workers \ {w} : job'[v] = job[v]
  BY DEF Return
<1>3. QED
  BY <1>1, <1>2 DEF JobsOK, Idle, SameOpen

LEMMA RequestJobs ==
  ASSUME TypeOK, NEW w \in Workers, Request(w)
  PROVE  JobsOK'
<1>1. Idle(w) /\ fd' = fd
  BY DEF Request, Create, Patch, GenerateInvite, ImportOwnerResponse, SubmitResponse,
     Suspend, Resume, Retire, DeleteAllocation, Read, Free, filesVars
<1>2. \E op, pc, r, k, t : /\ Begin(w, op, pc, r, k, t)
                          /\ pc \in Pcs \ {"idle", "write"}
  BY DEF Request, Create, Patch, GenerateInvite, ImportOwnerResponse, SubmitResponse,
     Suspend, Resume, Retire, DeleteAllocation, Read, Pcs
<1>3. SameOpen(w)
  BY <1>1 DEF TypeOK, JobsOK, Idle, SameOpen
<1>4. QED
  BY <1>2, <1>3, BeginJobs DEF TypeOK

LEMMA TickJobs ==
  ASSUME TypeOK, Tick
  PROVE  JobsOK'
<1>1. PICK w \in Workers :
        /\ Idle(w) /\ fd' = fd
        /\ \E op, pc, r, k, t : /\ Begin(w, op, pc, r, k, t)
                               /\ pc \in Pcs \ {"idle", "write"}
  BY DEF Tick, PollTick, ExpiryTick, RetirementTick, Read, Free, filesVars, Pcs,
     Workers, Background
<1>2. SameOpen(w)
  BY <1>1 DEF TypeOK, JobsOK, Idle, SameOpen
<1>3. QED
  BY <1>1, <1>2, BeginJobs DEF TypeOK

\* A step that does not touch the open files.
LEMMA ClosedBegin ==
  ASSUME TypeOK, NEW w \in Workers, job[w].pc # "write", fd' = fd,
         NEW op, NEW pc \in Pcs \ {"idle", "write"}, NEW r, NEW k, NEW t,
         Begin(w, op, pc, r, k, t)
  PROVE  JobsOK'
<1>1. SameOpen(w)
  BY DEF TypeOK, JobsOK, SameOpen
<1>2. QED
  BY <1>1, BeginJobs DEF TypeOK

LEMMA ClosedGoTo ==
  ASSUME TypeOK, NEW w \in Workers, job[w].pc # "write", fd' = fd,
         Return(w) \/ \E pc \in Pcs \ {"idle", "write"} : GoTo(w, pc)
  PROVE  JobsOK'
<1>1. SameOpen(w)
  BY DEF TypeOK, JobsOK, SameOpen
<1>2. QED
  BY <1>1, GoToJobs, ReturnJobs DEF TypeOK

LEMMA SavedGoesOn ==
  ASSUME NEW w \in Workers, Saved(w) \/ NotSaved(w)
  PROVE  Return(w) \/ \E pc \in {"provision", "reread", "authorize"} : GoTo(w, pc)
BY DEF Saved, NotSaved

LEMMA SaveJobs ==
  ASSUME TypeOK, NEW w \in Workers, Save(w)
  PROVE  JobsOK'
<1>0. /\ job \in [Workers -> Job] /\ JobsOK
      /\ fd \in [Workers -> Targets]
  BY DEF TypeOK
<1>g. ASSUME Saved(w) \/ NotSaved(w), SameOpen(w)
      PROVE  JobsOK'
  BY <1>0, <1>g, SavedGoesOn, GoToJobs, ReturnJobs DEF Pcs
<1>1. CASE OpenTmp(w)
  <2>1. job'[w].pc = "write" /\ fd'[w] = "tmp"
    BY <1>0, <1>1 DEF OpenTmp, GoTo, Job
  <2>2. \A v \in Workers \ {w} : job'[v] = job[v] /\ fd'[v] = fd[v]
    BY <1>0, <1>1 DEF OpenTmp, GoTo
  <2>3. QED
    BY <1>0, <2>1, <2>2 DEF JobsOK, Idle
<1>2. CASE WriteTmp(w)
  <2>1. SameOpen(w)
    BY <1>0, <1>2 DEF WriteTmp, Fill, SameOpen
  <2>2. PICK op, r, k, t : Begin(w, op, "rename", r, k, t)
    BY <1>2 DEF WriteTmp
  <2>3. QED
    BY <1>0, <2>1, <2>2, BeginJobs DEF Pcs
<1>3. CASE RenameTmp(w)
  <2>1. SameOpen(w)
    BY <1>0, <1>3 DEF RenameTmp, Renamed, SameOpen, JobsOK, Targets
  <2>2. QED
    BY <1>3, <1>g, <2>1 DEF RenameTmp
<1>4. CASE RenameFails(w)
  <2>1. SameOpen(w)
    BY <1>0, <1>4 DEF RenameFails, filesVars, SameOpen, JobsOK
  <2>2. QED
    BY <1>4, <1>g, <2>1 DEF RenameFails
<1>5. CASE SaveFails(w)
  <2>1. SameOpen(w)
    BY <1>0, <1>5 DEF SaveFails, Fill, SameOpen
  <2>2. QED
    BY <1>5, <1>g, <2>1 DEF SaveFails
<1>6. QED
  BY <1>1, <1>2, <1>3, <1>4, <1>5 DEF Save

LEMMA RemoveJobs ==
  ASSUME TypeOK, NEW w \in Workers, Remove(w)
  PROVE  JobsOK'
<1>0. /\ job \in [Workers -> Job] /\ JobsOK
      /\ fd \in [Workers -> Targets]
  BY DEF TypeOK
<1>1. Return(w)
  BY DEF Remove, RemoveFile, RemoveFails
<1>2. SameOpen(w)
  BY <1>0 DEF Remove, RemoveFile, RemoveFails, filesVars, SameOpen, JobsOK
<1>3. QED
  BY <1>0, <1>1, <1>2, ReturnJobs

LEMMA StepJobs ==
  ASSUME TypeOK, NEW w \in Workers, Step(w)
  PROVE  JobsOK'
<1>1. CASE Measure(w)
  <2>1. PollAccess(job[w].rec, usage) \in Pcs \ {"idle", "write"}
    BY DEF PollAccess, Pcs
  <2>2. QED
    BY <1>1, <2>1, ClosedBegin DEF Measure, filesVars
<1>2. CASE MeasureFails(w) \/ Reread(w)
  <2>1. job[w].pc # "write" /\ fd' = fd
    BY <1>2 DEF MeasureFails, Reread, filesVars
  <2>2. Return(w) \/ Begin(w, "readmit", "authorize", file, file.ownerKey, 0)
    BY <1>2 DEF MeasureFails, Reread
  <2>3. QED
    BY <2>1, <2>2, ClosedBegin, ClosedGoTo DEF Pcs
<1>3. CASE AuthorizeKey(w)
  <2>1. job[w].pc # "write" /\ fd' = fd
    BY <1>3 DEF AuthorizeKey
  <2>2. Return(w) \/ \E r \in {job[w].rec, Admitted(job[w].rec, job[w].key)} :
                       Begin(w, job[w].op, "save", r, NoKey, 0)
    BY <1>3 DEF AuthorizeKey
  <2>3. QED
    BY <2>1, <2>2, ClosedBegin, ClosedGoTo DEF Pcs
<1>4. CASE \/ AuthorizeFails(w) \/ AuthorizeStops(w) \/ DeauthorizeKey(w)
           \/ DeauthorizeFails(w) \/ ProvisionUser(w) \/ ProvisionFails(w)
  <2>1. job[w].pc # "write" /\ fd' = fd
    BY <1>4 DEF AuthorizeFails, AuthorizeStops, DeauthorizeKey, DeauthorizeFails,
       ProvisionUser, ProvisionFails, filesVars
  <2>2. NotAuthorized(w) \/ Deauthorized(w) \/ Return(w)
    BY <1>4 DEF AuthorizeFails, AuthorizeStops, DeauthorizeKey, DeauthorizeFails,
       ProvisionUser, ProvisionFails
  <2>3. Return(w) \/ \E pc \in Pcs \ {"idle", "write"} : GoTo(w, pc)
    BY <2>2 DEF NotAuthorized, Deauthorized, Pcs
  <2>4. QED
    BY <2>1, <2>3, ClosedGoTo
<1>5. QED
  BY <1>1, <1>2, <1>3, <1>4, SaveJobs, RemoveJobs DEF Step, Access

LEMMA BeginType ==
  ASSUME job \in [Workers -> Job], NEW w \in Workers,
         NEW op \in Ops, NEW pc \in Pcs, NEW r \in Record,
         NEW k \in Keys \cup {NoKey}, NEW t \in Invites,
         Begin(w, op, pc, r, k, t)
  PROVE  job' \in [Workers -> Job]
<1>1. [op |-> op, pc |-> pc, rec |-> r, key |-> k, token |-> t] \in Job
  BY DEF Job
<1>2. QED
  BY <1>1 DEF Begin

LEMMA GoToType ==
  ASSUME job \in [Workers -> Job], NEW w \in Workers, NEW pc \in Pcs, GoTo(w, pc)
  PROVE  job' \in [Workers -> Job]
BY DEF GoTo, Job

LEMMA ReturnType ==
  ASSUME job \in [Workers -> Job], NEW w \in Workers, Return(w)
  PROVE  job' \in [Workers -> Job]
BY AbsentIsRecord DEF Return

LEMMA LapsedBounds ==
  ASSUME TypeOK
  PROVE  issued \in Nat /\ lapsed \in Nat /\ lapsed <= issued /\ issued <= MaxInvites
BY ConstantsAssumption DEF TypeOK, Invites

\* A step that changes the job and nothing else.
LEMMA OnlyJobType ==
  ASSUME TypeOK, job' \in [Workers -> Job], JobsOK',
         UNCHANGED <<filesVars, envVars, grants>>
  PROVE  TypeOK'
BY DEF TypeOK, filesVars, envVars, clockVars

LEMMA FaultType ==
  ASSUME TypeOK, NEW k \in Kinds, Fault(k)
  PROVE  /\ failed' \in [Kinds -> 0..MaxFaults]
         /\ UNCHANGED clockVars
<1>1. /\ failed["crash"] \in Nat /\ failed["record"] \in Nat
      /\ failed["access"] \in Nat /\ failed["removal"] \in Nat
  BY ConstantsAssumption DEF TypeOK, Kinds
<1>2. failed[k] + 1 \in 0..MaxFaults
  BY <1>1, ConstantsAssumption DEF Fault, Kinds
<1>3. QED
  BY <1>2 DEF Fault, TypeOK

LEMMA RequestType ==
  ASSUME TypeOK, NEW w \in Workers, Request(w)
  PROVE  TypeOK'
<1>a. JobsOK'
  BY RequestJobs
<1> USE <1>a, AbsentIsRecord DEF TypeOK
<1>0. /\ file \in Record
      /\ job \in [Workers -> Job]
      /\ 0 \in Invites
      /\ NoKey \in Keys \cup {NoKey}
  BY ConstantsAssumption DEF Invites
<1>1. CASE Create(w)
  <2>1. [Absent EXCEPT !.state = "DRAFT"] \in Record
    BY NewStateIsRecord DEF States
  <2>2. job' \in [Workers -> Job]
    BY <1>0, <1>1, <2>1, BeginType DEF Create, Ops, Pcs
  <2>3. QED
    BY <1>1, <2>2 DEF Create, envVars, clockVars
<1>2. CASE Patch(w)
  <2>1. job' \in [Workers -> Job]
    BY <1>0, <1>2, BeginType DEF Patch, Ops, Pcs
  <2>2. QED
    BY <1>2, <2>1, OnlyJobType DEF Patch, Read
<1>3. CASE GenerateInvite(w)
  <2>1. issued + 1 \in Invites
    BY <1>3, LapsedBounds, ConstantsAssumption DEF GenerateInvite, Invites
  <2>2. [file EXCEPT !.state = "PENDING_KEY", !.token = issued + 1,
                     !.invite = issued + 1] \in Record
    BY <1>0, <2>1, InvitedIsRecord
  <2>3. job' \in [Workers -> Job]
    BY <1>0, <1>3, <2>2, BeginType DEF GenerateInvite, Ops, Pcs
  <2>4. issued' \in Invites /\ lapsed' \in 0..issued'
    BY <1>3, <2>1, LapsedBounds DEF GenerateInvite
  <2>5. QED
    BY <1>3, <2>3, <2>4 DEF GenerateInvite, Read, filesVars
<1>4. ASSUME NEW k \in Keys, ImportOwnerResponse(w, k)
      PROVE  TypeOK'
  <2>1. job' \in [Workers -> Job]
    BY <1>0, <1>4, BeginType DEF ImportOwnerResponse, Ops, Pcs
  <2>2. QED
    BY <1>4, <2>1, OnlyJobType DEF ImportOwnerResponse, Read
<1>5. ASSUME NEW t \in 0..issued, NEW k \in Keys \cup {NoKey}, SubmitResponse(w, t, k)
      PROVE  TypeOK'
  <2>1. t \in Invites
    BY LapsedBounds, ConstantsAssumption DEF Invites
  <2>2. job' \in [Workers -> Job]
    <3>1. Begin(w, "submit", "save", Cleared(file), k, t)
          => job' \in [Workers -> Job]
      BY <1>0, <2>1, BeginType, ClearedIsRecord DEF Ops, Pcs
    <3>2. Begin(w, "burn", "save", Cleared(file), NoKey, 0)
          => job' \in [Workers -> Job]
      BY <1>0, BeginType, ClearedIsRecord DEF Ops, Pcs
    <3>3. QED
      BY <1>5, <3>1, <3>2 DEF SubmitResponse
  <2>3. QED
    BY <1>5, <2>2, OnlyJobType DEF SubmitResponse, Read
<1>6. CASE Suspend(w)
  <2>1. [file EXCEPT !.state = "SUSPENDED"] \in Record
    BY <1>0, NewStateIsRecord DEF States
  <2>2. job' \in [Workers -> Job]
    BY <1>0, <1>6, <2>1, BeginType DEF Suspend, Ops, Pcs
  <2>3. QED
    BY <1>6, <2>2, OnlyJobType DEF Suspend, Read
<1>7. CASE Resume(w)
  <2>1. job' \in [Workers -> Job]
    BY <1>0, <1>7, BeginType DEF Resume, Ops, Pcs
  <2>2. QED
    BY <1>7, <2>1, OnlyJobType DEF Resume, Read
<1>8. CASE Retire(w)
  <2>1. [file EXCEPT !.state = "RETIRING"] \in Record
    BY <1>0, NewStateIsRecord DEF States
  <2>2. job' \in [Workers -> Job]
    BY <1>0, <1>8, <2>1, BeginType DEF Retire, Ops, Pcs
  <2>3. QED
    BY <1>8, <2>2, OnlyJobType DEF Retire, Read
<1>9. CASE DeleteAllocation(w)
  <2>1. job' \in [Workers -> Job]
    BY <1>0, <1>9, BeginType DEF DeleteAllocation, Ops, Pcs
  <2>2. QED
    BY <1>9, <2>1, OnlyJobType DEF DeleteAllocation, Read
<1>10. QED
  BY <1>1, <1>2, <1>3, <1>4, <1>5, <1>6, <1>7, <1>8, <1>9 DEF Request

LEMMA TickType == TypeOK /\ Tick => TypeOK'
<1> SUFFICES ASSUME TypeOK, Tick
             PROVE  TypeOK'
  OBVIOUS
<1>a. JobsOK'
  BY TickJobs
<1> USE <1>a
<1>0. /\ file \in Record
      /\ job \in [Workers -> Job]
      /\ 0 \in Invites
      /\ NoKey \in Keys \cup {NoKey}
      /\ Background \subseteq Workers
  BY ConstantsAssumption DEF TypeOK, Invites, Workers
<1>1. CASE PollTick
  <2>1. job' \in [Workers -> Job]
    BY <1>0, <1>1, BeginType DEF PollTick, Ops, Pcs, Background
  <2>2. QED
    BY <1>1, <2>1, OnlyJobType DEF PollTick, Read
<1>2. CASE ExpiryTick
  <2>1. [file EXCEPT !.state = "EXPIRED"] \in Record
    BY <1>0, NewStateIsRecord DEF States
  <2>2. job' \in [Workers -> Job]
    BY <1>0, <1>2, <2>1, BeginType DEF ExpiryTick, Ops, Pcs, Background
  <2>3. QED
    BY <1>2, <2>2, OnlyJobType DEF ExpiryTick, Read
<1>3. CASE RetirementTick
  <2>1. [file EXCEPT !.state = "RETIRED"] \in Record
    BY <1>0, NewStateIsRecord DEF States
  <2>2. job' \in [Workers -> Job]
    BY <1>0, <1>3, <2>1, BeginType DEF RetirementTick, Ops, Pcs, Background
  <2>3. QED
    BY <1>3, <2>2, OnlyJobType DEF RetirementTick, Read
<1>4. QED
  BY <1>1, <1>2, <1>3 DEF Tick

LEMMA AccessType ==
  ASSUME TypeOK, NEW w \in Workers, Access(w), JobsOK'
  PROVE  TypeOK'
<1>0. /\ job \in [Workers -> Job] /\ 0 \in Invites
      /\ NoKey \in Keys \cup {NoKey} /\ "access" \in Kinds /\ "removal" \in Kinds
  BY ConstantsAssumption DEF TypeOK, Invites, Kinds
<1>j. /\ job[w].op \in Ops /\ job[w].rec \in Record
      /\ job[w].key \in Keys \cup {NoKey} /\ job[w].token \in Invites
  BY <1>0 DEF Job
<1>n. NotAuthorized(w) \/ Deauthorized(w) => job' \in [Workers -> Job]
  BY <1>0, GoToType, ReturnType DEF NotAuthorized, Deauthorized, Pcs
<1>1. CASE AuthorizeKey(w)
  <2>1. job[w].key \in Keys
    BY <1>j, <1>1 DEF AuthorizeKey
  <2>2. Admitted(job[w].rec, job[w].key) \in Record
    BY <1>j, <2>1, AdmittedIsRecord
  <2>3. job' \in [Workers -> Job]
    <3>1. Begin(w, job[w].op, "save", job[w].rec, NoKey, 0)
          => job' \in [Workers -> Job]
      BY <1>0, <1>j, BeginType DEF Pcs
    <3>2. Begin(w, job[w].op, "save", Admitted(job[w].rec, job[w].key), NoKey, 0)
          => job' \in [Workers -> Job]
      BY <1>0, <1>j, <2>2, BeginType DEF Pcs
    <3>3. Return(w) => job' \in [Workers -> Job]
      BY <1>0, ReturnType
    <3>4. QED
      BY <1>1, <3>1, <3>2, <3>3 DEF AuthorizeKey
  <2>4. grants' \in [keys : SUBSET Keys, tokens : SUBSET Invites]
    BY <1>1, <1>j, <2>1 DEF AuthorizeKey, Grant, TypeOK
  <2>5. QED
    BY <1>1, <2>1, <2>3, <2>4 DEF AuthorizeKey, TypeOK, envVars, clockVars
<1>2. CASE AuthorizeFails(w)
  BY <1>2, <1>n, OnlyJobType DEF AuthorizeFails
<1>3. CASE AuthorizeStops(w)
  <2>1. /\ authKeys' \in Keys \cup {NoKey}
        /\ grants' \in [keys : SUBSET Keys, tokens : SUBSET Invites]
    BY <1>3, <1>j DEF AuthorizeStops, Grant, TypeOK
  <2>2. failed' \in [Kinds -> 0..MaxFaults] /\ UNCHANGED clockVars
    BY <1>0, <1>3, FaultType DEF AuthorizeStops
  <2>3. QED
    BY <1>3, <1>n, <2>1, <2>2 DEF AuthorizeStops, TypeOK, clockVars
<1>4. CASE DeauthorizeKey(w)
  BY <1>0, <1>4, <1>n DEF DeauthorizeKey, TypeOK, envVars, clockVars
<1>5. CASE DeauthorizeFails(w)
  <2>1. job' \in [Workers -> Job]
    BY <1>0, <1>5, <1>n, ReturnType DEF DeauthorizeFails
  <2>2. failed' \in [Kinds -> 0..MaxFaults] /\ UNCHANGED clockVars
    BY <1>0, <1>5, FaultType DEF DeauthorizeFails
  <2>3. QED
    BY <1>0, <1>5, <2>1, <2>2 DEF DeauthorizeFails, TypeOK, clockVars
<1>6. CASE ProvisionUser(w)
  <2>1. job' \in [Workers -> Job]
    BY <1>0, <1>6, ReturnType DEF ProvisionUser
  <2>2. QED
    BY <1>6, <2>1 DEF ProvisionUser, TypeOK, envVars, clockVars
<1>7. CASE ProvisionFails(w)
  <2>1. job' \in [Workers -> Job]
    BY <1>0, <1>7, ReturnType DEF ProvisionFails
  <2>2. failed' \in [Kinds -> 0..MaxFaults] /\ UNCHANGED clockVars
    BY <1>0, <1>7, FaultType DEF ProvisionFails
  <2>3. QED
    BY <1>7, <2>1, <2>2 DEF ProvisionFails, TypeOK, clockVars
<1>8. QED
  BY <1>1, <1>2, <1>3, <1>4, <1>5, <1>6, <1>7 DEF Access

LEMMA SaveType ==
  ASSUME TypeOK, NEW w \in Workers, Save(w), JobsOK'
  PROVE  TypeOK'
<1>0. /\ job \in [Workers -> Job] /\ file \in Record /\ tmp \in Record
      /\ fd \in [Workers -> Targets] /\ "record" \in Kinds
  BY DEF TypeOK, Kinds
<1>j. /\ job[w].op \in Ops /\ job[w].rec \in Record
      /\ job[w].key \in Keys \cup {NoKey} /\ job[w].token \in Invites
  BY <1>0 DEF Job
<1>n. Saved(w) \/ NotSaved(w) => job' \in [Workers -> Job]
  BY <1>0, SavedGoesOn, GoToType, ReturnType DEF Pcs
<1>f. ASSUME NEW r \in Record, Fill(w, r)
      PROVE  file' \in Record /\ tmp' \in Record /\ fd' \in [Workers -> Targets]
  BY <1>0, <1>f DEF Fill, Targets
<1>1. CASE OpenTmp(w)
  <2>1. job' \in [Workers -> Job]
    BY <1>0, <1>1, GoToType DEF OpenTmp, Pcs
  <2>2. fd' \in [Workers -> Targets]
    BY <1>0, <1>1 DEF OpenTmp, Targets
  <2>3. QED
    BY <1>1, <2>1, <2>2, AbsentIsRecord DEF OpenTmp, TypeOK, envVars, clockVars
<1>2. CASE WriteTmp(w)
  <2>1. PICK r \in Overlaid(Opened(w), job[w].rec) : Fill(w, r)
    BY <1>2 DEF WriteTmp
  <2>2. r \in Record
    BY <1>j, <2>1, AbsentIsRecord DEF Overlaid
  <2>3. (IF Clearing(w) THEN job[w].rec ELSE Absent) \in Record
    BY <1>j, AbsentIsRecord
  <2>4. job' \in [Workers -> Job]
    BY <1>0, <1>j, <1>2, <2>3, BeginType DEF WriteTmp, Pcs
  <2>5. file' \in Record /\ tmp' \in Record /\ fd' \in [Workers -> Targets]
    BY <1>f, <2>1, <2>2
  <2>6. QED
    BY <1>2, <2>4, <2>5 DEF WriteTmp, TypeOK, envVars, clockVars
<1>3. CASE RenameTmp(w)
  <2>1. fd' \in [Workers -> Targets]
    BY <1>0, <1>3 DEF RenameTmp, Renamed, Targets
  <2>2. QED
    BY <1>n, <1>3, <2>1, AbsentIsRecord DEF RenameTmp, TypeOK, envVars, clockVars
<1>4. CASE RenameFails(w)
  BY <1>n, <1>4, OnlyJobType DEF RenameFails
<1>5. CASE SaveFails(w)
  <2>1. PICK r \in {Opened(w), Torn} : Fill(w, r)
    BY <1>5 DEF SaveFails
  <2>2. r \in Record
    BY <1>0, <2>1, AbsentIsRecord DEF Opened
  <2>3. file' \in Record /\ tmp' \in Record /\ fd' \in [Workers -> Targets]
    BY <1>f, <2>1, <2>2
  <2>4. failed' \in [Kinds -> 0..MaxFaults] /\ UNCHANGED clockVars
    BY <1>0, <1>5, FaultType DEF SaveFails
  <2>5. QED
    BY <1>n, <1>5, <2>3, <2>4 DEF SaveFails, TypeOK, clockVars
<1>6. QED
  BY <1>1, <1>2, <1>3, <1>4, <1>5 DEF Save

LEMMA RemoveType ==
  ASSUME TypeOK, NEW w \in Workers, Remove(w), JobsOK'
  PROVE  TypeOK'
<1>0. /\ job \in [Workers -> Job] /\ fd \in [Workers -> Targets]
      /\ "record" \in Kinds
  BY DEF TypeOK, Kinds
<1>1. CASE RemoveFile(w)
  <2>1. job' \in [Workers -> Job]
    BY <1>0, <1>1, ReturnType DEF RemoveFile
  <2>2. fd' \in [Workers -> Targets]
    BY <1>0, <1>1 DEF RemoveFile, Targets
  <2>3. QED
    BY <1>1, <2>1, <2>2, AbsentIsRecord DEF RemoveFile, TypeOK, envVars, clockVars
<1>2. CASE RemoveFails(w)
  <2>1. job' \in [Workers -> Job]
    BY <1>0, <1>2, ReturnType DEF RemoveFails
  <2>2. failed' \in [Kinds -> 0..MaxFaults] /\ UNCHANGED clockVars
    BY <1>0, <1>2, FaultType DEF RemoveFails
  <2>3. QED
    BY <1>2, <2>1, <2>2 DEF RemoveFails, TypeOK, filesVars, clockVars
<1>3. QED
  BY <1>1, <1>2 DEF Remove

LEMMA StepType ==
  ASSUME TypeOK, NEW w \in Workers, Step(w)
  PROVE  TypeOK'
<1>a. JobsOK'
  BY StepJobs
<1>0. /\ file \in Record
      /\ job \in [Workers -> Job]
      /\ 0 \in Invites
      /\ NoKey \in Keys \cup {NoKey}
      /\ usage \in Levels
      /\ \A r \in Record : r.ownerKey \in Keys \cup {NoKey}
  BY ConstantsAssumption DEF TypeOK, Invites, Record
<1>j. /\ job[w].op \in Ops /\ job[w].rec \in Record
      /\ job[w].key \in Keys \cup {NoKey} /\ job[w].token \in Invites
  BY <1>0 DEF Job
<1>1. CASE Measure(w)
  <2>1. Polled(job[w].rec, usage) \in Record
    BY <1>0, <1>j, PolledIsRecord
  <2>2. PollAccess(job[w].rec, usage) \in Pcs
    BY DEF PollAccess, Pcs
  <2>3. (IF PollAccess(job[w].rec, usage) = "authorize" THEN job[w].rec.ownerKey
         ELSE NoKey) \in Keys \cup {NoKey}
    BY <1>0, <1>j
  <2>4. job' \in [Workers -> Job]
    BY <1>0, <1>j, <1>1, <2>1, <2>2, <2>3, BeginType DEF Measure
  <2>5. QED
    BY <1>a, <1>1, <2>4, OnlyJobType DEF Measure
<1>2. CASE MeasureFails(w)
  <2>1. job' \in [Workers -> Job]
    BY <1>0, <1>2, ReturnType DEF MeasureFails
  <2>2. QED
    BY <1>a, <1>2, <2>1, OnlyJobType DEF MeasureFails
<1>3. CASE Reread(w)
  <2>1. job' \in [Workers -> Job]
    <3>1. Begin(w, "readmit", "authorize", file, file.ownerKey, 0)
          => job' \in [Workers -> Job]
      BY <1>0, BeginType DEF Ops, Pcs
    <3>2. QED
      BY <1>0, <1>3, <3>1, ReturnType DEF Reread
  <2>2. QED
    BY <1>a, <1>3, <2>1, OnlyJobType DEF Reread
<1>4. QED
  BY <1>a, <1>1, <1>2, <1>3, AccessType, SaveType, RemoveType DEF Step

LEMMA EnvironmentType == TypeOK /\ Environment => TypeOK'
<1> SUFFICES ASSUME TypeOK, Environment
             PROVE  TypeOK'
  OBVIOUS
<1>1. CASE UsageChanges
  BY <1>1 DEF UsageChanges, TypeOK, filesVars, JobsOK, Idle
<1>2. CASE InviteLapses
  <2>1. lapsed' \in 0..issued'
    BY <1>2, LapsedBounds DEF InviteLapses
  <2>2. QED
    BY <1>2, <2>1 DEF InviteLapses, TypeOK, filesVars, JobsOK, Idle
<1>3. CASE Crash
  <2>1. failed' \in [Kinds -> 0..MaxFaults] /\ UNCHANGED clockVars
    BY <1>3, FaultType DEF Crash, Kinds
  <2>2. job' \in [Workers -> Job] /\ fd' \in [Workers -> Targets]
    BY <1>3, AbsentIsRecord DEF Crash, Targets
  <2>3. JobsOK'
    BY <1>3 DEF Crash, JobsOK, IdleJob
  <2>4. QED
    BY <1>3, <2>1, <2>2, <2>3 DEF Crash, TypeOK, clockVars
<1>4. QED
  BY <1>1, <1>2, <1>3 DEF Environment

LEMMA InitType == Init => TypeOK
<1> SUFFICES ASSUME Init
             PROVE  TypeOK
  OBVIOUS
<1>1. 0 \in Invites /\ 0 \in 0..MaxFaults /\ 0 \in 0..0
  BY ConstantsAssumption DEF Invites
<1>2. job \in [Workers -> Job] /\ fd \in [Workers -> Targets] /\ JobsOK
  BY AbsentIsRecord DEF Init, Targets, JobsOK, IdleJob
<1>3. QED
  BY <1>1, <1>2, AbsentIsRecord, ConstantsAssumption DEF Init, TypeOK

LEMMA NextType == TypeOK /\ [Next]_vars => TypeOK'
<1> SUFFICES ASSUME TypeOK, [Next]_vars
             PROVE  TypeOK'
  OBVIOUS
<1>1. CASE \E w \in Requests : Request(w)
  BY <1>1, RequestType DEF Workers
<1>2. CASE \E w \in Workers : Step(w)
  BY <1>2, StepType
<1>3. CASE UNCHANGED vars
  BY <1>3 DEF vars, TypeOK, filesVars, envVars, clockVars, JobsOK, Idle
<1>4. QED
  BY <1>1, <1>2, <1>3, TickType, EnvironmentType DEF Next, Busy

\* The files, the handlers' copies and the history keep their types, whatever
\* overlaps and wherever the agent stops.
THEOREM TypeCorrect == Spec => []TypeOK
BY InitType, NextType, PTL DEF Spec
-----------------------------------------------------------------------------
(***************************************************************************)
(* Records.  RecordIsWhole and OwnerWasGranted speak of what the agent has *)
(* saved; they are inductive together with the same of every copy that a   *)
(* handler holds and may still save, and of the copies that PollOne works  *)
(* on, which were READY or SUSPENDED when they were read.                  *)
(***************************************************************************)
Granted(r, g) == r.ownerKey # NoKey => r.ownerKey \in g.keys

Sound(r, g) == Whole(r) /\ Granted(r, g)

Sensible(j, g) ==
  /\ Sound(j.rec, g)
  /\ j.pc = "measure" => j.rec.state \in {"READY", "SUSPENDED"}

RecordsInv ==
  /\ Sound(file, grants)
  /\ Sound(tmp, grants)
  /\ \A w \in Workers : Sensible(job[w], grants)

LEMMA AbsentIsSound ==
  ASSUME NEW g
  PROVE  Sound(Absent, g) /\ Sound(Empty, g) /\ Sound(Torn, g)
<1>1. \A x \in {"ABSENT", "EMPTY", "TORN"} :
        /\ Blank(x).state = x /\ Blank(x).ownerKey = NoKey
        /\ Blank(x).token = 0 /\ Blank(x).invite = 0
  BY DEF Blank
<1>2. \A x \in {"ABSENT", "EMPTY", "TORN"} :
        Blank(x) \in {Absent, Empty, Torn} => Sound(Blank(x), g)
  BY <1>1 DEF Sound, Whole, Granted
<1>3. QED
  BY <1>2 DEF Absent, Empty, Torn

LEMMA CreatedIsSound ==
  ASSUME NEW g
  PROVE  Sound([Absent EXCEPT !.state = "DRAFT"], g)
BY DEF Sound, Whole, Granted, Absent, Blank, Readable, States

LEMMA InvitedIsSound ==
  ASSUME NEW r \in Record, NEW g, NEW i \in Nat \ {0}, Sound(r, g),
         r.state \in {"DRAFT", "EXPIRED"}
  PROVE  Sound([r EXCEPT !.state = "PENDING_KEY", !.token = i, !.invite = i], g)
<1> DEFINE n == [r EXCEPT !.state = "PENDING_KEY", !.token = i, !.invite = i]
<1>1. /\ n.state = "PENDING_KEY" /\ n.token = i /\ n.invite = i
      /\ n.ownerKey = r.ownerKey /\ n.enforced = r.enforced
      /\ n.quotaState = r.quotaState
  BY DEF Record
<1> HIDE DEF n
<1>2. Sound(n, g)
  BY <1>1 DEF Sound, Whole, Granted, Readable, States
<1>3. QED
  BY <1>2 DEF n

LEMMA ClearedIsSound ==
  ASSUME NEW r \in Record, NEW g, Sound(r, g), Readable(r)
  PROVE  Sound(Cleared(r), g)
<1>1. /\ Cleared(r).token = 0 /\ Cleared(r).state = r.state
      /\ Cleared(r).invite = r.invite /\ Cleared(r).ownerKey = r.ownerKey
      /\ Cleared(r).enforced = r.enforced /\ Cleared(r).quotaState = r.quotaState
  BY DEF Cleared, Record
<1>2. QED
  BY <1>1 DEF Sound, Whole, Granted, Readable

\* The moves that change nothing but the state.
LEMMA MovedIsSound ==
  ASSUME NEW r \in Record, NEW g, NEW s \in States, Sound(r, g),
         \/ r.state = "PENDING_KEY" /\ s = "EXPIRED"
         \/ r.state = "READY" /\ s = "SUSPENDED"
         \/ s \in {"RETIRING", "RETIRED"}
  PROVE  Sound([r EXCEPT !.state = s], g)
<1> DEFINE n == [r EXCEPT !.state = s]
<1>1. /\ n.state = s /\ n.token = r.token /\ n.invite = r.invite
      /\ n.ownerKey = r.ownerKey /\ n.enforced = r.enforced
      /\ n.quotaState = r.quotaState
  BY DEF Record
<1> HIDE DEF n
<1>2. Sound(n, g)
  BY <1>1 DEF Sound, Whole, Granted, Readable
<1>3. QED
  BY <1>2 DEF n

LEMMA PolledIsSound ==
  ASSUME NEW r \in Record, NEW g, NEW u \in Levels, Sound(r, g),
         r.state \in {"READY", "SUSPENDED"}
  PROVE  Sound(Polled(r, u), g)
<1>1. /\ Polled(r, u).state \in {"READY", "SUSPENDED"}
      /\ Polled(r, u).token = r.token /\ Polled(r, u).invite = r.invite
      /\ Polled(r, u).ownerKey = r.ownerKey
  BY DEF Polled, Record
<1>2. QED
  BY <1>1 DEF Sound, Whole, Granted, Readable, States

LEMMA AdmittedIsSound ==
  ASSUME NEW r \in Record, NEW g, NEW k \in Keys, k \in g.keys,
         Whole(r), CanTransition(r, "READY")
  PROVE  Sound(Admitted(r, k), g)
<1>1. /\ Admitted(r, k).state = "READY" /\ Admitted(r, k).ownerKey = k
      /\ Admitted(r, k).token = r.token /\ Admitted(r, k).invite = r.invite
  BY DEF Admitted, Record
<1>2. r.state \in {"PENDING_KEY", "SUSPENDED"}
  BY DEF CanTransition, validTransitions, States
<1>3. k # NoKey
  BY ConstantsAssumption
<1>4. QED
  BY <1>1, <1>2, <1>3 DEF Sound, Whole, Granted, Readable, States

LEMMA MoreGrants ==
  ASSUME NEW r, NEW g, NEW h, Sound(r, g), g.keys \subseteq h.keys
  PROVE  Sound(r, h)
BY DEF Sound, Granted

LEMMA BeginSensible ==
  ASSUME job \in [Workers -> Job], NEW g, NEW w \in Workers,
         NEW op, NEW pc, NEW r, NEW k, NEW t,
         \A v \in Workers : Sensible(job[v], g),
         Begin(w, op, pc, r, k, t), Sound(r, g),
         pc = "measure" => r.state \in {"READY", "SUSPENDED"}
  PROVE  \A v \in Workers : Sensible(job'[v], g)
<1>1. job'[w].rec = r /\ job'[w].pc = pc
  BY DEF Begin
<1>2. \A v \in Workers \ {w} : job'[v] = job[v]
  BY DEF Begin
<1>3. QED
  BY <1>1, <1>2 DEF Sensible

LEMMA GoToSensible ==
  ASSUME job \in [Workers -> Job], NEW g, NEW w \in Workers, NEW pc,
         \A v \in Workers : Sensible(job[v], g),
         GoTo(w, pc), pc # "measure"
  PROVE  \A v \in Workers : Sensible(job'[v], g)
<1>1. job'[w].rec = job[w].rec /\ job'[w].pc = pc
  BY DEF GoTo, Job
<1>2. \A v \in Workers \ {w} : job'[v] = job[v]
  BY DEF GoTo
<1>3. QED
  BY <1>1, <1>2 DEF Sensible

LEMMA ReturnSensible ==
  ASSUME job \in [Workers -> Job], NEW g, NEW w \in Workers,
         \A v \in Workers : Sensible(job[v], g),
         Return(w)
  PROVE  \A v \in Workers : Sensible(job'[v], g)
<1>1. job'[w].rec = Absent /\ job'[w].pc = "idle"
  BY DEF Return, IdleJob
<1>2. \A v \in Workers \ {w} : job'[v] = job[v]
  BY DEF Return
<1>3. QED
  BY <1>1, <1>2, AbsentIsSound DEF Sensible

LEMMA RequestSound ==
  ASSUME TypeOK, RecordsInv, NEW w \in Workers, Request(w)
  PROVE  RecordsInv'
<1>0. /\ job \in [Workers -> Job] /\ file \in Record
      /\ Sound(file, grants)
      /\ \A v \in Workers : Sensible(job[v], grants)
  BY DEF TypeOK, RecordsInv
<1>f. UNCHANGED <<file, tmp, grants>>
  BY DEF Request, Create, Patch, GenerateInvite, ImportOwnerResponse, SubmitResponse,
         Suspend, Resume, Retire, DeleteAllocation, Read, filesVars
<1>s. SUFFICES \A v \in Workers : Sensible(job'[v], grants)
  BY <1>f DEF RecordsInv
<1>r. ASSUME Read(w)
      PROVE  Readable(file)
  BY <1>r DEF Read
<1>1. CASE Create(w)
  BY <1>0, <1>1, CreatedIsSound, BeginSensible DEF Create
<1>2. CASE Patch(w)
  BY <1>0, <1>2, BeginSensible DEF Patch
<1>3. CASE GenerateInvite(w)
  <2>1. issued + 1 \in Nat \ {0}
    BY LapsedBounds
  <2>2. Sound([file EXCEPT !.state = "PENDING_KEY", !.token = issued + 1,
                           !.invite = issued + 1], grants)
    BY <1>0, <1>3, <2>1, InvitedIsSound DEF GenerateInvite
  <2>3. QED
    BY <1>0, <1>3, <2>2, BeginSensible DEF GenerateInvite
<1>4. CASE \E k \in Keys : ImportOwnerResponse(w, k)
  BY <1>0, <1>4, BeginSensible DEF ImportOwnerResponse
<1>5. CASE \E t \in 0..issued, k \in Keys \cup {NoKey} : SubmitResponse(w, t, k)
  <2>1. Sound(Cleared(file), grants)
    BY <1>0, <1>r, <1>5, ClearedIsSound DEF SubmitResponse
  <2>2. ASSUME NEW t, NEW k, SubmitResponse(w, t, k)
        PROVE  \A v \in Workers : Sensible(job'[v], grants)
    <3>1. Begin(w, "submit", "save", Cleared(file), k, t)
          => \A v \in Workers : Sensible(job'[v], grants)
      BY <1>0, <2>1, BeginSensible
    <3>2. Begin(w, "burn", "save", Cleared(file), NoKey, 0)
          => \A v \in Workers : Sensible(job'[v], grants)
      BY <1>0, <2>1, BeginSensible
    <3>3. QED
      BY <2>2, <3>1, <3>2 DEF SubmitResponse
  <2>3. QED
    BY <1>5, <2>2
<1>6. CASE Suspend(w)
  <2>1. Sound([file EXCEPT !.state = "SUSPENDED"], grants)
    BY <1>0, <1>6, MovedIsSound DEF Suspend, States
  <2>2. QED
    BY <1>0, <1>6, <2>1, BeginSensible DEF Suspend
<1>7. CASE Resume(w)
  BY <1>0, <1>7, BeginSensible DEF Resume
<1>8. CASE Retire(w)
  <2>1. Sound([file EXCEPT !.state = "RETIRING"], grants)
    BY <1>0, <1>8, MovedIsSound DEF Retire, States
  <2>2. QED
    BY <1>0, <1>8, <2>1, BeginSensible DEF Retire
<1>9. CASE DeleteAllocation(w)
  BY <1>0, <1>9, BeginSensible, AbsentIsSound DEF DeleteAllocation
<1>10. QED
  BY <1>1, <1>2, <1>3, <1>4, <1>5, <1>6, <1>7, <1>8, <1>9 DEF Request

LEMMA TickSound ==
  ASSUME TypeOK, RecordsInv, Tick
  PROVE  RecordsInv'
<1>0. /\ job \in [Workers -> Job] /\ file \in Record
      /\ Sound(file, grants)
      /\ \A v \in Workers : Sensible(job[v], grants)
      /\ "poller" \in Workers /\ "expirer" \in Workers /\ "retirer" \in Workers
  BY DEF TypeOK, RecordsInv, Workers, Background
<1>s. SUFFICES \A v \in Workers : Sensible(job'[v], grants)
  BY DEF RecordsInv, Tick, PollTick, ExpiryTick, RetirementTick, Read, filesVars
<1>1. CASE PollTick
  BY <1>0, <1>1, BeginSensible DEF PollTick
<1>2. CASE ExpiryTick
  <2>1. Sound([file EXCEPT !.state = "EXPIRED"], grants)
    BY <1>0, <1>2, MovedIsSound DEF ExpiryTick, States
  <2>2. QED
    BY <1>0, <1>2, <2>1, BeginSensible DEF ExpiryTick
<1>3. CASE RetirementTick
  <2>1. Sound([file EXCEPT !.state = "RETIRED"], grants)
    BY <1>0, <1>3, MovedIsSound DEF RetirementTick, States
  <2>2. QED
    BY <1>0, <1>3, <2>1, BeginSensible DEF RetirementTick
<1>4. QED
  BY <1>1, <1>2, <1>3 DEF Tick

LEMMA AccessSound ==
  ASSUME TypeOK, RecordsInv, NEW w \in Workers, Access(w)
  PROVE  RecordsInv'
<1>0. /\ job \in [Workers -> Job]
      /\ Sound(file, grants) /\ Sound(tmp, grants)
      /\ \A v \in Workers : Sensible(job[v], grants)
  BY DEF TypeOK, RecordsInv
<1>j. /\ job[w].rec \in Record /\ job[w].key \in Keys \cup {NoKey}
      /\ job[w].token \in Invites /\ Sound(job[w].rec, grants)
  BY <1>0 DEF Job, Sensible
<1>n. ASSUME NEW g, NotAuthorized(w) \/ Deauthorized(w) \/ Return(w),
             \A v \in Workers : Sensible(job[v], g)
      PROVE  \A v \in Workers : Sensible(job'[v], g)
  BY <1>0, <1>n, GoToSensible, ReturnSensible DEF NotAuthorized, Deauthorized
<1>g. ASSUME NEW h, grants.keys \subseteq h.keys
      PROVE  /\ Sound(file, h) /\ Sound(tmp, h)
             /\ Sound(job[w].rec, h)
             /\ \A v \in Workers : Sensible(job[v], h)
  BY <1>0, <1>j, <1>g, MoreGrants DEF Sensible
<1>1. CASE AuthorizeKey(w)
  <2>1. /\ job[w].key \in Keys
        /\ grants'.keys = grants.keys \cup {job[w].key}
        /\ UNCHANGED <<file, tmp>>
    BY <1>j, <1>1 DEF AuthorizeKey, Grant
  <2>2. /\ Sound(file, grants') /\ Sound(tmp, grants')
        /\ Sound(job[w].rec, grants')
        /\ \A v \in Workers : Sensible(job[v], grants')
    BY <1>g, <2>1
  <2>3. CanTransition(job[w].rec, "READY")
        => Sound(Admitted(job[w].rec, job[w].key), grants')
    BY <1>j, <2>1, AdmittedIsSound DEF Sound
  <2>4. \A v \in Workers : Sensible(job'[v], grants')
    <3>1. Begin(w, job[w].op, "save", job[w].rec, NoKey, 0)
          => \A v \in Workers : Sensible(job'[v], grants')
      BY <1>0, <2>2, BeginSensible
    <3>2. CanTransition(job[w].rec, "READY")
          /\ Begin(w, job[w].op, "save", Admitted(job[w].rec, job[w].key), NoKey, 0)
          => \A v \in Workers : Sensible(job'[v], grants')
      BY <1>0, <2>2, <2>3, BeginSensible
    <3>3. Return(w) => \A v \in Workers : Sensible(job'[v], grants')
      BY <1>0, <2>2, ReturnSensible
    <3>4. QED
      BY <1>1, <3>1, <3>2, <3>3 DEF AuthorizeKey
  <2>5. QED
    BY <2>1, <2>2, <2>4 DEF RecordsInv
<1>2. CASE AuthorizeStops(w)
  <2>1. /\ grants.keys \subseteq grants'.keys
        /\ NotAuthorized(w)
        /\ UNCHANGED <<file, tmp>>
    BY <1>2 DEF AuthorizeStops, Grant
  <2>2. QED
    BY <1>g, <1>n, <2>1 DEF RecordsInv
<1>3. CASE \/ AuthorizeFails(w) \/ DeauthorizeKey(w) \/ DeauthorizeFails(w)
           \/ ProvisionUser(w) \/ ProvisionFails(w)
  <2>1. /\ NotAuthorized(w) \/ Deauthorized(w) \/ Return(w)
        /\ UNCHANGED <<file, tmp, grants>>
    BY <1>3 DEF AuthorizeFails, DeauthorizeKey, DeauthorizeFails, ProvisionUser,
       ProvisionFails, filesVars
  <2>2. QED
    BY <1>0, <1>n, <2>1 DEF RecordsInv
<1>4. QED
  BY <1>1, <1>2, <1>3 DEF Access

LEMMA SaveSound ==
  ASSUME TypeOK, RecordsInv, NEW w \in Workers, Save(w)
  PROVE  RecordsInv'
<1>0. /\ job \in [Workers -> Job]
      /\ Sound(file, grants) /\ Sound(tmp, grants)
      /\ \A v \in Workers : Sensible(job[v], grants)
      /\ Sound(job[w].rec, grants)
  BY DEF TypeOK, RecordsInv, Sensible
<1>n. ASSUME Saved(w) \/ NotSaved(w)
      PROVE  \A v \in Workers : Sensible(job'[v], grants)
  BY <1>0, <1>n, SavedGoesOn, GoToSensible, ReturnSensible
<1>f. ASSUME NEW r, Sound(r, grants), Fill(w, r)
      PROVE  Sound(file', grants) /\ Sound(tmp', grants)
  BY <1>0, <1>f DEF Fill
<1>1. CASE OpenTmp(w)
  <2>1. \A v \in Workers : Sensible(job'[v], grants)
    BY <1>0, <1>1, GoToSensible DEF OpenTmp
  <2>2. QED
    BY <1>0, <1>1, <2>1, AbsentIsSound DEF OpenTmp, RecordsInv
<1>2. CASE WriteTmp(w)
  <2>1. PICK r \in Overlaid(Opened(w), job[w].rec) : Fill(w, r)
    BY <1>2 DEF WriteTmp
  <2>2. Sound(r, grants)
    BY <1>0, <2>1, AbsentIsSound DEF Overlaid
  <2>3. Sound(file', grants) /\ Sound(tmp', grants)
    BY <1>f, <2>1, <2>2
  <2>4. Sound(IF Clearing(w) THEN job[w].rec ELSE Absent, grants)
    BY <1>0, AbsentIsSound
  <2>5. \A v \in Workers : Sensible(job'[v], grants)
    BY <1>0, <1>2, <2>4, BeginSensible DEF WriteTmp
  <2>6. QED
    BY <1>2, <2>3, <2>5 DEF WriteTmp, RecordsInv
<1>3. CASE RenameTmp(w)
  BY <1>0, <1>n, <1>3, AbsentIsSound DEF RenameTmp, RecordsInv
<1>4. CASE RenameFails(w)
  BY <1>0, <1>n, <1>4 DEF RenameFails, RecordsInv, filesVars
<1>5. CASE SaveFails(w)
  <2>1. PICK r \in {Opened(w), Torn} : Fill(w, r)
    BY <1>5 DEF SaveFails
  <2>2. Sound(r, grants)
    BY <1>0, <2>1, AbsentIsSound DEF Opened
  <2>3. Sound(file', grants) /\ Sound(tmp', grants)
    BY <1>f, <2>1, <2>2
  <2>4. QED
    BY <1>n, <1>5, <2>3 DEF SaveFails, RecordsInv
<1>6. QED
  BY <1>1, <1>2, <1>3, <1>4, <1>5 DEF Save

LEMMA StepSound ==
  ASSUME TypeOK, RecordsInv, NEW w \in Workers, Step(w)
  PROVE  RecordsInv'
<1>0. /\ job \in [Workers -> Job]
      /\ Sound(file, grants) /\ Sound(tmp, grants)
      /\ \A v \in Workers : Sensible(job[v], grants)
  BY DEF TypeOK, RecordsInv
<1>j. /\ job[w].rec \in Record /\ usage \in Levels
      /\ Sound(job[w].rec, grants)
  BY <1>0, ConstantsAssumption DEF Job, TypeOK, Sensible
<1>1. CASE Measure(w)
  <2>1. Sound(Polled(job[w].rec, usage), grants)
    BY <1>0, <1>j, <1>1, PolledIsSound DEF Measure, Sensible
  <2>2. PollAccess(job[w].rec, usage) # "measure"
    BY DEF PollAccess
  <2>3. \A v \in Workers : Sensible(job'[v], grants)
    BY <1>0, <1>1, <2>1, <2>2, BeginSensible DEF Measure
  <2>4. QED
    BY <1>0, <1>1, <2>3 DEF Measure, RecordsInv, filesVars
<1>2. CASE MeasureFails(w)
  <2>1. \A v \in Workers : Sensible(job'[v], grants)
    BY <1>0, <1>2, ReturnSensible DEF MeasureFails
  <2>2. QED
    BY <1>0, <1>2, <2>1 DEF MeasureFails, RecordsInv, filesVars
<1>3. CASE Reread(w)
  <2>1. \A v \in Workers : Sensible(job'[v], grants)
    <3>1. Begin(w, "readmit", "authorize", file, file.ownerKey, 0)
          => \A v \in Workers : Sensible(job'[v], grants)
      BY <1>0, BeginSensible
    <3>2. QED
      BY <1>0, <1>3, <3>1, ReturnSensible DEF Reread
  <2>2. QED
    BY <1>0, <1>3, <2>1 DEF Reread, RecordsInv, filesVars
<1>4. CASE Remove(w)
  <2>1. Return(w) /\ UNCHANGED <<tmp, grants>> /\ file' \in {file, Absent}
    BY <1>4 DEF Remove, RemoveFile, RemoveFails, filesVars
  <2>2. QED
    BY <1>0, <2>1, ReturnSensible, AbsentIsSound DEF RecordsInv
<1>5. QED
  BY <1>1, <1>2, <1>3, <1>4, AccessSound, SaveSound DEF Step

LEMMA EnvironmentSound ==
  ASSUME RecordsInv, Environment
  PROVE  RecordsInv'
<1>1. CASE Crash
  <2>1. \A w \in Workers : Sensible(job'[w], grants)
    BY <1>1, AbsentIsSound DEF Crash, Sensible, IdleJob
  <2>2. QED
    BY <1>1, <2>1 DEF Crash, RecordsInv, filesVars
<1>2. CASE UsageChanges \/ InviteLapses
  BY <1>2 DEF UsageChanges, InviteLapses, RecordsInv, filesVars
<1>3. QED
  BY <1>1, <1>2 DEF Environment

LEMMA RecordsAlways == Spec => []RecordsInv
<1>1. Init => RecordsInv
  BY AbsentIsSound DEF Init, RecordsInv, Sensible, IdleJob
<1>2. TypeOK /\ RecordsInv /\ [Next]_vars => RecordsInv'
  <2> SUFFICES ASSUME TypeOK, RecordsInv, [Next]_vars
               PROVE  RecordsInv'
    OBVIOUS
  <2>1. CASE UNCHANGED vars
    BY <2>1 DEF vars, filesVars, RecordsInv
  <2>2. QED
    BY <2>1, RequestSound, TickSound, StepSound, EnvironmentSound DEF Next, Busy, Workers
<1>3. QED
  BY <1>1, <1>2, TypeCorrect, PTL DEF Spec

\* However the handlers overlap, wherever the agent stops and whichever write fails,
\* a record that can be read back at all is one that some handler made as a whole:
\* what two saves leave that write the same file at once (Manager.save has no lock)
\* does not parse.
THEOREM RecordsAreWhole == Spec => []RecordIsWhole
<1>1. RecordsInv => RecordIsWhole
  BY DEF RecordsInv, RecordIsWhole, Sound
<1>2. QED
  BY <1>1, RecordsAlways, PTL

\* A record's owner has been through AuthorizeKey: no stale save, lost save or crash
\* makes the agent claim an owner whose key sshd has never been given.
THEOREM OwnersWereGranted == Spec => []OwnerWasGranted
<1>1. RecordsInv => OwnerWasGranted
  BY DEF RecordsInv, OwnerWasGranted, Sound, Granted
<1>2. QED
  BY <1>1, RecordsAlways, PTL
-----------------------------------------------------------------------------
(***************************************************************************)
(* The temporary file.  Whoever made it has it open or is about to rename  *)
(* it, and nobody gives that up while it is there but by renaming it, by a *)
(* failure of the volume or by a crash.                                    *)
(***************************************************************************)
Renaming(w) == fd[w] = "tmp" \/ job[w].pc = "rename"

LEMMA OthersGoOn ==
  ASSUME job \in [Workers -> Job], NEW w \in Workers,
         \/ \E op, pc, r, k, t : Begin(w, op, pc, r, k, t)
         \/ \E pc : GoTo(w, pc)
         \/ Return(w)
  PROVE  \A v \in Workers \ {w} : job'[v] = job[v]
BY DEF Begin, GoTo, Return

\* Faults are only ever counted up.
LEMMA FaultCounts ==
  ASSUME TypeOK, NEW k \in Kinds, Fault(k)
  PROVE  /\ failed'[k] > 0
         /\ \A x \in Kinds : failed[x] > 0 => failed'[x] > 0
BY ConstantsAssumption DEF Fault, TypeOK

LEMMA AloneInTmp ==
  ASSUME TypeOK, TmpIsTransient, NEW w \in Workers, ~Renaming(w), tmp' = tmp,
         \/ UNCHANGED failed
         \/ \E k \in Kinds : Fault(k),
         \A v \in Workers \ {w} : job'[v] = job[v],
         \A v \in Workers : fd[v] = "tmp" => fd'[v] = "tmp"
  PROVE  TmpIsTransient'
<1>1. \A x \in Kinds : failed[x] > 0 => failed'[x] > 0
  BY FaultCounts
<1>2. \A v \in Workers : Renaming(v) => (fd'[v] = "tmp" \/ job'[v].pc = "rename")
  BY DEF Renaming
<1>3. QED
  BY <1>1, <1>2 DEF TmpIsTransient, Present, Renaming, Kinds

LEMMA TmpSave ==
  ASSUME TypeOK, TmpIsTransient, NEW w \in Workers, Save(w)
  PROVE  TmpIsTransient'
<1>0. job \in [Workers -> Job] /\ fd \in [Workers -> Targets]
  BY DEF TypeOK
<1>1. CASE OpenTmp(w)
  <2>1. fd'[w] = "tmp"
    BY <1>0, <1>1 DEF OpenTmp
  <2>2. QED
    BY <2>1 DEF TmpIsTransient
<1>2. CASE WriteTmp(w)
  <2>1. job'[w].pc = "rename"
    BY <1>0, <1>2 DEF WriteTmp, Begin
  <2>2. QED
    BY <2>1 DEF TmpIsTransient
<1>3. CASE RenameTmp(w)
  BY <1>3 DEF RenameTmp, TmpIsTransient, Present, Absent, Blank
<1>4. CASE RenameFails(w)
  BY <1>4 DEF RenameFails, TmpIsTransient, filesVars, Present
<1>5. CASE SaveFails(w)
  <2>1. failed'["record"] > 0
    BY <1>5, FaultCounts DEF SaveFails, Kinds
  <2>2. QED
    BY <2>1 DEF TmpIsTransient
<1>6. QED
  BY <1>1, <1>2, <1>3, <1>4, <1>5 DEF Save

LEMMA TmpStep == TypeOK /\ TmpIsTransient /\ [Next]_vars => TmpIsTransient'
<1> SUFFICES ASSUME TypeOK, TmpIsTransient, [Next]_vars
             PROVE  TmpIsTransient'
  OBVIOUS
<1>0. job \in [Workers -> Job] /\ JobsOK /\ fd \in [Workers -> Targets]
  BY DEF TypeOK
<1>i. \A w \in Workers : job[w].pc \notin {"write", "rename"} => ~Renaming(w)
  BY <1>0 DEF Renaming, JobsOK
<1>2. ASSUME NEW w \in Workers, Request(w)
      PROVE  TmpIsTransient'
  <2>1. /\ job[w].pc = "idle"
        /\ UNCHANGED <<tmp, fd, failed>>
        /\ \E op, pc, r, k, t : Begin(w, op, pc, r, k, t)
    BY <1>2 DEF Request, Create, Patch, GenerateInvite, ImportOwnerResponse,
      SubmitResponse, Suspend, Resume, Retire, DeleteAllocation, Read, Free, Idle,
      filesVars, envVars
  <2>2. QED
    BY <1>0, <1>i, <2>1, AloneInTmp, OthersGoOn
<1>3. CASE Tick
  <2>1. PICK w \in Workers :
          /\ job[w].pc = "idle"
          /\ UNCHANGED <<tmp, fd, failed>>
          /\ \E op, pc, r, k, t : Begin(w, op, pc, r, k, t)
    BY <1>3 DEF Tick, PollTick, ExpiryTick, RetirementTick, Read, Free, Idle,
      filesVars, envVars, Workers, Background
  <2>2. QED
    BY <1>0, <1>i, <2>1, AloneInTmp, OthersGoOn
<1>4. ASSUME NEW w \in Workers, Step(w)
      PROVE  TmpIsTransient'
  <2>1. CASE Measure(w) \/ MeasureFails(w) \/ Reread(w)
    <3>1. /\ job[w].pc \notin {"write", "rename"}
          /\ UNCHANGED <<tmp, fd, failed>>
      BY <2>1 DEF Measure, MeasureFails, Reread, filesVars, envVars
    <3>2. \/ \E op, pc, r, k, t : Begin(w, op, pc, r, k, t)
          \/ Return(w)
      BY <2>1 DEF Measure, MeasureFails, Reread
    <3>3. QED
      BY <1>0, <1>i, <3>1, <3>2, AloneInTmp, OthersGoOn
  <2>2. CASE Access(w)
    <3>1. /\ job[w].pc \notin {"write", "rename"}
          /\ UNCHANGED <<tmp, fd>>
          /\ UNCHANGED failed \/ \E k \in Kinds : Fault(k)
      BY <2>2 DEF Access, AuthorizeKey, AuthorizeFails, AuthorizeStops, DeauthorizeKey,
        DeauthorizeFails, ProvisionUser, ProvisionFails, filesVars, envVars, Kinds
    <3>2. \/ \E op, pc, r, k, t : Begin(w, op, pc, r, k, t)
          \/ \E pc : GoTo(w, pc)
          \/ Return(w)
      BY <2>2 DEF Access, AuthorizeKey, AuthorizeFails, AuthorizeStops, DeauthorizeKey,
        DeauthorizeFails, ProvisionUser, ProvisionFails, NotAuthorized, Deauthorized
    <3>3. QED
      BY <1>0, <1>i, <3>1, <3>2, AloneInTmp, OthersGoOn
  <2>3. CASE Remove(w)
    <3>1. /\ job[w].pc \notin {"write", "rename"} /\ tmp' = tmp /\ Return(w)
          /\ UNCHANGED failed \/ \E k \in Kinds : Fault(k)
      BY <2>3 DEF Remove, RemoveFile, RemoveFails, filesVars, envVars, Kinds
    <3>2. \A v \in Workers : fd[v] = "tmp" => fd'[v] = "tmp"
      BY <1>0, <2>3 DEF Remove, RemoveFile, RemoveFails, filesVars
    <3>3. QED
      BY <1>0, <1>i, <3>1, <3>2, AloneInTmp, OthersGoOn
  <2>4. QED
    BY <1>4, <2>1, <2>2, <2>3, TmpSave DEF Step
<1>5. CASE UsageChanges \/ InviteLapses
  BY <1>5 DEF UsageChanges, InviteLapses, TmpIsTransient, filesVars
<1>6. CASE Crash
  <2>1. failed'["crash"] > 0
    BY <1>6, FaultCounts DEF Crash, Kinds
  <2>2. QED
    BY <2>1 DEF TmpIsTransient
<1>7. CASE UNCHANGED vars
  BY <1>7 DEF vars, filesVars, envVars, TmpIsTransient
<1>8. QED
  BY <1>2, <1>3, <1>4, <1>5, <1>6, <1>7 DEF Next, Busy, Environment, Workers

\* A save of Manager.save leaves no temporary file behind, however many use its one
\* name at once, unless the volume refuses a write or the agent crashes.
THEOREM NoTmpIsLeft == Spec => []TmpIsTransient
<1>1. Init => TmpIsTransient
  BY DEF Init, TmpIsTransient, Present, Absent, Blank
<1>2. QED
  BY <1>1, TmpStep, TypeCorrect, PTL DEF Spec
=============================================================================
