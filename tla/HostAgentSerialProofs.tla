------------------------- MODULE HostAgentSerialProofs -------------------------
(***************************************************************************)
(* One handler or tick at a time: what the record, authorized_keys and the *)
(* job at work have to do with each other, for any number of keys, invites *)
(* and faults.                                                             *)
(***************************************************************************)
EXTENDS HostAgentProofs, FiniteSetTheorems

Running == {"READY", "SUSPENDED"}
Waiting == {"DRAFT", "PENDING_KEY", "EXPIRED"}
Closed  == {"ABSENT", "DRAFT", "RETIRING", "RETIRED"}

(***************************************************************************)
(* What authorized_keys has when no job is at work, after the faults c:    *)
(* the key of the record as long as there were none, and in any case no    *)
(* key if the record is closed, unless the removal of one has failed.      *)
(***************************************************************************)
Still(c)   == \A k \in Kinds : c[k] = 0
Removes(c) == c["removal"] = 0

Admits(r) == IF r.state = "READY" THEN r.ownerKey ELSE NoKey

Fits(r, a, c) ==
  /\ Still(c) => a = Admits(r)
  /\ r.state \in Closed /\ Removes(c) => a = NoKey

(***************************************************************************)
(* What one operation makes of a record f.                                 *)
(***************************************************************************)
Shifted(f, r) ==
  /\ r.ownerKey = f.ownerKey /\ r.token = f.token /\ r.invite = f.invite
  /\ \/ r.state = f.state
     \/ f.state = "PENDING_KEY" /\ r.state = "EXPIRED"
     \/ f.state = "READY" /\ r.state = "SUSPENDED"
     \/ f.state = "SUSPENDED" /\ r.state = "READY"
     \/ f.state \in Waiting \cup Running /\ r.state = "RETIRING"
     \/ f.state = "RETIRING" /\ r.state = "RETIRED"

Renewed(f, r) ==
  /\ f.state \in {"DRAFT", "EXPIRED"} /\ r.state = "PENDING_KEY"
  /\ r.ownerKey = f.ownerKey
  /\ r.invite > f.invite /\ r.token = r.invite

Burnt(f, r) ==
  /\ r.state = f.state /\ r.ownerKey = f.ownerKey /\ r.invite = f.invite
  /\ r.token = 0

Accepted(f, r) ==
  /\ f.state = "PENDING_KEY" /\ r.state = "READY"
  /\ r.ownerKey \in Keys
  /\ r.token \in {f.token, 0} /\ r.invite = f.invite

Follows(f, r) ==
  /\ Readable(f) /\ Readable(r)
  /\ Shifted(f, r) \/ Renewed(f, r) \/ Burnt(f, r) \/ Accepted(f, r)

Born(f, r) == f = Absent /\ r = [Absent EXCEPT !.state = "DRAFT"]

(***************************************************************************)
(* A job j on its own at work: its copy against the record f, the          *)
(* temporary file t and the key a in authorized_keys, after the faults c.  *)
(* Whatever it is about to save fits the key already.                      *)
(***************************************************************************)
Authorizing(j, f, c) ==
  /\ f.state \notin Closed
  /\ j.op \in {"poll", "resume", "import", "submit", "readmit"}
  /\ j.op \in {"poll", "resume"} =>
       j.rec.state = "READY" /\ Shifted(f, j.rec) /\ j.key = j.rec.ownerKey
  /\ j.op \in {"import", "submit"} =>
       /\ f.state = "PENDING_KEY" /\ j.key \in Keys
       /\ j.rec \in {f, Cleared(f)}
       /\ c["record"] = 0 => j.rec = f
  /\ j.op = "readmit" => j.rec = f /\ j.key = f.ownerKey /\ f.state \in Running

Saves == {"save", "write", "rename"}

\* What a save is about to make the record.
Copy(j, t) == IF j.pc = "rename" THEN t ELSE j.rec

Saving(j, f, r, a, c) ==
  /\ Fits(r, a, c)
  /\ IF j.op = "create" THEN Born(f, r) ELSE Follows(f, r)
  /\ j.op = "resume" => r.state \in Running
  /\ j.op = "submit" /\ j.rec.state = "PENDING_KEY" =>
       /\ j.key \in Keys /\ f.state = "PENDING_KEY"
       /\ j.rec = Cleared(f) /\ r = j.rec

Serial(j, f, t, a, c) ==
  /\ j.op # "create" => Readable(f)
  /\ j.pc \in Saves => Saving(j, f, Copy(j, t), a, c)
  /\ j.pc = "write" => t = Empty
  /\ j.pc \in {"measure", "reread", "authorize", "provision"} => Fits(f, a, c)
  /\ j.pc \in {"measure", "reread"} => f.state \in Running
  /\ j.pc = "measure" => j.rec = f /\ j.op \in {"poll", "resume"}
  /\ j.pc = "authorize" => Authorizing(j, f, c)
  /\ j.pc = "provision" => j.op = "create"
  /\ j.pc = "deauthorize" =>
       /\ j.op \notin {"create", "submit"}
       /\ j.op # "delete" =>
            /\ j.rec.state \in {"SUSPENDED", "RETIRING"}
            /\ Shifted(f, j.rec)
            /\ j.op = "resume" => j.rec.state \in Running
  /\ j.pc = "remove" => j.op = "delete" /\ (Removes(c) => a = NoKey)

\* Nobody has the record itself open for writing, and the temporary file holds an
\* invite that has been issued.
TmpApart ==
  /\ \A w \in Workers : fd[w] \in {"none", "tmp"}
  /\ tmp.invite <= issued

SerialInv ==
  /\ \A v, w \in Busy : v = w
  /\ ClosedHasNoAccess
  /\ Present(file) \/ ~Quiet => created
  /\ file = Absent \/ Readable(file)
  /\ file.invite <= issued
  /\ TmpApart
  /\ \A w \in Workers : job[w].rec.invite <= issued
  /\ Still(failed) /\ Present(file) =>
       userDir \/ \E w \in Busy : job[w].pc = "provision"
  /\ Quiet => Fits(file, authKeys, failed)
  /\ \A w \in Busy : Serial(job[w], file, tmp, authKeys, failed)

LEMMA ReadableIsPresent ==
  ASSUME NEW r
  PROVE  /\ Readable(r) => Present(r)
         /\ Readable(r) => r # Absent
         /\ ~Readable(Absent) /\ ~Present(Absent)
         /\ \A s \in {"ABSENT", "EMPTY", "TORN"} :
              Blank(s).invite = 0 /\ Blank(s).state = s
BY DEF Readable, Present, Absent, Blank, States

\* After a fault nothing is still, and what had failed has failed.
LEMMA Disturbs ==
  ASSUME TypeOK, NEW k \in Kinds, Fault(k)
  PROVE  /\ ~Still(failed')
         /\ k = "removal" => ~Removes(failed')
         /\ k = "record" => failed'["record"] # 0
         /\ Removes(failed') => Removes(failed)
         /\ failed'["record"] = 0 => failed["record"] = 0
         /\ UNCHANGED <<issued, lapsed, usage>>
<1>1. failed \in [Kinds -> Nat]
  BY DEF TypeOK
<1>2. failed'[k] = failed[k] + 1 /\ \A x \in Kinds \ {k} : failed'[x] = failed[x]
  BY <1>1 DEF Fault
<1>3. \A x \in Kinds : failed[x] \in Nat
  BY <1>1
<1>4. "removal" \in Kinds /\ "record" \in Kinds
  BY DEF Kinds
<1>5. failed'[k] # 0
  BY <1>2, <1>3
<1>6. \A x \in Kinds : failed'[x] = 0 => failed[x] = 0
  BY <1>2, <1>3
<1>7. UNCHANGED <<issued, lapsed, usage>>
  BY DEF Fault, clockVars
<1>8. QED
  BY <1>4, <1>5, <1>6, <1>7 DEF Still, Removes
-----------------------------------------------------------------------------
\* A job begins only when none is at work.
LEMMA FreeIsQuiet ==
  ASSUME MaxInFlight \in 0..1, NEW w \in Workers, Free(w)
  PROVE  Busy = {}
<1>1. IsFiniteSet(Background)
  <2>1. Background = ({"poller"} \cup {"expirer"}) \cup {"retirer"}
    BY DEF Background
  <2>2. QED
    BY <2>1, FS_Singleton, FS_AddElement
<1>2. IsFiniteSet(Workers)
  BY <1>1, FS_Union, ConstantsAssumption DEF Workers
<1>3. IsFiniteSet(Busy)
  <2>1. Busy \in SUBSET Workers
    BY DEF Busy
  <2>2. QED
    BY <1>2, <2>1, FS_Subset
<1>4. Cardinality(Busy) \in Nat
  BY <1>3, FS_CardinalityType
<1>5. Cardinality(Busy) = 0
  BY <1>4 DEF Free, Room
<1>6. QED
  BY <1>3, <1>5, FS_EmptySet

\* The only job goes on with j, or ends.
LEMMA GoesOn ==
  ASSUME job \in [Workers -> Job], NEW w \in Workers, \A v \in Workers \ {w} : Idle(v),
         NEW j, job' = [job EXCEPT ![w] = j],
         created', ClosedHasNoAccess', TmpApart',
         (file = Absent \/ Readable(file))',
         file'.invite <= issued', j.rec.invite <= issued',
         \A v \in Workers \ {w} : job[v].rec.invite <= issued',
         Still(failed') /\ Present(file)' => userDir' \/ j.pc = "provision",
         j.pc = "idle" => Fits(file', authKeys', failed'),
         j.pc # "idle" => Serial(j, file', tmp', authKeys', failed')
  PROVE  SerialInv'
<1>1. job'[w] = j /\ \A v \in Workers \ {w} : job'[v] = job[v]
  OBVIOUS
<1>2. Busy' = IF j.pc = "idle" THEN {} ELSE {w}
  BY <1>1 DEF Busy, Idle
<1>3. CASE j.pc = "idle"
  <2>1. Busy' = {}
    BY <1>2, <1>3
  <2>2. QED
    BY <1>1, <1>3, <2>1 DEF SerialInv, Quiet
<1>4. CASE j.pc # "idle"
  <2>1. Busy' = {w}
    BY <1>2, <1>4
  <2>2. QED
    BY <1>1, <1>4, <2>1 DEF SerialInv, Quiet
<1>5. QED
  BY <1>3, <1>4

\* A request or a tick begins: it has read the record, and changed nothing yet.
LEMMA Begins ==
  ASSUME TypeOK, SerialInv, MaxInFlight \in 0..1, NEW w \in Workers, Free(w),
         NEW op, NEW pc, NEW r, NEW k, NEW t, Begin(w, op, pc, r, k, t), pc # "idle",
         created', UNCHANGED <<file, tmp, fd, authKeys, userDir, failed>>,
         issued' \in Nat, issued <= issued', r.invite <= issued', r \in Record,
         Serial([op |-> op, pc |-> pc, rec |-> r, key |-> k, token |-> t],
                file, tmp, authKeys, failed)
  PROVE  SerialInv'
<1> DEFINE j == [op |-> op, pc |-> pc, rec |-> r, key |-> k, token |-> t]
<1>1. Busy = {} /\ \A v \in Workers : Idle(v)
  BY FreeIsQuiet DEF Busy
<1>2. job \in [Workers -> Job] /\ job' = [job EXCEPT ![w] = j]
  BY DEF TypeOK, Begin
<1>3. /\ ClosedHasNoAccess'
      /\ (file = Absent \/ Readable(file))'
      /\ Still(failed') /\ Present(file)' => userDir'
  BY <1>1 DEF SerialInv, ClosedHasNoAccess, Present, Readable
<1>4. /\ issued \in Nat /\ file.invite \in Nat /\ tmp.invite \in Nat
      /\ \A v \in Workers : job[v].rec.invite \in Nat
  BY ConstantsAssumption DEF TypeOK, Record, Job, Invites
<1>5. /\ file'.invite <= issued' /\ tmp'.invite <= issued'
      /\ \A v \in Workers \ {w} : job[v].rec.invite <= issued'
  BY <1>4 DEF SerialInv, TmpApart
<1>6. j.pc = pc /\ j.rec = r
  OBVIOUS
<1>7. Serial(j, file', tmp', authKeys', failed')
  OBVIOUS
<1>9. TmpApart'
  BY <1>5 DEF TmpApart, SerialInv
<1> HIDE DEF j
<1>8. QED
  BY <1>1, <1>2, <1>3, <1>5, <1>6, <1>7, <1>9, GoesOn

-----------------------------------------------------------------------------
(***************************************************************************)
(* Requests and ticks: each begins with a job whose copy follows from the  *)
(* record it has read.                                                     *)
(***************************************************************************)
LEMMA AtRest ==
  ASSUME TypeOK, RecordsInv, SerialInv, MaxInFlight \in 0..1, NEW w \in Workers, Free(w)
  PROVE  /\ Fits(file, authKeys, failed)
         /\ Readable(file) => created
         /\ file \in Record /\ Whole(file)
         /\ file.invite \in Nat /\ file.invite <= issued
         /\ issued \in Nat
BY FreeIsQuiet, ConstantsAssumption
DEF SerialInv, Quiet, TypeOK, Record, Invites, RecordsInv, Sound,
    Present, Readable, States

LEMMA RequestSerial ==
  ASSUME TypeOK, RecordsInv, SerialInv, MaxInFlight \in 0..1,
         NEW w \in Workers, Request(w)
  PROVE  SerialInv'
<1>f. Free(w)
  BY DEF Request, Create, Patch, GenerateInvite, ImportOwnerResponse, SubmitResponse,
    Suspend, Resume, Retire, DeleteAllocation, Read
<1>0. /\ Fits(file, authKeys, failed)
      /\ Readable(file) => created
      /\ file \in Record /\ Whole(file)
      /\ file.invite \in Nat /\ file.invite <= issued
      /\ issued \in Nat
  BY <1>f, AtRest
<1>1. CASE Create(w)
  <2> DEFINE d == [Absent EXCEPT !.state = "DRAFT"]
  <2>1. file = Absent
    BY <1>0, <1>1 DEF Create, SerialInv
  <2>2. d \in Record /\ d.invite = 0 /\ d.state = "DRAFT"
    BY NewStateIsRecord, AbsentIsRecord DEF States, Absent, Blank
  <2>3. Born(file, d)
    BY <2>1 DEF Born
  <2>4. Fits(d, authKeys, failed)
    BY <1>0, <2>1, <2>2 DEF Fits, Admits, Closed, Absent, Blank
  <2>5. Serial([op |-> "create", pc |-> "save", rec |-> d, key |-> NoKey, token |-> 0],
               file, tmp, authKeys, failed)
    BY <2>3, <2>4 DEF Serial, Saving, Copy, Saves
  <2>6. /\ Begin(w, "create", "save", d, NoKey, 0) /\ created'
        /\ UNCHANGED <<file, tmp, fd, authKeys, userDir, failed, issued>>
    BY <1>1 DEF Create, envVars, clockVars
  <2> HIDE DEF d
  <2>7. QED
    BY <1>0, <1>f, <2>2, <2>5, <2>6, Begins
<1>2. ASSUME NEW op, NEW pc, NEW r \in Record, NEW k, NEW t,
             Begin(w, op, pc, r, k, t), pc # "idle", Readable(file),
             UNCHANGED filesVars, UNCHANGED <<failed, issued>>, r.invite <= issued,
             Serial([op |-> op, pc |-> pc, rec |-> r, key |-> k, token |-> t],
                    file, tmp, authKeys, failed)
      PROVE  SerialInv'
  BY <1>0, <1>2, <1>f, Begins DEF filesVars
<1>3. CASE Patch(w)
  <2>1. Serial([op |-> "patch", pc |-> "save", rec |-> file, key |-> NoKey, token |-> 0],
               file, tmp, authKeys, failed)
    BY <1>0, <1>3 DEF Patch, Read, Serial, Saving, Copy, Saves, Follows, Shifted
  <2>2. QED
    BY <1>0, <1>2, <1>3, <2>1 DEF Patch, Read, envVars, clockVars
<1>4. CASE GenerateInvite(w)
  <2> DEFINE n == [file EXCEPT !.state = "PENDING_KEY", !.token = issued + 1,
                               !.invite = issued + 1]
  <2>1. issued + 1 \in Invites
    BY <1>4, LapsedBounds, ConstantsAssumption DEF GenerateInvite, Invites
  <2>2. n \in Record /\ n.invite = issued + 1 /\ n.token = issued + 1
        /\ n.state = "PENDING_KEY" /\ n.ownerKey = file.ownerKey
    BY <1>0, <2>1, InvitedIsRecord DEF Record
  <2>3. file.state \in {"DRAFT", "EXPIRED"}
    BY <1>4 DEF GenerateInvite
  <2> HIDE DEF n
  <2>4. Follows(file, n)
    BY <1>0, <2>2, <2>3 DEF Follows, Renewed, Readable, States
  <2>5. Fits(n, authKeys, failed)
    BY <1>0, <2>2, <2>3 DEF Fits, Admits, Closed
  <2>6. Serial([op |-> "invite", pc |-> "save", rec |-> n, key |-> NoKey, token |-> 0],
               file, tmp, authKeys, failed)
    BY <2>3, <2>4, <2>5 DEF Serial, Saving, Copy, Saves, Readable, States
  <2>7. /\ Begin(w, "invite", "save", n, NoKey, 0) /\ created'
        /\ UNCHANGED <<file, tmp, fd, authKeys, userDir, failed>>
        /\ issued' = issued + 1
    BY <1>0, <1>4 DEF GenerateInvite, Read, filesVars, n
  <2>8. QED
    BY <1>0, <1>f, <2>2, <2>6, <2>7, Begins
<1>5. ASSUME NEW k \in Keys, ImportOwnerResponse(w, k)
      PROVE  SerialInv'
  <2>1. Serial([op |-> "import", pc |-> "authorize", rec |-> file, key |-> k,
                token |-> 0], file, tmp, authKeys, failed)
    BY <1>0, <1>5 DEF ImportOwnerResponse, Read, Serial, Authorizing, Closed, Saves,
       HasLapsed
  <2>2. QED
    BY <1>0, <1>2, <1>5, <2>1 DEF ImportOwnerResponse, Read, envVars, clockVars
<1>6. ASSUME NEW t \in 0..issued, NEW k \in Keys \cup {NoKey}, SubmitResponse(w, t, k)
      PROVE  SerialInv'
  <2>1. Cleared(file) \in Record
    BY <1>0, ClearedIsRecord
  <2>2. /\ Cleared(file).state = file.state /\ Cleared(file).ownerKey = file.ownerKey
        /\ Cleared(file).invite = file.invite /\ Cleared(file).token = 0
    BY <1>0 DEF Cleared, Record
  <2>3. Readable(file) /\ UNCHANGED filesVars /\ UNCHANGED <<failed, issued>>
    BY <1>6 DEF SubmitResponse, Read, envVars, clockVars
  <2>4. Follows(file, Cleared(file)) /\ Fits(Cleared(file), authKeys, failed)
    BY <1>0, <2>2, <2>3 DEF Follows, Burnt, Readable, Fits, Admits
  <2>5. CASE /\ k # NoKey /\ file.state = "PENDING_KEY"
             /\ Begin(w, "submit", "save", Cleared(file), k, t)
    <3>1. Serial([op |-> "submit", pc |-> "save", rec |-> Cleared(file), key |-> k,
                  token |-> t], file, tmp, authKeys, failed)
      BY <2>3, <2>4, <2>5 DEF Serial, Saving, Copy, Saves
    <3>2. QED
      BY <1>0, <1>2, <2>1, <2>2, <2>3, <2>5, <3>1
  <2>6. CASE Begin(w, "burn", "save", Cleared(file), NoKey, 0)
    <3>1. Serial([op |-> "burn", pc |-> "save", rec |-> Cleared(file), key |-> NoKey,
                  token |-> 0], file, tmp, authKeys, failed)
      BY <2>3, <2>4 DEF Serial, Saving, Copy, Saves
    <3>2. QED
      BY <1>0, <1>2, <2>1, <2>2, <2>3, <2>6, <3>1
  <2>7. QED
    BY <1>6, <2>5, <2>6 DEF SubmitResponse
<1>7. CASE Suspend(w)
  <2> DEFINE n == [file EXCEPT !.state = "SUSPENDED"]
  <2>1. n \in Record
    BY <1>0, NewStateIsRecord DEF States
  <2>2. n.invite = file.invite /\ n.state = "SUSPENDED" /\ Shifted(file, n)
    BY <1>0, <1>7 DEF Suspend, Shifted, Record
  <2>3. /\ Begin(w, "suspend", "deauthorize", n, NoKey, 0) /\ Readable(file)
        /\ UNCHANGED filesVars /\ UNCHANGED <<failed, issued>>
    BY <1>7 DEF Suspend, Read, envVars, clockVars
  <2> HIDE DEF n
  <2>4. Serial([op |-> "suspend", pc |-> "deauthorize", rec |-> n, key |-> NoKey,
                token |-> 0], file, tmp, authKeys, failed)
    BY <2>2, <2>3 DEF Serial, Saves
  <2>5. QED
    BY <1>0, <1>2, <2>1, <2>2, <2>3, <2>4
<1>8. CASE Resume(w)
  <2>1. Serial([op |-> "resume", pc |-> "measure", rec |-> file, key |-> NoKey,
                token |-> 0], file, tmp, authKeys, failed)
    BY <1>0, <1>8 DEF Resume, Read, Serial, Running, Saves
  <2>2. QED
    BY <1>0, <1>2, <1>8, <2>1 DEF Resume, Read, envVars, clockVars
<1>9. CASE Retire(w)
  <2> DEFINE n == [file EXCEPT !.state = "RETIRING"]
  <2>1. n \in Record
    BY <1>0, NewStateIsRecord DEF States
  <2>2. file.state \in Waiting \cup Running
    BY <1>0, <1>9 DEF Retire, Read, Readable, Record, States, Waiting, Running
  <2>3. n.invite = file.invite /\ n.state = "RETIRING" /\ Shifted(file, n)
    BY <1>0, <2>2 DEF Shifted, Record
  <2>4. /\ Begin(w, "retire", "deauthorize", n, NoKey, 0) /\ Readable(file)
        /\ UNCHANGED filesVars /\ UNCHANGED <<failed, issued>>
    BY <1>9 DEF Retire, Read, envVars, clockVars
  <2> HIDE DEF n
  <2>5. Serial([op |-> "retire", pc |-> "deauthorize", rec |-> n, key |-> NoKey,
                token |-> 0], file, tmp, authKeys, failed)
    BY <2>3, <2>4 DEF Serial, Saves, Saving, Copy
  <2>6. QED
    BY <1>0, <1>2, <2>1, <2>3, <2>4, <2>5
<1>10. CASE DeleteAllocation(w)
  <2>1. Serial([op |-> "delete", pc |-> "deauthorize", rec |-> Absent, key |-> NoKey,
                token |-> 0], file, tmp, authKeys, failed)
    BY <1>0, <1>10 DEF DeleteAllocation, Read, Serial, Saves
  <2>2. QED
    BY <1>0, <1>2, <1>10, <2>1, AbsentIsRecord, ReadableIsPresent DEF Absent,
       DeleteAllocation, Read, envVars, clockVars
<1>11. QED
  BY <1>1, <1>3, <1>4, <1>5, <1>6, <1>7, <1>8, <1>9, <1>10 DEF Request

LEMMA TickSerial ==
  ASSUME TypeOK, RecordsInv, SerialInv, MaxInFlight \in 0..1, Tick
  PROVE  SerialInv'
<1>1. PICK w \in Workers : Free(w)
  BY DEF Tick, PollTick, ExpiryTick, RetirementTick, Read, Workers, Background
<1>0. /\ Fits(file, authKeys, failed)
      /\ Readable(file) => created
      /\ file \in Record /\ Whole(file)
      /\ file.invite \in Nat /\ file.invite <= issued
      /\ issued \in Nat
      /\ Readable(file) /\ UNCHANGED filesVars /\ UNCHANGED <<failed, issued>>
  BY <1>1, AtRest DEF Tick, PollTick, ExpiryTick, RetirementTick, Read, envVars, clockVars
<1>2. ASSUME NEW v \in Workers, Free(v), NEW op, NEW pc, NEW r \in Record,
             Begin(v, op, pc, r, NoKey, 0), pc # "idle", r.invite <= issued,
             Serial([op |-> op, pc |-> pc, rec |-> r, key |-> NoKey, token |-> 0],
                    file, tmp, authKeys, failed)
      PROVE  SerialInv'
  BY <1>0, <1>2, Begins DEF filesVars
<1>3. CASE PollTick
  <2>1. Serial([op |-> "poll", pc |-> "measure", rec |-> file, key |-> NoKey,
                token |-> 0], file, tmp, authKeys, failed)
    BY <1>0, <1>3 DEF PollTick, Serial, Running, Saves
  <2>2. QED
    BY <1>0, <1>2, <1>3, <2>1 DEF PollTick, Read, Workers, Background
<1>4. CASE ExpiryTick
  <2> DEFINE n == [file EXCEPT !.state = "EXPIRED"]
  <2>1. n \in Record
    BY <1>0, NewStateIsRecord DEF States
  <2>2. file.state = "PENDING_KEY"
    BY <1>4 DEF ExpiryTick
  <2>3. n.invite = file.invite /\ n.state = "EXPIRED" /\ Shifted(file, n)
    BY <1>0, <2>2 DEF Shifted, Record
  <2>4. Free("expirer") /\ Begin("expirer", "expire", "save", n, NoKey, 0)
    BY <1>4 DEF ExpiryTick, Read
  <2> HIDE DEF n
  <2>5. Fits(n, authKeys, failed) /\ Follows(file, n)
    BY <1>0, <2>2, <2>3 DEF Fits, Admits, Closed, Follows, Readable, States
  <2>6. Serial([op |-> "expire", pc |-> "save", rec |-> n, key |-> NoKey,
                token |-> 0], file, tmp, authKeys, failed)
    BY <1>0, <2>5 DEF Serial, Saves, Saving, Copy
  <2>7. QED
    BY <1>0, <1>2, <2>1, <2>3, <2>4, <2>6 DEF Workers, Background
<1>5. CASE RetirementTick
  <2> DEFINE n == [file EXCEPT !.state = "RETIRED"]
  <2>1. n \in Record
    BY <1>0, NewStateIsRecord DEF States
  <2>2. file.state = "RETIRING"
    BY <1>5 DEF RetirementTick
  <2>3. n.invite = file.invite /\ n.state = "RETIRED" /\ Shifted(file, n)
    BY <1>0, <2>2 DEF Shifted, Record
  <2>4. Free("retirer") /\ Begin("retirer", "finalize", "save", n, NoKey, 0)
    BY <1>5 DEF RetirementTick, Read
  <2> HIDE DEF n
  <2>5. Fits(n, authKeys, failed) /\ Follows(file, n)
    BY <1>0, <2>2, <2>3 DEF Fits, Admits, Closed, Follows, Readable, States
  <2>6. Serial([op |-> "finalize", pc |-> "save", rec |-> n, key |-> NoKey,
                token |-> 0], file, tmp, authKeys, failed)
    BY <1>0, <2>5 DEF Serial, Saves, Saving, Copy
  <2>7. QED
    BY <1>0, <1>2, <2>1, <2>3, <2>4, <2>6 DEF Workers, Background
<1>6. QED
  BY <1>3, <1>4, <1>5 DEF Tick

-----------------------------------------------------------------------------
(***************************************************************************)
(* The steps of the job at work.                                           *)
(***************************************************************************)
LEMMA AtWork ==
  ASSUME TypeOK, RecordsInv, SerialInv, NEW w \in Workers, ~Idle(w)
  PROVE  /\ job \in [Workers -> Job]
         /\ \A v \in Workers \ {w} : Idle(v)
         /\ Serial(job[w], file, tmp, authKeys, failed)
         /\ created
         /\ job[w].rec \in Record /\ Whole(job[w].rec) /\ job[w].rec.invite <= issued
         /\ file \in Record /\ Whole(file)
         /\ Still(failed) /\ Present(file) => userDir \/ job[w].pc = "provision"
<1>1. w \in Busy /\ \A v \in Busy : v = w
  BY DEF SerialInv, Busy
<1>2. job \in [Workers -> Job] /\ file \in Record
  BY DEF TypeOK
<1>3. job[w].rec \in Record
  BY <1>2 DEF Job
<1>4. Whole(file) /\ Whole(job[w].rec)
  BY DEF RecordsInv, Sensible, Sound
<1>5. QED
  BY <1>1, <1>2, <1>3, <1>4 DEF SerialInv, Quiet, Busy

\* What is open, where the job at work is concerned.
LEMMA OpenAtWork ==
  ASSUME TypeOK, RecordsInv, SerialInv, NEW w \in Workers, ~Idle(w)
  PROVE  /\ fd \in [Workers -> Targets]
         /\ fd[w] = IF job[w].pc = "write" THEN "tmp" ELSE "none"
         /\ \A v \in Workers \ {w} : fd[v] = "none"
<1>1. fd \in [Workers -> Targets] /\ \A v \in Workers : fd[v] \in {"none", "tmp"}
  BY DEF TypeOK, SerialInv, TmpApart
<1>2. \A v \in Workers \ {w} : job[v].pc = "idle"
  BY AtWork DEF Idle
<1>3. QED
  BY <1>1, <1>2 DEF TypeOK, JobsOK

\* The job goes on with j or ends; the record stays as it is.
LEMMA GoesOnSameFile ==
  ASSUME TypeOK, RecordsInv, SerialInv, NEW w \in Workers, ~Idle(w),
         NEW j, job' = [job EXCEPT ![w] = j],
         UNCHANGED <<file, created, issued>>, TmpApart',
         failed' = failed \/ \E k \in Kinds : Fault(k),
         j.rec.invite <= issued,
         userDir' \/ (userDir' = userDir /\ (job[w].pc # "provision" \/ ~Still(failed'))),
         file.state \in Closed /\ Removes(failed') => authKeys' = NoKey,
         j.pc = "idle" => Fits(file, authKeys', failed'),
         j.pc # "idle" => Serial(j, file, tmp', authKeys', failed')
  PROVE  SerialInv'
<1>1. /\ job \in [Workers -> Job]
      /\ \A v \in Workers \ {w} : Idle(v)
      /\ created
      /\ Still(failed) /\ Present(file) => userDir \/ job[w].pc = "provision"
  BY AtWork
<1>2. /\ file = Absent \/ Readable(file)
      /\ file.invite <= issued
      /\ \A v \in Workers : job[v].rec.invite <= issued
  BY DEF SerialInv
<1>f. /\ Still(failed') => Still(failed)
      /\ ~Removes(failed') => failed'["removal"] > 0
  <2>1. failed' \in [Kinds -> Nat]
    <3>1. CASE failed' = failed
      BY <3>1 DEF TypeOK
    <3>2. CASE \E k \in Kinds : Fault(k)
      BY <3>2, FaultType
    <3>3. QED
      BY <3>1, <3>2
  <2>2. failed'["removal"] \in Nat
    BY <2>1 DEF Kinds
  <2>3. QED
    BY <2>2, Disturbs DEF Still, Removes
<1>3. ClosedHasNoAccess'
  BY <1>f DEF ClosedHasNoAccess, Closed
<1>4. /\ (file = Absent \/ Readable(file))'
      /\ Still(failed') /\ Present(file)' => userDir' \/ j.pc = "provision"
  BY <1>1, <1>2, <1>f DEF Present, Readable
<1>5. /\ j.pc = "idle" => Fits(file', authKeys', failed')
      /\ j.pc # "idle" => Serial(j, file', tmp', authKeys', failed')
  OBVIOUS
<1>6. QED
  BY <1>1, <1>2, <1>3, <1>4, <1>5, GoesOn

\* A step that leaves the temporary file alone leaves it apart.
LEMMA TmpStaysApart ==
  ASSUME SerialInv, UNCHANGED <<tmp, fd, issued>>
  PROVE  TmpApart'
BY DEF SerialInv, TmpApart

\* Even after a fault a closed record admits nobody, but for a removal that failed.
LEMMA ClosedStill ==
  ASSUME TypeOK, SerialInv
  PROVE  /\ file.state \in Closed /\ Removes(failed) => authKeys = NoKey
         /\ ~Still(failed) => Fits(file, authKeys, failed)
<1>1. "removal" \in Kinds /\ failed \in [Kinds -> Nat]
  BY DEF Kinds, TypeOK
<1>2. QED
  BY <1>1 DEF SerialInv, ClosedHasNoAccess, Closed, Removes, Fits

LEMMA BeginsAgain ==
  ASSUME NEW w \in Workers, NEW op, NEW pc, NEW r, NEW k, NEW t,
         Begin(w, op, pc, r, k, t)
  PROVE  job' = [job EXCEPT ![w] = [op |-> op, pc |-> pc, rec |-> r, key |-> k,
                                    token |-> t]]
BY DEF Begin

LEMMA GoesTo ==
  ASSUME job \in [Workers -> Job], NEW w \in Workers, NEW pc, GoTo(w, pc)
  PROVE  /\ job' = [job EXCEPT ![w] = [job[w] EXCEPT !.pc = pc]]
         /\ [job[w] EXCEPT !.pc = pc].pc = pc
         /\ [job[w] EXCEPT !.pc = pc].op = job[w].op
         /\ [job[w] EXCEPT !.pc = pc].rec = job[w].rec
         /\ [job[w] EXCEPT !.pc = pc].key = job[w].key
         /\ [job[w] EXCEPT !.pc = pc].token = job[w].token
BY DEF GoTo, Job

\* The job ends.
LEMMA Returns ==
  ASSUME TypeOK, RecordsInv, SerialInv, NEW w \in Workers, ~Idle(w), Return(w),
         UNCHANGED <<file, created, issued>>, TmpApart',
         failed' = failed \/ \E k \in Kinds : Fault(k),
         userDir' \/ (userDir' = userDir /\ (job[w].pc # "provision" \/ ~Still(failed'))),
         Fits(file, authKeys', failed')
  PROVE  SerialInv'
<1>1. job' = [job EXCEPT ![w] = IdleJob]
  BY DEF Return
<1>2. IdleJob.pc = "idle" /\ IdleJob.rec.invite = 0
  BY DEF IdleJob, Absent, Blank
<1>3. 0 <= issued
  BY ConstantsAssumption DEF TypeOK, Invites
<1>4. QED
  BY <1>1, <1>2, <1>3, GoesOnSameFile DEF Fits

\* A fault ends the job, and changes the key at most where the record is not closed.
LEMMA FaultReturns ==
  ASSUME TypeOK, RecordsInv, SerialInv, NEW w \in Workers, ~Idle(w), Return(w),
         UNCHANGED <<file, created, issued>>, TmpApart', userDir' \in {userDir, TRUE},
         NEW k \in Kinds, Fault(k),
         authKeys' \in {authKeys, NoKey} \/ file.state \notin Closed
  PROVE  SerialInv'
<1>1. ~Still(failed') /\ (Removes(failed') => Removes(failed))
  BY Disturbs
<1>2. file.state \in Closed /\ Removes(failed) => authKeys = NoKey
  BY ClosedStill
<1>3. Fits(file, authKeys', failed')
  BY <1>1, <1>2 DEF Fits
<1>4. userDir \in BOOLEAN
  BY DEF TypeOK
<1>5. QED
  BY <1>1, <1>3, <1>4, Returns

LEMMA MeasureSerial ==
  ASSUME TypeOK, RecordsInv, SerialInv, NEW w \in Workers, Measure(w)
  PROVE  SerialInv'
<1> DEFINE r == Polled(file, usage)
           n == PollAccess(file, usage)
           k == IF n = "authorize" THEN file.ownerKey ELSE NoKey
           j == [op |-> job[w].op, pc |-> n, rec |-> r, key |-> k, token |-> 0]
<1>1. job[w].pc = "measure" /\ ~Idle(w)
  BY DEF Measure, Idle
<1>2. /\ Serial(job[w], file, tmp, authKeys, failed)
      /\ file \in Record /\ Whole(file)
      /\ job[w].rec.invite <= issued
  BY <1>1, AtWork
<1>3. /\ job[w].rec = file /\ job[w].op \in {"poll", "resume"}
      /\ file.state \in Running /\ Fits(file, authKeys, failed)
  BY <1>1, <1>2 DEF Serial
<1>4. /\ Begin(w, job[w].op, n, r, k, 0)
      /\ UNCHANGED <<file, tmp, fd, created, issued, failed, userDir, authKeys>>
  BY <1>3 DEF Measure, filesVars, envVars, clockVars
<1>5. Shifted(file, r) /\ r.state \in Running /\ r.invite = file.invite
  BY <1>2, <1>3 DEF Polled, Shifted, Running, Record
<1>6. Readable(file) /\ Readable(r)
  BY <1>3, <1>5 DEF Readable, Running, States
<1>7. /\ n \in {"deauthorize", "authorize", "save"}
      /\ n = "deauthorize" => r.state = "SUSPENDED"
      /\ n = "authorize" => r.state = "READY"
      /\ n = "save" => r.state = file.state
  BY <1>2, <1>3 DEF Polled, PollAccess, Running, Record
<1> HIDE DEF r, n
<1>8. n = "save" => Fits(r, authKeys, failed)
  BY <1>3, <1>5, <1>7 DEF Fits, Admits, Shifted
<1>9. n = "authorize" => Authorizing(j, file, failed)
  BY <1>3, <1>5, <1>7 DEF Authorizing, Closed, Running, Shifted
<1>10. Serial(j, file, tmp, authKeys, failed)
  <2>1. Follows(file, r)
    BY <1>5, <1>6 DEF Follows
  <2>2. j.op = job[w].op /\ j.pc = n /\ j.rec = r /\ j.op \in {"poll", "resume"}
    BY <1>3
  <2> HIDE DEF j
  <2>3. n = "save" => Saving(j, file, Copy(j, tmp), authKeys, failed)
    BY <1>5, <1>8, <2>1, <2>2 DEF Saving, Copy
  <2>4. QED
    BY <1>3, <1>5, <1>6, <1>7, <1>9, <2>2, <2>3 DEF Serial, Saves
<1>11. job' = [job EXCEPT ![w] = j] /\ j.rec.invite <= issued /\ j.pc # "idle"
  BY <1>2, <1>3, <1>4, <1>5, <1>7, BeginsAgain
<1>12. file.state \notin Closed /\ TmpApart'
  BY <1>3, <1>4, TmpStaysApart DEF Running, Closed
<1> HIDE DEF j
<1>13. QED
  BY <1>1, <1>4, <1>10, <1>11, <1>12, GoesOnSameFile

LEMMA AuthorizeKeySerial ==
  ASSUME TypeOK, RecordsInv, SerialInv, NEW w \in Workers, AuthorizeKey(w)
  PROVE  SerialInv'
<1> DEFINE k == job[w].key
<1>1. job[w].pc = "authorize" /\ ~Idle(w)
  BY DEF AuthorizeKey, Idle
<1>2. /\ Serial(job[w], file, tmp, authKeys, failed)
      /\ file \in Record /\ job[w].rec \in Record
      /\ job[w].rec.invite <= issued
  BY <1>1, AtWork
<1>3. Authorizing(job[w], file, failed) /\ Readable(file)
  BY <1>1, <1>2 DEF Serial, Authorizing
<1>4. /\ k # NoKey /\ authKeys' = k /\ k \in Keys
      /\ UNCHANGED <<file, tmp, fd, created, issued, failed, userDir>>
  BY DEF AuthorizeKey, envVars, clockVars, TypeOK, Job
<1>5. file.state \notin Closed /\ TmpApart'
  BY <1>3, <1>4, TmpStaysApart DEF Authorizing
<1>6. ASSUME NEW r \in Record, Begin(w, job[w].op, "save", r, NoKey, 0),
             Follows(file, r), r.state = "READY", r.ownerKey = k,
             r.invite <= issued
      PROVE  SerialInv'
  <2> DEFINE j == [op |-> job[w].op, pc |-> "save", rec |-> r, key |-> NoKey,
                   token |-> 0]
  <2>1. Fits(r, authKeys', failed)
    BY <1>4, <1>6 DEF Fits, Admits, Closed
  <2>2. j.op \in {"poll", "resume", "import", "submit", "readmit"}
    BY <1>3 DEF Authorizing
  <2>3. j.op = job[w].op /\ j.pc = "save" /\ j.rec = r
    OBVIOUS
  <2> HIDE DEF j
  <2>4. Serial(j, file, tmp', authKeys', failed)
    <3>1. Saving(j, file, Copy(j, tmp'), authKeys', failed)
      BY <1>6, <2>1, <2>2, <2>3 DEF Saving, Copy, Running
    <3>2. QED
      BY <1>3, <2>2, <2>3, <3>1 DEF Serial
  <2>5. job' = [job EXCEPT ![w] = j]
    BY <1>6, BeginsAgain DEF j
  <2>6. QED
    BY <1>1, <1>4, <1>5, <1>6, <2>3, <2>4, <2>5, GoesOnSameFile
<1>7. CASE /\ job[w].op \in {"poll", "resume"}
           /\ Begin(w, job[w].op, "save", job[w].rec, NoKey, 0)
  <2>1. /\ job[w].rec.state = "READY" /\ Shifted(file, job[w].rec)
        /\ k = job[w].rec.ownerKey
    BY <1>3, <1>7 DEF Authorizing
  <2>2. Follows(file, job[w].rec)
    BY <1>3, <2>1 DEF Follows, Readable, States
  <2>3. QED
    BY <1>2, <1>6, <1>7, <2>1, <2>2
<1>8. CASE /\ job[w].op \in {"import", "submit", "readmit"}
           /\ CanTransition(job[w].rec, "READY")
           /\ Begin(w, job[w].op, "save", Admitted(job[w].rec, k), NoKey, 0)
  <2> DEFINE r == Admitted(job[w].rec, k)
  <2>1. /\ r \in Record /\ r.state = "READY" /\ r.ownerKey = k
        /\ r.token = job[w].rec.token /\ r.invite = job[w].rec.invite
        /\ Readable(r)
    BY <1>2, <1>4, AdmittedIsRecord DEF Admitted, Record, Readable, States
  <2>2. job[w].rec.state \in {"PENDING_KEY", "SUSPENDED"}
    BY <1>8 DEF CanTransition, validTransitions, States
  <2> HIDE DEF r
  <2>4. CASE job[w].op = "readmit"
    <3>1. job[w].rec = file /\ k = file.ownerKey /\ file.state \in Running
      BY <1>3, <2>4 DEF Authorizing
    <3>2. Shifted(file, r)
      BY <2>1, <2>2, <3>1 DEF Shifted, Running
    <3>3. QED
      BY <1>2, <1>3, <1>6, <1>8, <2>1, <3>1, <3>2 DEF Follows, r
  <2>5. CASE job[w].op \in {"import", "submit"}
    <3>1. file.state = "PENDING_KEY" /\ job[w].rec \in {file, Cleared(file)}
      BY <1>3, <2>5 DEF Authorizing
    <3>2. job[w].rec.invite = file.invite /\ job[w].rec.token \in {file.token, 0}
      BY <1>2, <3>1 DEF Cleared, Record
    <3>3. Accepted(file, r)
      BY <1>4, <2>1, <3>1, <3>2 DEF Accepted
    <3>4. QED
      BY <1>2, <1>3, <1>6, <1>8, <2>1, <3>2, <3>3 DEF Follows, r
  <2>6. QED
    BY <1>8, <2>4, <2>5
<1>9. CASE job[w].op = "readmit" /\ ~CanTransition(job[w].rec, "READY") /\ Return(w)
  <2>1. job[w].rec = file /\ k = file.ownerKey /\ file.state \in Running
    BY <1>3, <1>9 DEF Authorizing
  <2>2. file.state = "READY"
    BY <1>9, <2>1 DEF CanTransition, validTransitions, States, Running
  <2>3. Fits(file, authKeys', failed)
    BY <1>4, <2>1, <2>2 DEF Fits, Admits, Closed
  <2>4. QED
    BY <1>1, <1>4, <1>5, <1>9, <2>3, Returns
<1>10. QED
  BY <1>7, <1>8, <1>9 DEF AuthorizeKey

\* AuthorizeKey has failed after a fault: PollOne saves its copy all the same.
LEMMA NotAuthorizedSerial ==
  ASSUME TypeOK, RecordsInv, SerialInv, NEW w \in Workers,
         job[w].pc = "authorize", NotAuthorized(w),
         UNCHANGED <<file, tmp, fd, userDir, created, issued>>,
         failed' = failed \/ \E k \in Kinds : Fault(k), ~Still(failed')
  PROVE  SerialInv'
<1>1. ~Idle(w)
  BY DEF Idle
<1>2. /\ Serial(job[w], file, tmp, authKeys, failed)
      /\ job \in [Workers -> Job]
      /\ job[w].rec.invite <= issued
  BY <1>1, AtWork
<1>3. Authorizing(job[w], file, failed) /\ Readable(file)
  BY <1>2 DEF Serial, Authorizing
<1>4. file.state \notin Closed /\ TmpApart'
  BY <1>3, TmpStaysApart DEF Authorizing
<1>5. CASE job[w].op \in {"poll", "resume"} /\ GoTo(w, "save")
  <2> DEFINE j == [job[w] EXCEPT !.pc = "save"]
  <2>1. /\ job' = [job EXCEPT ![w] = j] /\ j.pc = "save" /\ j.op = job[w].op
        /\ j.rec = job[w].rec
    BY <1>2, <1>5, GoesTo
  <2> HIDE DEF j
  <2>2. j.rec.state = "READY" /\ Shifted(file, j.rec)
    BY <1>3, <1>5, <2>1 DEF Authorizing
  <2>3. Fits(j.rec, authKeys', failed') /\ Follows(file, j.rec)
    BY <1>3, <2>2 DEF Fits, Closed, Follows, Readable, States
  <2>4. Saving(j, file, Copy(j, tmp'), authKeys', failed')
    BY <1>5, <2>1, <2>2, <2>3 DEF Saving, Copy, Running
  <2>5. Serial(j, file, tmp', authKeys', failed')
    BY <1>3, <1>5, <2>1, <2>4 DEF Serial
  <2>6. QED
    BY <1>1, <1>2, <1>4, <2>1, <2>5, GoesOnSameFile
<1>6. CASE Return(w)
  <2>1. Fits(file, authKeys', failed')
    BY <1>4 DEF Fits
  <2>2. QED
    BY <1>1, <1>4, <1>6, <2>1, Returns
<1>7. QED
  BY <1>5, <1>6 DEF NotAuthorized

LEMMA AuthorizeFailsSerial ==
  ASSUME TypeOK, RecordsInv, SerialInv, NEW w \in Workers, AuthorizeFails(w)
  PROVE  SerialInv'
<1>1. job[w].pc = "authorize" /\ ~Idle(w)
  BY DEF AuthorizeFails, Idle
<1>2. /\ Serial(job[w], file, tmp, authKeys, failed)
      /\ Whole(file) /\ Whole(job[w].rec)
      /\ Still(failed) /\ Present(file) => userDir
  BY <1>1, AtWork
<1>3. Authorizing(job[w], file, failed) /\ Readable(file)
  BY <1>1, <1>2 DEF Serial, Authorizing
<1>4. UNCHANGED <<file, tmp, fd, created, issued, failed, userDir>>
  BY DEF AuthorizeFails, filesVars, envVars, clockVars
\* Only after a fault is there a record without the user's directory.
<1>5. ~Still(failed)
  <2>1. job[w].key # NoKey
    BY <1>2, <1>3, ConstantsAssumption DEF Authorizing, Whole, Running
  <2>2. ~userDir
    BY <2>1 DEF AuthorizeFails
  <2>3. QED
    BY <1>2, <1>3, <2>2, ReadableIsPresent
<1>6. QED
  BY <1>1, <1>4, <1>5, NotAuthorizedSerial DEF AuthorizeFails

LEMMA DeauthorizedSerial ==
  ASSUME TypeOK, RecordsInv, SerialInv, NEW w \in Workers,
         job[w].pc = "deauthorize", Deauthorized(w),
         UNCHANGED <<file, tmp, fd, userDir, created, issued>>,
         \/ failed' = failed /\ authKeys' = NoKey
         \/ Fault("removal")
  PROVE  SerialInv'
<1> DEFINE pc == IF job[w].op = "delete" THEN "remove" ELSE "save"
           j  == [job[w] EXCEPT !.pc = pc]
<1>1. ~Idle(w)
  BY DEF Idle
<1>2. /\ Serial(job[w], file, tmp, authKeys, failed)
      /\ job \in [Workers -> Job]
      /\ job[w].rec.invite <= issued
  BY <1>1, AtWork
<1>3. /\ GoTo(w, pc) /\ TmpApart'
      /\ failed' = failed \/ \E k \in Kinds : Fault(k)
  BY TmpStaysApart DEF Deauthorized, Kinds
<1>4. /\ job' = [job EXCEPT ![w] = j] /\ j.pc = pc /\ j.op = job[w].op
      /\ j.rec = job[w].rec /\ j.key = job[w].key
  BY <1>2, <1>3, GoesTo
<1> HIDE DEF j
<1>5. Still(failed') \/ Removes(failed') => authKeys' = NoKey
  BY Disturbs DEF Kinds
<1>6. Serial(j, file, tmp', authKeys', failed')
  <2>1. CASE job[w].op = "delete"
    BY <1>2, <1>4, <1>5, <2>1 DEF Serial, Saves
  <2>2. CASE job[w].op # "delete"
    <3>1. /\ j.op \notin {"create", "submit"} /\ Readable(file)
          /\ j.rec.state \in {"SUSPENDED", "RETIRING"}
          /\ Shifted(file, j.rec)
          /\ j.op = "resume" => j.rec.state \in Running
      BY <1>2, <1>4, <2>2 DEF Serial
    <3>2. Follows(file, j.rec) /\ Fits(j.rec, authKeys', failed')
      BY <1>5, <3>1 DEF Follows, Readable, States, Fits, Admits
    <3>3. j.pc = "save"
      BY <1>4, <2>2
    <3>4. Saving(j, file, Copy(j, tmp'), authKeys', failed')
      BY <3>1, <3>2, <3>3 DEF Saving, Copy
    <3>5. QED
      BY <3>1, <3>3, <3>4 DEF Serial
  <2>3. QED
    BY <2>1, <2>2
<1>7. QED
  BY <1>1, <1>2, <1>3, <1>4, <1>5, <1>6, GoesOnSameFile

LEMMA AccessSerial ==
  ASSUME TypeOK, RecordsInv, SerialInv, NEW w \in Workers, Access(w)
  PROVE  SerialInv'
<1>1. CASE AuthorizeStops(w)
  <2>1. ~Still(failed') /\ UNCHANGED issued
    BY <1>1, Disturbs DEF AuthorizeStops, Kinds
  <2>2. QED
    BY <1>1, <2>1, NotAuthorizedSerial DEF AuthorizeStops, Kinds
<1>2. CASE DeauthorizeKey(w)
  BY <1>2, DeauthorizedSerial DEF DeauthorizeKey, envVars, clockVars
<1>3. CASE DeauthorizeFails(w)
  <2>1. UNCHANGED issued /\ ~Idle(w) /\ "removal" \in Kinds /\ Fault("removal")
    BY <1>3, Disturbs DEF DeauthorizeFails, Kinds, Idle
  <2>2. CASE Return(w)
    BY <1>3, <2>1, <2>2, FaultReturns, TmpStaysApart DEF DeauthorizeFails
  <2>3. CASE Deauthorized(w)
    BY <1>3, <2>1, <2>3, DeauthorizedSerial DEF DeauthorizeFails
  <2>4. QED
    BY <1>3, <2>2, <2>3 DEF DeauthorizeFails
<1>4. CASE ProvisionUser(w)
  <2>1. job[w].pc = "provision" /\ ~Idle(w)
    BY <1>4 DEF ProvisionUser, Idle
  <2>2. Fits(file, authKeys, failed)
    BY <2>1, AtWork DEF Serial
  <2>3. QED
    BY <1>4, <2>1, <2>2, Returns, TmpStaysApart DEF ProvisionUser, envVars, clockVars
<1>5. CASE ProvisionFails(w)
  <2>1. UNCHANGED issued /\ ~Idle(w) /\ "access" \in Kinds
    BY <1>5, Disturbs DEF ProvisionFails, Kinds, Idle
  <2>2. QED
    BY <1>5, <2>1, FaultReturns, TmpStaysApart DEF ProvisionFails
<1>6. QED
  BY <1>1, <1>2, <1>3, <1>4, <1>5, AuthorizeKeySerial, AuthorizeFailsSerial DEF Access
-----------------------------------------------------------------------------
(***************************************************************************)
(* A save.                                                                 *)
(***************************************************************************)
LEMMA OpenTmpSerial ==
  ASSUME TypeOK, RecordsInv, SerialInv, NEW w \in Workers, OpenTmp(w)
  PROVE  SerialInv'
<1> DEFINE j == [job[w] EXCEPT !.pc = "write"]
<1>1. job[w].pc = "save" /\ ~Idle(w)
  BY DEF OpenTmp, Idle
<1>2. /\ Serial(job[w], file, tmp, authKeys, failed)
      /\ job \in [Workers -> Job]
      /\ job[w].rec.invite <= issued
  BY <1>1, AtWork
<1>3. /\ UNCHANGED <<file, authKeys, created, issued, failed, userDir>>
      /\ tmp' = Empty /\ fd' = [fd EXCEPT ![w] = "tmp"] /\ GoTo(w, "write")
  BY DEF OpenTmp, envVars, clockVars
<1>4. /\ job' = [job EXCEPT ![w] = j] /\ j.pc = "write" /\ j.op = job[w].op
      /\ j.rec = job[w].rec /\ j.key = job[w].key
  BY <1>2, <1>3, GoesTo
<1> HIDE DEF j
<1>5. Serial(j, file, tmp', authKeys', failed')
  <2>1. Saving(job[w], file, j.rec, authKeys, failed)
    BY <1>1, <1>2, <1>4 DEF Serial, Copy, Saves
  <2>2. Saving(j, file, Copy(j, tmp'), authKeys', failed')
    BY <1>3, <1>4, <2>1 DEF Saving, Copy
  <2>3. QED
    BY <1>2, <1>3, <1>4, <2>2 DEF Serial
<1>6. file.state \in Closed /\ Removes(failed') => authKeys' = NoKey
  BY <1>3, ClosedStill
<1>7. TmpApart'
  <2>1. Empty.invite = 0 /\ 0 <= issued
    BY ConstantsAssumption DEF Empty, Blank, TypeOK, Invites
  <2>2. \A v \in Workers : fd'[v] \in {"none", "tmp"}
    BY <1>3 DEF SerialInv, TmpApart, TypeOK
  <2>3. QED
    BY <1>3, <2>1, <2>2 DEF TmpApart
<1>8. QED
  BY <1>1, <1>2, <1>3, <1>4, <1>5, <1>6, <1>7, GoesOnSameFile

\* The file was empty when the job comes to write it: nothing is left over.
LEMMA WriteTmpSerial ==
  ASSUME TypeOK, RecordsInv, SerialInv, NEW w \in Workers, WriteTmp(w)
  PROVE  SerialInv'
<1> DEFINE r == IF Clearing(w) THEN job[w].rec ELSE Absent
           j == [op |-> job[w].op, pc |-> "rename", rec |-> r, key |-> job[w].key,
                 token |-> job[w].token]
<1>1. job[w].pc = "write" /\ ~Idle(w)
  BY DEF WriteTmp, Idle
<1>2. /\ Serial(job[w], file, tmp, authKeys, failed)
      /\ job \in [Workers -> Job]
      /\ job[w].rec.invite <= issued
      /\ fd[w] = "tmp" /\ tmp = Empty
  BY <1>1, AtWork, OpenAtWork DEF Serial
<1>3. /\ UNCHANGED <<authKeys, created, issued, failed, userDir>>
      /\ Begin(w, job[w].op, "rename", r, job[w].key, job[w].token)
      /\ file' = file /\ tmp' = job[w].rec /\ fd' = [fd EXCEPT ![w] = "none"]
  BY <1>2 DEF WriteTmp, Overlaid, Opened, Fill, envVars, clockVars
<1>4. job' = [job EXCEPT ![w] = j]
  BY <1>3, BeginsAgain
<1>5. /\ j.pc = "rename" /\ j.op = job[w].op /\ j.rec = r /\ j.key = job[w].key
      /\ r = Absent \/ r = job[w].rec
      /\ Absent.state = "ABSENT" /\ Absent.invite = 0
  BY DEF Absent, Blank
<1>6. r.invite <= issued
  BY <1>2, <1>5, ConstantsAssumption DEF TypeOK, Invites
<1> HIDE DEF r, j
<1>7. Serial(j, file, tmp', authKeys', failed')
  <2>1. Saving(job[w], file, job[w].rec, authKeys, failed)
    BY <1>1, <1>2 DEF Serial, Copy, Saves
  <2>2. Saving(j, file, Copy(j, tmp'), authKeys', failed')
    BY <1>3, <1>5, <2>1 DEF Saving, Copy
  <2>3. QED
    BY <1>2, <1>5, <2>2 DEF Serial
<1>8. file.state \in Closed /\ Removes(failed') => authKeys' = NoKey
  BY <1>3, ClosedStill
<1>9. TmpApart'
  <2>1. \A v \in Workers : fd'[v] \in {"none", "tmp"}
    BY <1>3 DEF SerialInv, TmpApart, TypeOK
  <2>2. QED
    BY <1>2, <1>3, <2>1 DEF TmpApart
<1>10. QED
  BY <1>1, <1>3, <1>4, <1>5, <1>6, <1>7, <1>8, <1>9, GoesOnSameFile

\* What the job has written is what it renames: os.Rename does not fail for another.
LEMMA TmpIsOurs ==
  ASSUME TypeOK, RecordsInv, SerialInv, NEW w \in Workers, job[w].pc = "rename"
  PROVE  /\ Readable(tmp) /\ Present(tmp) /\ Saving(job[w], file, tmp, authKeys, failed)
<1>1. Serial(job[w], file, tmp, authKeys, failed)
  BY AtWork DEF Idle
<1>2. Saving(job[w], file, tmp, authKeys, failed)
  BY <1>1 DEF Serial, Saves, Copy
<1>3. Readable(tmp)
  BY <1>2 DEF Saving, Born, Follows, Readable, Absent, Blank, States
<1>4. QED
  BY <1>2, <1>3, ReadableIsPresent

LEMMA RenameTmpSerial ==
  ASSUME TypeOK, RecordsInv, SerialInv, NEW w \in Workers, RenameTmp(w)
  PROVE  SerialInv'
<1>1. job[w].pc = "rename" /\ ~Idle(w)
  BY DEF RenameTmp, Idle
<1>2. /\ job \in [Workers -> Job]
      /\ \A v \in Workers \ {w} : Idle(v)
      /\ Serial(job[w], file, tmp, authKeys, failed)
      /\ created
      /\ job[w].rec.invite <= issued
      /\ Still(failed) /\ Present(file) => userDir
      /\ \A v \in Workers : fd[v] = "none"
  BY <1>1, AtWork, OpenAtWork
<1>3. /\ Readable(tmp) /\ Saving(job[w], file, tmp, authKeys, failed)
      /\ Fits(tmp, authKeys, failed)
  BY <1>1, TmpIsOurs DEF Saving
<1>4. /\ file' = tmp /\ tmp' = Absent
      /\ \A v \in Workers : fd'[v] = "none"
      /\ UNCHANGED <<created, issued, failed, userDir, authKeys>>
  BY <1>2 DEF RenameTmp, Renamed, envVars, clockVars
<1>5. /\ ClosedHasNoAccess'
      /\ (file = Absent \/ Readable(file))'
      /\ file'.invite <= issued' /\ TmpApart'
      /\ \A v \in Workers \ {w} : job[v].rec.invite <= issued'
  <2>1. failed["removal"] \in Nat
    BY DEF TypeOK, Kinds
  <2>2. ClosedHasNoAccess'
    BY <1>3, <1>4, <2>1 DEF Fits, Removes, Closed, ClosedHasNoAccess
  <2>3. Readable(file)'
    BY <1>3, <1>4 DEF Readable
  <2>4. Absent.invite = 0 /\ 0 <= issued
    BY ConstantsAssumption DEF Absent, Blank, TypeOK, Invites
  <2>5. TmpApart'
    BY <1>4, <2>4 DEF TmpApart
  <2>6. QED
    BY <1>4, <2>2, <2>3, <2>5 DEF SerialInv, TmpApart
<1>6. ASSUME NEW pc, GoTo(w, pc),
             pc = "provision" <=> job[w].op = "create",
             pc # "idle",
             Serial([job[w] EXCEPT !.pc = pc], tmp, Absent, authKeys, failed)
      PROVE  SerialInv'
  <2> DEFINE j == [job[w] EXCEPT !.pc = pc]
  <2>1. /\ job' = [job EXCEPT ![w] = j] /\ j.pc = pc /\ j.op = job[w].op
        /\ j.rec = job[w].rec
    BY <1>2, <1>6, GoesTo
  <2>2. Serial(j, file', tmp', authKeys', failed')
    BY <1>4, <1>6
  <2> HIDE DEF j
  <2>3. Still(failed') /\ Present(file)' => userDir' \/ j.pc = "provision"
    <3>1. job[w].op # "create" => Present(file)
      BY <1>2, ReadableIsPresent DEF Serial
    <3>2. QED
      BY <1>2, <1>4, <1>6, <2>1, <3>1
  <2>4. j.rec.invite <= issued' /\ created'
    BY <1>2, <1>4, <2>1
  <2>5. QED
    BY <1>2, <1>5, <1>6, <2>1, <2>2, <2>3, <2>4, GoesOn
<1>7. CASE job[w].op = "create" /\ GoTo(w, "provision")
  <2>1. Serial([job[w] EXCEPT !.pc = "provision"], tmp, Absent, authKeys, failed)
    BY <1>2, <1>3, <1>7, GoesTo DEF Serial, Saves
  <2>2. QED
    BY <1>6, <1>7, <2>1
<1>8. CASE job[w].op = "resume" /\ GoTo(w, "reread")
  <2>1. tmp.state \in Running
    BY <1>3, <1>8 DEF Saving
  <2>2. Serial([job[w] EXCEPT !.pc = "reread"], tmp, Absent, authKeys, failed)
    BY <1>2, <1>3, <1>8, <2>1, GoesTo DEF Serial, Saves
  <2>3. QED
    BY <1>6, <1>8, <2>2
<1>9. CASE Clearing(w) /\ GoTo(w, "authorize")
  <2> DEFINE j == [job[w] EXCEPT !.pc = "authorize"]
  <2>1. /\ j.pc = "authorize" /\ j.op = "submit" /\ j.rec = job[w].rec
        /\ j.key = job[w].key
    BY <1>2, <1>9, GoesTo DEF Clearing
  <2>2. job[w].rec.state = "PENDING_KEY" /\ job[w].key \in Keys /\ tmp = job[w].rec
    BY <1>3, <1>9 DEF Clearing, Saving
  <2> HIDE DEF j
  <2>3. Authorizing(j, tmp, failed)
    BY <2>1, <2>2 DEF Authorizing, Closed
  <2>4. Serial(j, tmp, Absent, authKeys, failed)
    BY <1>3, <2>1, <2>2, <2>3 DEF Serial, Saves
  <2>5. QED
    BY <1>6, <1>9, <2>4 DEF j, Clearing
<1>10. CASE job[w].op # "create" /\ Return(w)
  <2>1. job' = [job EXCEPT ![w] = IdleJob]
    BY <1>10 DEF Return
  <2>2. IdleJob.pc = "idle" /\ IdleJob.rec.invite = 0
    BY DEF IdleJob, Absent, Blank
  <2>3. 0 <= issued'
    BY <1>4, ConstantsAssumption DEF TypeOK, Invites
  <2>4. Still(failed') /\ Present(file)' => userDir'
    BY <1>2, <1>4, <1>10, ReadableIsPresent DEF Serial
  <2>5. Fits(file', authKeys', failed')
    BY <1>3, <1>4
  <2>6. QED
    BY <1>2, <1>4, <1>5, <2>1, <2>2, <2>3, <2>4, <2>5, GoesOn
<1>11. QED
  BY <1>7, <1>8, <1>9, <1>10 DEF RenameTmp, Saved

\* A save that fails leaves the record as it was; a submission whose token was to be
\* cleared goes on with its copy.
LEMMA SaveFailsSerial ==
  ASSUME TypeOK, RecordsInv, SerialInv, NEW w \in Workers, SaveFails(w)
  PROVE  SerialInv'
<1>1. job[w].pc \in Saves /\ ~Idle(w)
  BY DEF SaveFails, Idle, Saves
<1>2. /\ Serial(job[w], file, tmp, authKeys, failed)
      /\ job \in [Workers -> Job]
      /\ job[w].rec.invite <= issued
      /\ fd[w] \in {"none", "tmp"}
  BY <1>1, AtWork, OpenAtWork
<1>3. /\ ~Still(failed') /\ failed'["record"] # 0
      /\ Removes(failed') => Removes(failed)
      /\ UNCHANGED issued /\ Fault("record") /\ "record" \in Kinds
  BY Disturbs DEF SaveFails, Kinds
<1>4. UNCHANGED <<file, authKeys, userDir, created>>
  BY <1>2 DEF SaveFails, Fill
<1>5. TmpApart'
  <2>1. PICK r \in {Opened(w), Torn} : Fill(w, r)
    BY DEF SaveFails
  <2>2. tmp' \in {tmp, Torn}
    BY <1>2, <2>1 DEF Fill, Opened
  <2>3. Torn.invite = 0 /\ 0 <= issued
    BY ConstantsAssumption DEF Torn, Blank, TypeOK, Invites
  <2>4. \A v \in Workers : fd'[v] \in {"none", "tmp"}
    BY <2>1 DEF Fill, SerialInv, TmpApart, TypeOK
  <2>5. QED
    BY <1>3, <2>2, <2>3, <2>4 DEF TmpApart, SerialInv
<1>6. file.state \in Closed /\ Removes(failed') => authKeys' = NoKey
  BY <1>3, <1>4, ClosedStill
<1>7. CASE Clearing(w) /\ GoTo(w, "authorize")
  <2> DEFINE j == [job[w] EXCEPT !.pc = "authorize"]
  <2>1. /\ job' = [job EXCEPT ![w] = j]
        /\ j.pc = "authorize" /\ j.op = "submit" /\ j.rec = job[w].rec
        /\ j.key = job[w].key
    BY <1>2, <1>7, GoesTo DEF Clearing
  <2>2. /\ job[w].key \in Keys /\ job[w].rec = Cleared(file)
        /\ file.state = "PENDING_KEY"
    BY <1>1, <1>2, <1>7 DEF Serial, Saving, Clearing
  <2> HIDE DEF j
  <2>3. Authorizing(j, file, failed')
    BY <1>3, <2>1, <2>2 DEF Authorizing, Closed
  <2>4. Fits(file, authKeys', failed')
    BY <1>3, <2>2 DEF Fits, Closed
  <2>5. Serial(j, file, tmp', authKeys', failed')
    BY <2>1, <2>2, <2>3, <2>4 DEF Serial, Saves, Readable, States
  <2>6. job[w].pc # "provision"
    BY <1>1 DEF Saves
  <2>7. QED
    BY <1>1, <1>2, <1>3, <1>4, <1>5, <1>6, <2>1, <2>5, <2>6, GoesOnSameFile
<1>8. CASE Return(w)
  BY <1>1, <1>3, <1>4, <1>5, <1>8, FaultReturns
<1>9. QED
  BY <1>7, <1>8 DEF SaveFails, NotSaved

LEMMA SaveSerial ==
  ASSUME TypeOK, RecordsInv, SerialInv, NEW w \in Workers, Save(w)
  PROVE  SerialInv'
<1>1. ~RenameFails(w)
  BY TmpIsOurs DEF RenameFails
<1>2. QED
  BY <1>1, OpenTmpSerial, WriteTmpSerial, RenameTmpSerial, SaveFailsSerial DEF Save
-----------------------------------------------------------------------------
LEMMA RereadSerial ==
  ASSUME TypeOK, RecordsInv, SerialInv, NEW w \in Workers, Reread(w)
  PROVE  SerialInv'
<1>1. job[w].pc = "reread" /\ ~Idle(w)
  BY DEF Reread, Idle
<1>2. Serial(job[w], file, tmp, authKeys, failed)
  BY <1>1, AtWork
<1>3. file.state \in Running /\ Fits(file, authKeys, failed)
  BY <1>1, <1>2 DEF Serial
<1>4. UNCHANGED <<file, tmp, fd, created, issued, failed, userDir, authKeys>>
  BY DEF Reread, filesVars, envVars, clockVars
<1>5. CASE Begin(w, "readmit", "authorize", file, file.ownerKey, 0)
  <2> DEFINE j == [op |-> "readmit", pc |-> "authorize", rec |-> file,
                   key |-> file.ownerKey, token |-> 0]
  <2>1. job' = [job EXCEPT ![w] = j]
    BY <1>5, BeginsAgain
  <2>2. /\ j.op = "readmit" /\ j.pc = "authorize" /\ j.rec = file
        /\ j.key = file.ownerKey
    OBVIOUS
  <2> HIDE DEF j
  <2>3. Authorizing(j, file, failed)
    BY <1>3, <2>2 DEF Authorizing, Running, Closed
  <2>4. Serial(j, file, tmp', authKeys', failed')
    BY <1>3, <1>4, <2>2, <2>3 DEF Serial, Saves, Readable, Running, States
  <2>5. file.invite <= issued /\ file.state \notin Closed
    BY <1>3 DEF SerialInv, Running, Closed
  <2>6. QED
    BY <1>1, <1>4, <2>1, <2>2, <2>4, <2>5, GoesOnSameFile, TmpStaysApart
<1>6. CASE Return(w)
  BY <1>1, <1>3, <1>4, <1>6, Returns, TmpStaysApart
<1>7. QED
  BY <1>5, <1>6 DEF Reread

LEMMA RemoveSerial ==
  ASSUME TypeOK, RecordsInv, SerialInv, NEW w \in Workers, Remove(w)
  PROVE  SerialInv'
<1>1. job[w].pc = "remove" /\ ~Idle(w)
  BY DEF Remove, RemoveFile, RemoveFails, Idle
<1>2. /\ job \in [Workers -> Job]
      /\ \A v \in Workers \ {w} : Idle(v)
      /\ Serial(job[w], file, tmp, authKeys, failed)
      /\ created
      /\ \A v \in Workers : fd[v] = "none"
  BY <1>1, AtWork, OpenAtWork
<1>3. CASE RemoveFile(w)
  <2>1. /\ Removes(failed) => authKeys = NoKey
        /\ file' = Absent
        /\ job' = [job EXCEPT ![w] = IdleJob]
        /\ UNCHANGED <<tmp, created, issued, failed, userDir, authKeys>>
        /\ fd' = fd
    BY <1>1, <1>2, <1>3 DEF Serial, RemoveFile, Return, envVars, clockVars, TypeOK
  <2>2. /\ IdleJob.pc = "idle" /\ IdleJob.rec.invite = 0
        /\ Absent.invite = 0 /\ Absent.state = "ABSENT"
    BY DEF IdleJob, Absent, Blank
  <2>3. /\ 0 <= issued
        /\ \A v \in Workers : job[v].rec.invite <= issued
    BY ConstantsAssumption DEF TypeOK, Invites, SerialInv
  <2>4. Still(failed) => Removes(failed)
    BY DEF Still, Removes, Kinds
  <2>5. failed["removal"] \in Nat
    BY DEF TypeOK, Kinds
  <2>6. Fits(file', authKeys', failed') /\ ClosedHasNoAccess'
    BY <2>1, <2>2, <2>4, <2>5 DEF Fits, Admits, ClosedHasNoAccess, Removes
  <2>7. ~Present(file)' /\ TmpApart'
    BY <2>1, <2>2, TmpStaysApart DEF Present
  <2>8. QED
    BY <1>2, <2>1, <2>2, <2>3, <2>6, <2>7, GoesOn
<1>4. CASE RemoveFails(w)
  <2>1. UNCHANGED issued /\ "record" \in Kinds
    BY <1>4, Disturbs DEF RemoveFails, Kinds
  <2>2. QED
    BY <1>1, <1>4, <2>1, FaultReturns, TmpStaysApart DEF RemoveFails, filesVars
<1>5. QED
  BY <1>3, <1>4 DEF Remove

LEMMA StepSerial ==
  ASSUME TypeOK, RecordsInv, SerialInv, NEW w \in Workers, Step(w)
  PROVE  SerialInv'
<1>1. CASE MeasureFails(w)
  <2>1. job[w].pc = "measure" /\ ~Idle(w)
    BY <1>1 DEF MeasureFails, Idle
  <2>2. Fits(file, authKeys, failed)
    BY <2>1, AtWork DEF Serial
  <2>3. QED
    BY <1>1, <2>1, <2>2, Returns, TmpStaysApart
    DEF MeasureFails, filesVars, envVars, clockVars
<1>2. QED
  BY <1>1, MeasureSerial, AccessSerial, SaveSerial, RereadSerial, RemoveSerial DEF Step

LEMMA EnvironmentSerial ==
  ASSUME TypeOK, SerialInv, Environment
  PROVE  SerialInv'
<1>1. CASE UsageChanges \/ InviteLapses
  <2>1. UNCHANGED <<file, tmp, fd, authKeys, userDir, created, job, issued, failed>>
    BY <1>1 DEF UsageChanges, InviteLapses, filesVars
  <2>2. UNCHANGED <<Busy, Quiet, ClosedHasNoAccess, TmpApart>>
    BY <2>1 DEF Busy, Quiet, Idle, ClosedHasNoAccess, TmpApart
  <2>3. QED
    BY <2>1, <2>2 DEF SerialInv, Present, Readable
<1>2. CASE Crash
  <2>1. /\ UNCHANGED <<file, tmp, authKeys, userDir, created, issued>>
        /\ job' = [w \in Workers |-> IdleJob]
        /\ fd' = [w \in Workers |-> "none"]
        /\ ~Still(failed') /\ created
        /\ Removes(failed') => Removes(failed)
    BY <1>2, Disturbs DEF Crash, SerialInv, Kinds
  <2>2. /\ \A w \in Workers : job'[w].pc = "idle" /\ job'[w].rec.invite = 0
        /\ 0 <= issued'
    BY <2>1, ConstantsAssumption DEF IdleJob, Absent, Blank, TypeOK, Invites
  <2>3. Busy' = {}
    BY <2>2 DEF Busy, Idle
  <2>4. file.state \in Closed /\ Removes(failed) => authKeys = NoKey
    BY ClosedStill
  <2>5. ~Removes(failed') => failed'["removal"] > 0
    <3>1. failed' \in [Kinds -> Nat]
      BY <1>2, FaultType DEF Crash, Kinds
    <3>2. failed'["removal"] \in Nat
      BY <3>1 DEF Kinds
    <3>3. QED
      BY <3>2 DEF Removes
  <2>6. Fits(file', authKeys', failed') /\ ClosedHasNoAccess'
    BY <2>1, <2>4, <2>5 DEF ClosedHasNoAccess, Fits, Closed
  <2>7. TmpApart'
    BY <2>1 DEF SerialInv, TmpApart
  <2>8. QED
    BY <2>1, <2>2, <2>3, <2>6, <2>7 DEF SerialInv, Present, Readable
<1>3. QED
  BY <1>1, <1>2 DEF Environment

LEMMA SerialAlways ==
  ASSUME MaxInFlight \in 0..1
  PROVE  Spec => []SerialInv
<1>1. Init => SerialInv
  <2> SUFFICES ASSUME Init
               PROVE  SerialInv
    OBVIOUS
  <2>1. \A w \in Workers : job[w].pc = "idle" /\ job[w].rec.invite = 0
    BY DEF Init, IdleJob, Absent, Blank
  <2>2. Busy = {} /\ Quiet
    BY <2>1 DEF Busy, Idle, Quiet
  <2>3. ~Present(file) /\ Fits(file, authKeys, failed)
    BY DEF Init, Present, Absent, Blank, Fits, Admits
  <2>4. TmpApart
    BY DEF Init, TmpApart, Absent, Blank
  <2>5. QED
    BY <2>1, <2>2, <2>3, <2>4 DEF Init, SerialInv, ClosedHasNoAccess, Absent, Blank
<1>2. TypeOK /\ RecordsInv /\ SerialInv /\ [Next]_vars => SerialInv'
  <2> SUFFICES ASSUME TypeOK, RecordsInv, SerialInv, [Next]_vars
               PROVE  SerialInv'
    OBVIOUS
  <2>1. CASE UNCHANGED vars
    <3>1. UNCHANGED <<file, tmp, fd, authKeys, userDir, created, job, issued, failed>>
      BY <2>1 DEF vars, filesVars, envVars, clockVars
    <3>2. UNCHANGED <<Busy, Quiet, ClosedHasNoAccess, TmpApart>>
      BY <3>1 DEF Busy, Quiet, Idle, ClosedHasNoAccess, TmpApart
    <3>3. QED
      BY <3>1, <3>2 DEF SerialInv, Present, Readable
  <2>2. QED
    BY <2>1, RequestSerial, TickSerial, StepSerial, EnvironmentSerial DEF Next, Busy, Workers
<1>3. QED
  BY <1>1, <1>2, TypeCorrect, RecordsAlways, PTL DEF Spec

\* When handlers do not overlap, no write has failed and the agent has not crashed,
\* then between any two of them authorized_keys holds exactly the key of the owner of
\* a READY record.
THEOREM AccessMatches ==
  ASSUME MaxInFlight \in 0..1
  PROVE  Spec => []AccessMatchesState
<1>1. SerialInv => AccessMatchesState
  BY DEF SerialInv, AccessMatchesState, Fits, Admits, Undisturbed, Still
<1>2. QED
  BY <1>1, SerialAlways, PTL

\* When handlers do not overlap, an allocation that is deleted, retiring or retired,
\* or that has no invite yet, admits nobody, wherever the agent has crashed and
\* whichever save, provisioning or authorization has failed: the one failure that
\* Retire, DELETE and PollOne ignore is that of the removal of the key itself.
THEOREM ClosedAdmitsNobody ==
  ASSUME MaxInFlight \in 0..1
  PROVE  Spec => []ClosedHasNoAccess
<1>1. SerialInv => ClosedHasNoAccess
  BY DEF SerialInv
<1>2. QED
  BY <1>1, SerialAlways, PTL

\* When handlers do not overlap, the record file is never one that no handler can read
\* any more, however often the agent crashes or the volume refuses a write in the
\* middle of a save: what is truncated or torn then is the temporary file, and it is
\* truncated again before it is renamed.
THEOREM RecordStaysReadable ==
  ASSUME MaxInFlight \in 0..1
  PROVE  Spec => []RecordIsReadable
<1>1. SerialInv => RecordIsReadable
  BY DEF SerialInv, RecordIsReadable, Readable, Absent, Empty, Torn, Blank, States
<1>2. QED
  BY <1>1, SerialAlways, PTL
-----------------------------------------------------------------------------
(***************************************************************************)
(* The abstract lifecycle.  The record changes in RenameTmp and RemoveFile *)
(* alone; the id of an allocation is spent when its first record is saved, *)
(* or when the agent stops before that.                                    *)
(***************************************************************************)
Creating(w) == job[w].op = "create" /\ job[w].pc \in {"save", "write", "rename"}

LEMMA LifecycleVars ==
  ASSUME UNCHANGED <<file, Fresh>>
  PROVE  UNCHANGED Lifecycle!vars
BY DEF Lifecycle!vars, Fresh, Creating

\* An operation's effect on the record is one abstract operation, or none.
LEMMA FollowingIsAStep ==
  ASSUME file \in Record, file' \in Record, Follows(file, file'), Fresh' = Fresh
  PROVE  [Lifecycle!Next]_(Lifecycle!vars)
<1> USE DEF Lifecycle!Next, Lifecycle!vars
<1>0. /\ (~created' \/ \E w \in Workers : job'[w].op = "create"
                                       /\ job'[w].pc \in {"save", "write", "rename"})
         = (~created \/ \E w \in Workers : job[w].op = "create"
                                       /\ job[w].pc \in {"save", "write", "rename"})
      /\ Present(file)
  BY ReadableIsPresent DEF Fresh, Creating, Follows
<1>1. CASE Renewed(file, file')
  <2>1. Lifecycle!Invite
    BY <1>0, <1>1 DEF Renewed, Lifecycle!Invite, Record, Invites
  <2>2. QED
    BY <2>1
<1>2. CASE Burnt(file, file')
  <2>1. Lifecycle!Burn
    BY <1>0, <1>2 DEF Burnt, Lifecycle!Burn, Present
  <2>2. QED
    BY <2>1
<1>3. CASE Accepted(file, file')
  <2>1. Lifecycle!Accept(file'.ownerKey)
    BY <1>0, <1>3 DEF Accepted, Lifecycle!Accept
  <2>2. QED
    BY <1>3, <2>1 DEF Accepted
<1>4. CASE Shifted(file, file')
  <2> USE <1>0, <1>4 DEF Shifted, Lifecycle!Move
  <2>1. CASE file'.state = file.state
    BY <2>1
  <2>2. CASE file.state = "PENDING_KEY" /\ file'.state = "EXPIRED"
    BY <2>2 DEF Lifecycle!Expire
  <2>3. CASE file.state = "READY" /\ file'.state = "SUSPENDED"
    BY <2>3 DEF Lifecycle!Suspend
  <2>4. CASE file.state = "SUSPENDED" /\ file'.state = "READY"
    BY <2>4 DEF Lifecycle!Resume
  <2>5. CASE file.state \in Waiting \cup Running /\ file'.state = "RETIRING"
    BY <2>5 DEF Lifecycle!Retire, Lifecycle!Waiting, Lifecycle!Owned, Waiting, Running
  <2>6. CASE file.state = "RETIRING" /\ file'.state = "RETIRED"
    BY <2>6 DEF Lifecycle!Finish
  <2>7. QED
    BY <2>1, <2>2, <2>3, <2>4, <2>5, <2>6
<1>5. QED
  BY <1>1, <1>2, <1>3, <1>4 DEF Follows

\* A worker that creates nothing, before and after, leaves Fresh alone.
LEMMA FreshIsKept ==
  ASSUME job \in [Workers -> Job], NEW w \in Workers, NEW j,
         job' = [job EXCEPT ![w] = j], created' = created,
         (j.op = "create" /\ j.pc \in {"save", "write", "rename"}) <=> Creating(w)
  PROVE  Fresh' = Fresh
<1>1. job'[w] = j /\ \A v \in Workers \ {w} : job'[v] = job[v]
  OBVIOUS
<1>2. \A v \in Workers : Creating(v)' <=> Creating(v)
  BY <1>1 DEF Creating
<1>3. QED
  BY <1>2 DEF Fresh, Creating

LEMMA RequestIsAStep ==
  ASSUME TypeOK, SerialInv, MaxInFlight \in 0..1, NEW w \in Workers,
         Request(w) \/ (Tick /\ Free(w) /\ \E op, pc, r, k, t :
                                     op # "create" /\ Begin(w, op, pc, r, k, t))
  PROVE  UNCHANGED <<file, Fresh>>
<1>0. Free(w) /\ job \in [Workers -> Job]
  BY DEF Request, Create, Patch, GenerateInvite, ImportOwnerResponse, SubmitResponse,
    Suspend, Resume, Retire, DeleteAllocation, Read, TypeOK
<1>1. ~Creating(w)
  BY <1>0 DEF Free, Idle, Creating
<1>2. CASE Create(w)
  <2>1. ~created /\ file' = file
    BY <1>2 DEF Create
  <2>2. Creating(w)'
    BY <1>0, <1>2 DEF Create, Begin, Creating
  <2>3. QED
    BY <2>1, <2>2 DEF Fresh, Creating
<1>3. CASE ~Create(w)
  <2>1. /\ UNCHANGED <<file, created>>
        /\ \E op, pc, r, k, t : op # "create" /\ Begin(w, op, pc, r, k, t)
    BY <1>3 DEF Request, Patch, GenerateInvite, ImportOwnerResponse, SubmitResponse,
      Suspend, Resume, Retire, DeleteAllocation, Read, filesVars,
      Tick, PollTick, ExpiryTick, RetirementTick
  <2>2. PICK op, pc, r, k, t : op # "create" /\ Begin(w, op, pc, r, k, t)
    BY <2>1
  <2> DEFINE j == [op |-> op, pc |-> pc, rec |-> r, key |-> k, token |-> t]
  <2>3. job' = [job EXCEPT ![w] = j] /\ j.op # "create"
    BY <2>2 DEF Begin
  <2> HIDE DEF j
  <2>4. QED
    BY <1>0, <1>1, <2>1, <2>3, FreshIsKept
<1>4. QED
  BY <1>2, <1>3

LEMMA TickIsAStep ==
  ASSUME TypeOK, SerialInv, MaxInFlight \in 0..1, Tick
  PROVE  UNCHANGED <<file, Fresh>>
<1>1. PICK w \in Workers :
        Free(w) /\ \E op, pc, r, k, t : op # "create" /\ Begin(w, op, pc, r, k, t)
  BY DEF Tick, PollTick, ExpiryTick, RetirementTick, Read, Workers, Background
<1>2. QED
  BY <1>1, RequestIsAStep

LEMMA FreshStays ==
  ASSUME job \in [Workers -> Job], NEW w \in Workers, ~Creating(w), created' = created,
         \/ Return(w)
         \/ job[w].op # "create" /\ \E pc : GoTo(w, pc)
         \/ \E op, pc, r, k, t : op # "create" /\ Begin(w, op, pc, r, k, t)
  PROVE  Fresh' = Fresh
<1>1. CASE Return(w)
  <2>1. job' = [job EXCEPT ![w] = IdleJob] /\ IdleJob.op = "none"
    BY <1>1 DEF Return, IdleJob
  <2>2. QED
    BY <2>1, FreshIsKept
<1>2. ASSUME NEW pc, job[w].op # "create", GoTo(w, pc)
      PROVE  Fresh' = Fresh
  <2> DEFINE j == [job[w] EXCEPT !.pc = pc]
  <2>1. job' = [job EXCEPT ![w] = j] /\ j.op = job[w].op
    BY <1>2, GoesTo
  <2> HIDE DEF j
  <2>2. QED
    BY <1>2, <2>1, FreshIsKept
<1>3. ASSUME NEW op, NEW pc, NEW r, NEW k, NEW t,
             op # "create", Begin(w, op, pc, r, k, t)
      PROVE  Fresh' = Fresh
  <2> DEFINE j == [op |-> op, pc |-> pc, rec |-> r, key |-> k, token |-> t]
  <2>1. job' = [job EXCEPT ![w] = j] /\ j.op # "create"
    BY <1>3 DEF Begin
  <2> HIDE DEF j
  <2>2. QED
    BY <2>1, FreshIsKept
<1>4. QED
  BY <1>1, <1>2, <1>3

\* A save that goes on leaves Fresh alone, too.
LEMMA SavingStaysFresh ==
  ASSUME TypeOK, NEW w \in Workers, OpenTmp(w) \/ WriteTmp(w)
  PROVE  Fresh' = Fresh
<1>0. job \in [Workers -> Job] /\ created' = created
  BY DEF TypeOK, OpenTmp, WriteTmp, Fill
<1>1. CASE OpenTmp(w)
  <2>1. /\ job' = [job EXCEPT ![w] = [job[w] EXCEPT !.pc = "write"]]
        /\ [job[w] EXCEPT !.pc = "write"].op = job[w].op
        /\ [job[w] EXCEPT !.pc = "write"].pc = "write"
    BY <1>0, <1>1, GoesTo DEF OpenTmp
  <2>2. job[w].pc = "save"
    BY <1>1 DEF OpenTmp
  <2>3. QED
    BY <1>0, <2>1, <2>2, FreshIsKept DEF Creating
<1>2. CASE WriteTmp(w)
  <2>1. PICK r, k, t : Begin(w, job[w].op, "rename", r, k, t)
    BY <1>2 DEF WriteTmp
  <2> DEFINE j == [op |-> job[w].op, pc |-> "rename", rec |-> r, key |-> k, token |-> t]
  <2>2. job' = [job EXCEPT ![w] = j] /\ j.op = job[w].op /\ j.pc = "rename"
    BY <2>1 DEF Begin
  <2>3. job[w].pc = "write"
    BY <1>2 DEF WriteTmp
  <2> HIDE DEF j
  <2>4. QED
    BY <1>0, <2>2, <2>3, FreshIsKept DEF Creating
<1>3. QED
  BY <1>1, <1>2

\* The steps that leave the record alone.
LEMMA StepKeepsRecord ==
  ASSUME TypeOK, RecordsInv, SerialInv, NEW w \in Workers, Step(w),
         ~RenameTmp(w), ~RemoveFile(w), ~(SaveFails(w) /\ Creating(w))
  PROVE  UNCHANGED <<file, Fresh>>
<1>0. /\ job \in [Workers -> Job] /\ created' = created /\ ~Idle(w)
  BY DEF Step, Access, Save, Remove, Measure, MeasureFails, AuthorizeKey, AuthorizeFails,
    AuthorizeStops, DeauthorizeKey, DeauthorizeFails, OpenTmp, WriteTmp, RenameTmp,
    RenameFails, SaveFails, Fill, Reread, ProvisionUser, ProvisionFails, RemoveFile,
    RemoveFails, filesVars, Idle, TypeOK
<1>1. /\ Serial(job[w], file, tmp, authKeys, failed)
      /\ fd[w] \in {"none", "tmp"}
  BY <1>0, AtWork, OpenAtWork
<1>2. CASE OpenTmp(w) \/ WriteTmp(w)
  <2>1. file' = file
    BY <1>1, <1>2 DEF OpenTmp, WriteTmp, Fill
  <2>2. QED
    BY <1>2, <2>1, SavingStaysFresh
<1>3. CASE RenameFails(w)
  BY <1>3, TmpIsOurs DEF RenameFails
<1>4. CASE SaveFails(w)
  <2>1. ~Creating(w) /\ job[w].op # "create"
    BY <1>4 DEF SaveFails, Creating
  <2>2. file' = file /\ (Return(w) \/ \E pc : GoTo(w, pc))
    BY <1>1, <1>4 DEF SaveFails, Fill, NotSaved
  <2>3. QED
    BY <1>0, <2>1, <2>2, FreshStays
<1>5. CASE Measure(w)
  <2>1. ~Creating(w) /\ job[w].op # "create" /\ file' = file
    BY <1>1, <1>5 DEF Measure, Creating, Serial, filesVars
  <2>2. QED
    BY <1>0, <1>5, <2>1, FreshStays DEF Measure
<1>6. CASE MeasureFails(w) \/ Reread(w) \/ RemoveFails(w)
  <2>1. ~Creating(w) /\ file' = file
    BY <1>6 DEF MeasureFails, Reread, RemoveFails, Creating, filesVars
  <2>2. Return(w) \/ \E op, pc, r, k, t : op # "create" /\ Begin(w, op, pc, r, k, t)
    BY <1>6 DEF MeasureFails, Reread, RemoveFails
  <2>3. QED
    BY <1>0, <2>1, <2>2, FreshStays
<1>7. CASE Access(w)
  <2>1. ~Creating(w) /\ file' = file
    BY <1>7 DEF Access, AuthorizeKey, AuthorizeFails, AuthorizeStops, DeauthorizeKey,
      DeauthorizeFails, ProvisionUser, ProvisionFails, Creating, filesVars
  <2>2. CASE AuthorizeKey(w)
    <3>1. Return(w) \/ \E op, pc, r, k, t : op # "create" /\ Begin(w, op, pc, r, k, t)
      BY <2>2 DEF AuthorizeKey
    <3>2. QED
      BY <1>0, <2>1, <3>1, FreshStays
  <2>3. CASE AuthorizeFails(w) \/ AuthorizeStops(w)
    <3>1. Return(w) \/ (job[w].op # "create" /\ GoTo(w, "save"))
      BY <2>3 DEF AuthorizeFails, AuthorizeStops, NotAuthorized
    <3>2. QED
      BY <1>0, <2>1, <3>1, FreshStays
  <2>4. CASE DeauthorizeKey(w) \/ DeauthorizeFails(w)
    <3>1. job[w].op # "create"
      BY <1>1, <2>4 DEF DeauthorizeKey, DeauthorizeFails, Serial
    <3>2. Return(w) \/ \E pc : GoTo(w, pc)
      BY <2>4 DEF DeauthorizeKey, DeauthorizeFails, Deauthorized
    <3>3. QED
      BY <1>0, <2>1, <3>1, <3>2, FreshStays
  <2>5. CASE ProvisionUser(w) \/ ProvisionFails(w)
    BY <1>0, <2>1, <2>5, FreshStays DEF ProvisionUser, ProvisionFails
  <2>6. QED
    BY <1>7, <2>2, <2>3, <2>4, <2>5 DEF Access
<1>8. QED
  BY <1>2, <1>3, <1>4, <1>5, <1>6, <1>7 DEF Step, Save, Remove

\* The first save of a record fails: the id is lost.
LEMMA NeverSavedIsAStep ==
  ASSUME TypeOK, RecordsInv, SerialInv, NEW w \in Workers, SaveFails(w), Creating(w)
  PROVE  Lifecycle!Next
<1>1. /\ job \in [Workers -> Job]
      /\ \A v \in Workers \ {w} : Idle(v)
      /\ created /\ fd[w] \in {"none", "tmp"} /\ ~Idle(w)
  BY AtWork, OpenAtWork DEF Creating, Idle
<1>2. file' = file /\ created' /\ Return(w)
  BY <1>1 DEF SaveFails, Fill, NotSaved, Clearing, Creating
<1>3. /\ job'[w].op = "none"
      /\ \A v \in Workers \ {w} : job'[v] = job[v] /\ job[v].pc = "idle"
  BY <1>1, <1>2 DEF Return, IdleJob, Idle
<1>4. Fresh /\ ~Fresh'
  BY <1>1, <1>2, <1>3 DEF Fresh, Creating
<1>5. Lifecycle!Abandon
  BY <1>2, <1>4 DEF Lifecycle!Abandon, Fresh
<1>6. QED
  BY <1>5 DEF Lifecycle!Next

LEMMA RenameTmpIsAStep ==
  ASSUME TypeOK, RecordsInv, SerialInv, TypeOK', NEW w \in Workers, RenameTmp(w)
  PROVE  [Lifecycle!Next]_(Lifecycle!vars)
<1>1. job[w].pc = "rename" /\ job \in [Workers -> Job]
  BY DEF RenameTmp, TypeOK
<1>2. /\ file' = tmp /\ created' = created
      /\ IF job[w].op = "create" THEN Born(file, tmp) ELSE Follows(file, tmp)
  BY <1>1, TmpIsOurs DEF RenameTmp, Saving
<1>3. \A v \in Workers \ {w} : ~Creating(v)
  BY <1>1, AtWork DEF Idle, Creating
<1>4. CASE job[w].op = "create"
  <2>1. GoTo(w, "provision") /\ Creating(w)
    BY <1>1, <1>4 DEF RenameTmp, Saved, Creating, Clearing
  <2>2. /\ job'[w].pc = "provision"
        /\ \A v \in Workers \ {w} : job'[v] = job[v]
    BY <1>1, <2>1 DEF GoTo, Job
  <2>3. created
    BY <1>1, AtWork DEF Idle
  <2>4. Fresh /\ ~Fresh'
    BY <1>2, <1>3, <2>1, <2>2, <2>3 DEF Fresh, Creating
  <2>5. file = Absent /\ file' = [Absent EXCEPT !.state = "DRAFT"]
    BY <1>2, <1>4 DEF Born
  <2>6. Lifecycle!Create
    BY <2>4, <2>5 DEF Lifecycle!Create, Fresh, Creating, Absent, Blank
  <2>7. QED
    BY <2>6 DEF Lifecycle!Next
<1>5. CASE job[w].op # "create"
  <2>1. ~Creating(w) /\ (Return(w) \/ \E pc : GoTo(w, pc))
    BY <1>5 DEF Creating, RenameTmp, Saved
  <2>2. Fresh' = Fresh
    BY <1>1, <1>2, <1>5, <2>1, FreshStays
  <2>3. file \in Record /\ file' \in Record
    BY DEF TypeOK
  <2>4. QED
    BY <1>2, <1>5, <2>2, <2>3, FollowingIsAStep
<1>6. QED
  BY <1>4, <1>5

LEMMA RemoveFileIsAStep ==
  ASSUME TypeOK, RecordsInv, SerialInv, NEW w \in Workers, RemoveFile(w)
  PROVE  Lifecycle!Next
<1>1. job[w].pc = "remove" /\ job \in [Workers -> Job] /\ ~Idle(w)
  BY DEF RemoveFile, TypeOK, Idle
<1>2. Serial(job[w], file, tmp, authKeys, failed)
  BY <1>1, AtWork
<1>3. Present(file) /\ file' = Absent /\ created' = created
  BY <1>1, <1>2, ReadableIsPresent DEF Serial, RemoveFile
<1>4. Fresh' = Fresh
  BY <1>1, <1>3, FreshStays DEF RemoveFile, Creating
<1>5. Lifecycle!Delete
  BY <1>3, <1>4 DEF Lifecycle!Delete, Fresh, Creating, Present, Absent, Blank
<1>6. QED
  BY <1>5 DEF Lifecycle!Next

\* A crash while the first record is being saved abandons the id.
LEMMA CrashIsAStep ==
  ASSUME TypeOK, SerialInv, Crash
  PROVE  [Lifecycle!Next]_(Lifecycle!vars)
<1>1. /\ UNCHANGED <<file, created>>
      /\ created
      /\ \A w \in Workers : job'[w].op = "none"
  BY DEF Crash, filesVars, SerialInv, IdleJob
<1>2. ~Fresh'
  BY <1>1 DEF Fresh, Creating
<1>3. CASE Fresh
  <2>1. Lifecycle!Abandon
    BY <1>1, <1>2, <1>3 DEF Lifecycle!Abandon, Fresh, Creating
  <2>2. QED
    BY <2>1 DEF Lifecycle!Next
<1>4. CASE ~Fresh
  <2>1. Fresh' = Fresh
    BY <1>2, <1>4 DEF Fresh
  <2>2. QED
    BY <1>1, <2>1, LifecycleVars
<1>5. QED
  BY <1>3, <1>4

\* When handlers do not overlap, every behaviour of the agent, crashes and failures of
\* du and of any write included, is one of the abstract lifecycle.
THEOREM ImplementsLifecycle ==
  ASSUME MaxInFlight \in 0..1
  PROVE  Spec => LifecycleSpec
<1>1. Init => Lifecycle!Init
  BY DEF Init, Lifecycle!Init, Fresh, Absent, Blank
<1>2. TypeOK /\ TypeOK' /\ RecordsInv /\ SerialInv /\ [Next]_vars
      => [Lifecycle!Next]_(Lifecycle!vars)
  <2> SUFFICES ASSUME TypeOK, TypeOK', RecordsInv, SerialInv, [Next]_vars
               PROVE  [Lifecycle!Next]_(Lifecycle!vars)
    OBVIOUS
  <2>1. CASE \E w \in Requests : Request(w)
    BY <2>1, RequestIsAStep, LifecycleVars DEF Workers
  <2>2. CASE Tick
    BY <2>2, TickIsAStep, LifecycleVars
  <2>3. ASSUME NEW w \in Workers, Step(w)
        PROVE  [Lifecycle!Next]_(Lifecycle!vars)
    BY <2>3, StepKeepsRecord, LifecycleVars, RenameTmpIsAStep, RemoveFileIsAStep,
      NeverSavedIsAStep
  <2>4. CASE UsageChanges \/ InviteLapses \/ UNCHANGED vars
    <3>1. UNCHANGED <<file, created, job>>
      BY <2>4 DEF UsageChanges, InviteLapses, vars, filesVars
    <3>2. UNCHANGED <<file, Fresh>>
      BY <3>1 DEF Fresh, Creating
    <3>3. QED
      BY <3>2, LifecycleVars
  <2>5. CASE Crash
    BY <2>5, CrashIsAStep
  <2>6. QED
    BY <2>1, <2>2, <2>3, <2>4, <2>5 DEF Next, Busy, Environment
<1>3. QED
  BY <1>1, <1>2, TypeCorrect, RecordsAlways, SerialAlways, PTL
  DEF Spec, LifecycleSpec, Lifecycle!Spec

(***************************************************************************)
(* What is proved of the abstract lifecycle is then so of the agent.       *)
(***************************************************************************)
Proved == INSTANCE AllocationLifecycleProofs WITH
  state  <- file.state,
  owner  <- file.ownerKey,
  token  <- file.token,
  invite <- file.invite,
  fresh  <- Fresh

\* When handlers do not overlap, what is done to a record stays done, whatever crashes
\* on the way: its owner is never replaced, a used token does not come back without a
\* new invite, a retirement is not taken back, and a deleted record stays deleted.
THEOREM RecordIsNeverUndone ==
  ASSUME MaxInFlight \in 0..1
  PROVE  Spec => Proved!NeverUndone
<1>1. (Lifecycle!vars' = Lifecycle!vars) <=> (Proved!vars' = Proved!vars)
  BY DEF Lifecycle!vars, Proved!vars, Fresh, Creating
<1>2. Lifecycle!Init => Proved!Init
  BY DEF Lifecycle!Init, Proved!Init, Fresh, Creating
<1>3. [Lifecycle!Next]_(Lifecycle!vars) => [Proved!Next]_(Proved!vars)
  <2>1. Lifecycle!Next => Proved!Next
    BY DEF Lifecycle!Next, Proved!Next, Lifecycle!Create, Proved!Create,
      Lifecycle!Abandon, Proved!Abandon, Lifecycle!Invite, Proved!Invite,
      Lifecycle!Burn, Proved!Burn, Lifecycle!Accept, Proved!Accept,
      Lifecycle!Expire, Proved!Expire, Lifecycle!Suspend, Proved!Suspend,
      Lifecycle!Resume, Proved!Resume, Lifecycle!Retire, Proved!Retire,
      Lifecycle!Finish, Proved!Finish, Lifecycle!Move, Proved!Move,
      Lifecycle!Delete, Proved!Delete, Lifecycle!Waiting, Proved!Waiting,
      Lifecycle!Owned, Proved!Owned, Fresh, Creating
  <2>2. QED
    BY <1>1, <2>1
<1>4. Lifecycle!Spec => Proved!Spec
  BY <1>2, <1>3, PTL DEF Lifecycle!Spec, Proved!Spec
<1>5. Proved!Spec => Proved!NeverUndone
  BY ConstantsAssumption, Proved!LifecycleNeverUndone
<1>6. QED
  BY <1>4, <1>5, ImplementsLifecycle DEF LifecycleSpec
-----------------------------------------------------------------------------
(***************************************************************************)
(* Tokens.  As long as every save has been written, one that has let a key *)
(* in is neither in the record, nor in the temporary file, the copy or the *)
(* hands of the job at work.                                               *)
(***************************************************************************)
Spent(t, g) == t # 0 /\ t \in g.tokens

Holds(j, r, g) ==
  /\ ~Spent(j.token, g) /\ ~Spent(j.rec.token, g)
  /\ j.pc = "rename" => ~Spent(r.token, g)
  /\ j.op = "submit" => j.rec.token = 0
  /\ j.op = "submit" /\ j.rec.state = "PENDING_KEY" => j.token # 0
  /\ j.op # "submit" => j.token = 0

TokenInv ==
  /\ \A t \in Invites : Spent(t, grants) => t <= issued
  /\ \A w \in Workers : job[w].token <= issued
  /\ failed["record"] = 0 =>
       /\ ~Spent(file.token, grants)
       /\ \A w \in Busy : Holds(job[w], tmp, grants)

\* The only job goes on with j, or ends; no key is authorized.
LEMMA HoldsOn ==
  ASSUME job \in [Workers -> Job], TokenInv, NEW w \in Workers,
         \A v \in Workers \ {w} : Idle(v),
         NEW j, job' = [job EXCEPT ![w] = j],
         UNCHANGED grants, issued \in Nat, issued' \in Nat, issued <= issued',
         j.token <= issued',
         failed'["record"] = 0 => failed["record"] = 0,
         failed'["record"] = 0 => ~Spent(file'.token, grants),
         failed'["record"] = 0 /\ j.pc # "idle" => Holds(j, tmp', grants)
  PROVE  TokenInv'
<1>1. job'[w] = j /\ \A v \in Workers \ {w} : job'[v] = job[v]
  OBVIOUS
<1>2. \A v \in Busy' : v = w /\ j.pc # "idle"
  BY <1>1 DEF Busy, Idle
<1>3. \A t \in Invites : Spent(t, grants) => t <= issued'
  BY ConstantsAssumption DEF TokenInv, Invites
<1>4. \A v \in Workers : job'[v].token <= issued'
  <2>1. \A v \in Workers : job[v].token \in Nat
    BY ConstantsAssumption DEF Job, Invites
  <2>2. QED
    BY <1>1, <2>1 DEF TokenInv
<1>5. QED
  BY <1>1, <1>2, <1>3, <1>4 DEF TokenInv

LEMMA GoToHolds ==
  ASSUME TypeOK, RecordsInv, SerialInv, TokenInv, NEW w \in Workers, ~Idle(w),
         NEW pc, (pc # "rename" /\ GoTo(w, pc)) \/ Return(w),
         UNCHANGED <<grants, issued>>,
         failed'["record"] = 0 => failed["record"] = 0,
         failed'["record"] = 0 => ~Spent(file'.token, grants)
  PROVE  TokenInv'
<1>1. job \in [Workers -> Job] /\ \A v \in Workers \ {w} : Idle(v)
  BY AtWork
<1>2. /\ issued \in Nat /\ w \in Busy
      /\ issued' = issued /\ issued' \in Nat /\ issued <= issued'
      /\ job[w].token <= issued'
  BY ConstantsAssumption DEF TypeOK, Invites, Busy, TokenInv
<1>3. CASE pc # "rename" /\ GoTo(w, pc)
  <2> DEFINE j == [job[w] EXCEPT !.pc = pc]
  <2>1. /\ job' = [job EXCEPT ![w] = j] /\ j.op = job[w].op /\ j.rec = job[w].rec
        /\ j.token = job[w].token /\ j.pc = pc
    BY <1>1, <1>3, GoesTo
  <2>2. failed["record"] = 0 => Holds(job[w], tmp, grants)
    BY <1>2 DEF TokenInv
  <2> HIDE DEF j
  <2>3. failed'["record"] = 0 => Holds(j, tmp', grants)
    BY <1>3, <2>1, <2>2 DEF Holds
  <2>4. QED
    BY <1>1, <1>2, <2>1, <2>3, HoldsOn
<1>4. CASE Return(w)
  <2> DEFINE j == IdleJob
  <2>1. job' = [job EXCEPT ![w] = j] /\ j.pc = "idle" /\ j.token = 0
    BY <1>4 DEF Return, IdleJob
  <2> HIDE DEF j
  <2>2. j.token <= issued'
    BY <1>2, <2>1
  <2>3. failed'["record"] = 0 /\ j.pc # "idle" => Holds(j, tmp', grants)
    BY <2>1
  <2>4. QED
    BY <1>1, <1>2, <2>1, <2>2, <2>3, HoldsOn
<1>5. QED
  BY <1>3, <1>4

\* A job whose copy has the token of the record or none, and that holds none itself.
LEMMA BeginHolds ==
  ASSUME job \in [Workers -> Job], TokenInv, NEW w \in Workers,
         \A v \in Workers \ {w} : Idle(v),
         NEW op, NEW pc, NEW r, NEW k, Begin(w, op, pc, r, k, 0), op # "submit",
         pc # "rename", UNCHANGED <<file, failed, grants>>, issued \in Nat,
         issued' \in Nat, issued <= issued',
         failed["record"] = 0 => ~Spent(r.token, grants)
  PROVE  TokenInv'
<1> DEFINE j == [op |-> op, pc |-> pc, rec |-> r, key |-> k, token |-> 0]
<1>1. job' = [job EXCEPT ![w] = j]
  BY DEF Begin
<1>2. /\ j.op = op /\ j.rec = r /\ j.token = 0 /\ j.pc = pc
  OBVIOUS
<1> HIDE DEF j
<1>0. 0 <= issued' /\ ~Spent(0, grants)
  BY DEF Spent
<1>3. failed["record"] = 0 => Holds(j, tmp', grants)
  BY <1>0, <1>2 DEF Holds
<1>4. failed["record"] = 0 => ~Spent(file'.token, grants)
  BY DEF TokenInv
<1>5. QED
  BY <1>0, <1>1, <1>2, <1>3, <1>4, HoldsOn

LEMMA RequestTokens ==
  ASSUME TypeOK, SerialInv, TokenInv, MaxInFlight \in 0..1,
         NEW w \in Workers, Request(w)
  PROVE  TokenInv'
<1>1. Free(w) /\ UNCHANGED <<file, failed, grants>>
  BY DEF Request, Create, Patch, GenerateInvite, ImportOwnerResponse, SubmitResponse,
    Suspend, Resume, Retire, DeleteAllocation, Read, filesVars, envVars
<1>2. /\ job \in [Workers -> Job] /\ file \in Record
      /\ \A v \in Workers \ {w} : Idle(v)
      /\ issued \in Nat
  BY <1>1, FreeIsQuiet, ConstantsAssumption DEF Busy, TypeOK, Invites
<1>3. failed["record"] = 0 => ~Spent(file.token, grants)
  BY DEF TokenInv
<1>i. issued' = issued => issued' \in Nat /\ issued <= issued'
  BY <1>2
<1>4. CASE GenerateInvite(w)
  <2>1. issued' = issued + 1 /\ issued + 1 \in Invites
    BY <1>4, LapsedBounds, ConstantsAssumption DEF GenerateInvite, Invites
  <2> DEFINE n == [file EXCEPT !.state = "PENDING_KEY", !.token = issued + 1,
                               !.invite = issued + 1]
  <2>2. n.token = issued + 1
    BY <1>2 DEF Record
  <2>3. Begin(w, "invite", "save", n, NoKey, 0)
    BY <1>4 DEF GenerateInvite
  <2> HIDE DEF n
  <2>4. ~Spent(n.token, grants)
    <3>1. ~(issued + 1 <= issued)
      BY <1>2
    <3>2. QED
      BY <2>1, <2>2, <3>1 DEF TokenInv
  <2>5. issued' \in Nat /\ issued <= issued'
    BY <1>2, <2>1
  <2>6. QED
    BY <1>1, <1>2, <2>3, <2>4, <2>5, BeginHolds
<1>5. ASSUME NEW t \in 0..issued, NEW k \in Keys \cup {NoKey}, SubmitResponse(w, t, k)
      PROVE  TokenInv'
  <2>1. /\ issued' = issued
        /\ Cleared(file).token = 0 /\ Cleared(file).state = file.state
        /\ ~Spent(0, grants)
    BY <1>2, <1>5 DEF SubmitResponse, envVars, clockVars, Cleared, Record, Spent
  <2>2. CASE Begin(w, "submit", "save", Cleared(file), k, t) /\ TokenMatches(t)
    <3> DEFINE j == [op |-> "submit", pc |-> "save", rec |-> Cleared(file), key |-> k,
                     token |-> t]
    <3>1. job' = [job EXCEPT ![w] = j]
      BY <2>2 DEF Begin
    <3>2. j.op = "submit" /\ j.rec = Cleared(file) /\ j.token = t
      OBVIOUS
    <3>p. j.pc = "save"
      OBVIOUS
    <3>3. t = file.token /\ t # 0 /\ t <= issued
      BY <1>2, <2>2 DEF TokenMatches
    <3> HIDE DEF j
    <3>4. failed["record"] = 0 => Holds(j, tmp', grants)
      BY <1>3, <2>1, <3>2, <3>p, <3>3 DEF Holds
    <3>5. QED
      BY <1>1, <1>2, <1>3, <1>i, <2>1, <3>1, <3>2, <3>3, <3>4, HoldsOn
  <2>3. CASE Begin(w, "burn", "save", Cleared(file), NoKey, 0)
    BY <1>1, <1>2, <2>1, <2>3, BeginHolds
  <2>4. QED
    BY <1>5, <2>2, <2>3 DEF SubmitResponse
<1>6. CASE Suspend(w)
  <2> DEFINE n == [file EXCEPT !.state = "SUSPENDED"]
  <2>1. n.token = file.token
    BY <1>2 DEF Record
  <2>2. Begin(w, "suspend", "deauthorize", n, NoKey, 0) /\ issued' = issued
    BY <1>6 DEF Suspend, envVars, clockVars
  <2> HIDE DEF n
  <2>3. QED
    BY <1>1, <1>2, <1>3, <1>i, <2>1, <2>2, BeginHolds
<1>7. CASE Retire(w)
  <2> DEFINE n == [file EXCEPT !.state = "RETIRING"]
  <2>1. n.token = file.token
    BY <1>2 DEF Record
  <2>2. Begin(w, "retire", "deauthorize", n, NoKey, 0) /\ issued' = issued
    BY <1>7 DEF Retire, envVars, clockVars
  <2> HIDE DEF n
  <2>3. QED
    BY <1>1, <1>2, <1>3, <1>i, <2>1, <2>2, BeginHolds
<1>8. CASE Create(w)
  <2> DEFINE d == [Absent EXCEPT !.state = "DRAFT"]
  <2>1. ~Spent(d.token, grants)
    BY DEF Absent, Blank, Spent
  <2>2. Begin(w, "create", "save", d, NoKey, 0) /\ issued' = issued
    BY <1>8 DEF Create, envVars, clockVars
  <2> HIDE DEF d
  <2>3. QED
    BY <1>1, <1>2, <1>i, <2>1, <2>2, BeginHolds
<1>9. CASE Patch(w) \/ Resume(w) \/ DeleteAllocation(w)
  BY <1>1, <1>2, <1>3, <1>9, BeginHolds
  DEF Patch, Resume, DeleteAllocation, Absent, Blank, Spent, envVars, clockVars
<1>10. CASE \E k \in Keys : ImportOwnerResponse(w, k)
  BY <1>1, <1>2, <1>3, <1>10, BeginHolds
  DEF ImportOwnerResponse, envVars, clockVars
<1>11. QED
  BY <1>4, <1>5, <1>6, <1>7, <1>8, <1>9, <1>10 DEF Request

LEMMA TickTokens ==
  ASSUME TypeOK, SerialInv, TokenInv, MaxInFlight \in 0..1, Tick
  PROVE  TokenInv'
<1>1. UNCHANGED <<file, grants, issued, failed>>
  BY DEF Tick, PollTick, ExpiryTick, RetirementTick, Read, filesVars, envVars, clockVars
<1>2. PICK w \in Workers : /\ Free(w)
                           /\ \E op, pc, r : /\ Begin(w, op, pc, r, NoKey, 0)
                                             /\ pc # "rename"
                                             /\ op # "submit"
                                             /\ r.token = file.token
  <2>1. \A s : [file EXCEPT !.state = s].token = file.token
    BY DEF TypeOK, Record
  <2>2. {"poller", "expirer", "retirer"} \subseteq Workers
    BY DEF Workers, Background
  <2>3. QED
    BY <2>1, <2>2 DEF Tick, PollTick, ExpiryTick, RetirementTick, Read
<1>3. /\ job \in [Workers -> Job]
      /\ \A v \in Workers \ {w} : Idle(v)
      /\ issued \in Nat
      /\ failed["record"] = 0 => ~Spent(file.token, grants)
  BY <1>2, FreeIsQuiet, ConstantsAssumption DEF Busy, TypeOK, Invites, TokenInv
<1>4. QED
  BY <1>1, <1>2, <1>3, BeginHolds

\* The token in the hands of a submission that authorizes its key is nowhere else.
\* AuthorizeKey may report an error all the same.
LEMMA GrantTokens ==
  ASSUME TypeOK, RecordsInv, SerialInv, TokenInv, NEW w \in Workers,
         AuthorizeKey(w) \/ AuthorizeStops(w), grants' # grants
  PROVE  TokenInv'
<1> DEFINE t == job[w].token
<1>1. job[w].pc = "authorize" /\ ~Idle(w) /\ w \in Busy
  BY DEF AuthorizeKey, AuthorizeStops, Idle, Busy
<1>2. /\ job \in [Workers -> Job] /\ job[w].rec \in Record
      /\ \A v \in Workers \ {w} : Idle(v)
      /\ Authorizing(job[w], file, failed)
  BY <1>1, AtWork DEF Serial
<1>3. failed["record"] = 0 => Holds(job[w], tmp, grants) /\ ~Spent(file.token, grants)
  BY <1>1 DEF TokenInv
<1>4. /\ grants'.tokens = grants.tokens \cup ({t} \ {0})
      /\ UNCHANGED <<file, issued>>
      /\ failed'["record"] = 0 => failed["record"] = 0
  BY Disturbs DEF AuthorizeKey, AuthorizeStops, Grant, envVars, clockVars, Kinds
<1>5. failed["record"] = 0 /\ t # 0 => file.token = 0 /\ job[w].rec.token = 0
  BY <1>2, <1>3 DEF Holds, Authorizing
<1>6. \A u : Spent(u, grants') => Spent(u, grants) \/ u = t
  BY <1>4 DEF Spent
<1>t. /\ issued \in Nat /\ t \in Nat /\ t <= issued
      /\ \A v \in Workers : job[v].token <= issued
  BY <1>2, ConstantsAssumption DEF TypeOK, Job, Invites, TokenInv
<1>7. /\ failed'["record"] = 0 =>
           ~Spent(file.token, grants') /\ ~Spent(job[w].rec.token, grants')
      /\ \A u \in Invites : Spent(u, grants') => u <= issued
  BY <1>3, <1>4, <1>5, <1>6, <1>t DEF TokenInv, Holds, Spent
<1>8. \/ Return(w)
      \/ \E r : /\ Begin(w, job[w].op, "save", r, NoKey, 0)
                /\ r.token = job[w].rec.token
                /\ job[w].op = "submit" => r.state # "PENDING_KEY"
      \/ job[w].op \in {"poll", "resume"} /\ GoTo(w, "save")
  <2>1. /\ Admitted(job[w].rec, job[w].key).token = job[w].rec.token
        /\ Admitted(job[w].rec, job[w].key).state = "READY"
    BY <1>2 DEF Admitted, Record
  <2>2. CASE AuthorizeStops(w)
    BY <2>2 DEF AuthorizeStops, NotAuthorized
  <2>3. CASE AuthorizeKey(w)
    BY <2>1, <2>3 DEF AuthorizeKey
  <2>4. QED
    BY <2>2, <2>3
<1>9. ASSUME NEW j, job' = [job EXCEPT ![w] = j], j.token <= issued,
             failed'["record"] = 0 /\ j.pc # "idle" => Holds(j, tmp', grants')
      PROVE  TokenInv'
  <2>1. \A v \in Busy' : v = w /\ j.pc # "idle" /\ job'[v] = j
    BY <1>2, <1>9 DEF Busy, Idle
  <2>2. \A v \in Workers : job'[v].token <= issued
    BY <1>2, <1>9, <1>t
  <2>3. QED
    BY <1>4, <1>7, <1>9, <2>1, <2>2 DEF TokenInv
<1>10. CASE Return(w)
  <2> DEFINE j == IdleJob
  <2>1. job' = [job EXCEPT ![w] = j] /\ j.pc = "idle" /\ j.token = 0
    BY <1>10 DEF Return, IdleJob
  <2> HIDE DEF j
  <2>2. j.token <= issued
    BY <1>t, <2>1
  <2>3. QED
    BY <1>9, <2>1, <2>2
<1>11. ASSUME NEW r, Begin(w, job[w].op, "save", r, NoKey, 0),
              r.token = job[w].rec.token,
              job[w].op = "submit" => r.state # "PENDING_KEY"
       PROVE  TokenInv'
  <2> DEFINE j == [op |-> job[w].op, pc |-> "save", rec |-> r, key |-> NoKey,
                   token |-> 0]
  <2>1. job' = [job EXCEPT ![w] = j]
    BY <1>11, BeginsAgain
  <2>2. j.op = job[w].op /\ j.rec = r /\ j.token = 0 /\ j.pc = "save"
    OBVIOUS
  <2> HIDE DEF j
  <2>3. failed'["record"] = 0 => Holds(j, tmp', grants')
    BY <1>3, <1>4, <1>7, <1>11, <2>2 DEF Holds, Spent
  <2>4. j.token <= issued
    BY <1>t, <2>2
  <2>5. QED
    BY <1>9, <2>1, <2>3, <2>4
<1>12. CASE job[w].op \in {"poll", "resume"} /\ GoTo(w, "save")
  <2> DEFINE j == [job[w] EXCEPT !.pc = "save"]
  <2>1. /\ job' = [job EXCEPT ![w] = j] /\ j.op = job[w].op /\ j.rec = job[w].rec
        /\ j.token = t /\ j.pc = "save"
    BY <1>2, <1>12, GoesTo
  <2> HIDE DEF j
  <2>2. failed'["record"] = 0 => Holds(j, tmp', grants')
    BY <1>3, <1>4, <1>7, <1>12, <2>1 DEF Holds, Spent
  <2>3. QED
    BY <1>9, <1>t, <2>1, <2>2
<1>13. QED
  BY <1>8, <1>10, <1>11, <1>12

LEMMA StepTokens ==
  ASSUME TypeOK, RecordsInv, SerialInv, TokenInv, NEW w \in Workers, Step(w)
  PROVE  TokenInv'
<1>1. ~Idle(w) /\ w \in Busy
  BY DEF Step, Access, Save, Remove, Measure, MeasureFails, AuthorizeKey, AuthorizeFails,
    AuthorizeStops, DeauthorizeKey, DeauthorizeFails, OpenTmp, WriteTmp, RenameTmp,
    RenameFails, SaveFails, Reread, ProvisionUser, ProvisionFails, RemoveFile,
    RemoveFails, Idle, Busy
<1>2. /\ job \in [Workers -> Job] /\ job[w].rec \in Record
      /\ \A v \in Workers \ {w} : Idle(v)
      /\ Serial(job[w], file, tmp, authKeys, failed)
      /\ fd[w] \in {"none", "tmp"}
      /\ issued \in Nat
  BY <1>1, AtWork, OpenAtWork, ConstantsAssumption DEF TypeOK, Invites
<1>3. failed["record"] = 0 => Holds(job[w], tmp, grants) /\ ~Spent(file.token, grants)
  BY <1>1 DEF TokenInv
<1>f. ASSUME NEW k \in Kinds, Fault(k)
      PROVE  failed'["record"] = 0 => failed["record"] = 0
  BY <1>f, Disturbs
<1>4. CASE Measure(w)
  <2>1. job[w].op # "submit" /\ job[w].rec.token = file.token
    BY <1>2, <1>4 DEF Measure, Serial
  <2>2. Polled(job[w].rec, usage).token = job[w].rec.token
    BY <1>2 DEF Polled, Record
  <2>3. /\ UNCHANGED <<file, grants, issued, failed>>
        /\ \E pc, k : pc # "rename"
                      /\ Begin(w, job[w].op, pc, Polled(job[w].rec, usage), k, 0)
    BY <1>4 DEF Measure, PollAccess, filesVars, envVars, clockVars
  <2>4. QED
    BY <1>2, <1>3, <2>1, <2>2, <2>3, BeginHolds
<1>5. CASE RenameTmp(w)
  <2>1. file' = tmp /\ UNCHANGED <<grants, issued, failed>> /\ job[w].pc = "rename"
    BY <1>5 DEF RenameTmp, envVars, clockVars
  <2>2. failed["record"] = 0 => ~Spent(file'.token, grants)
    BY <1>3, <2>1 DEF Holds
  <2>3. \E pc : (pc # "rename" /\ GoTo(w, pc)) \/ Return(w)
    BY <1>5 DEF RenameTmp, Saved
  <2>4. QED
    BY <1>1, <2>1, <2>2, <2>3, GoToHolds
<1>6. CASE Reread(w)
  <2>1. UNCHANGED <<file, grants, issued, failed>>
    BY <1>6 DEF Reread, filesVars, envVars, clockVars
  <2>2. CASE Begin(w, "readmit", "authorize", file, file.ownerKey, 0)
    BY <1>2, <1>3, <2>1, <2>2, BeginHolds
  <2>3. CASE Return(w)
    BY <1>1, <1>3, <2>1, <2>3, GoToHolds
  <2>4. QED
    BY <1>6, <2>2, <2>3 DEF Reread
<1>7. CASE RemoveFile(w)
  <2>1. /\ ~Spent(file'.token, grants)
        /\ UNCHANGED <<grants, issued, failed>> /\ Return(w)
    BY <1>7 DEF RemoveFile, Absent, Blank, Spent, envVars, clockVars
  <2>2. QED
    BY <1>1, <2>1, GoToHolds
\* What the job writes has the token of its copy.
<1>8. CASE WriteTmp(w)
  <2> DEFINE r == IF Clearing(w) THEN job[w].rec ELSE Absent
             j == [op |-> job[w].op, pc |-> "rename", rec |-> r, key |-> job[w].key,
                   token |-> job[w].token]
  <2>1. tmp = Empty /\ fd[w] = "tmp"
    BY <1>1, <1>2, <1>8, OpenAtWork DEF WriteTmp, Serial
  <2>2. /\ file' = file /\ tmp' = job[w].rec
        /\ UNCHANGED <<grants, issued, failed>>
        /\ job' = [job EXCEPT ![w] = j]
    BY <1>8, <2>1 DEF WriteTmp, Overlaid, Opened, Fill, Begin, envVars, clockVars
  <2>3. /\ j.op = job[w].op /\ j.rec = r /\ j.token = job[w].token /\ j.pc = "rename"
        /\ r = job[w].rec \/ (~Clearing(w) /\ r = Absent)
        /\ Absent.token = 0 /\ Absent.state = "ABSENT"
    BY DEF Absent, Blank
  <2> HIDE DEF r, j
  <2>4. failed["record"] = 0 => Holds(j, tmp', grants)
    BY <1>3, <2>2, <2>3 DEF Holds, Clearing, Spent
  <2>5. j.token <= issued
    BY <2>3 DEF TokenInv
  <2>6. /\ issued' \in Nat /\ issued <= issued' /\ j.token <= issued'
        /\ failed'["record"] = 0 => failed["record"] = 0
        /\ failed'["record"] = 0 => ~Spent(file'.token, grants)
        /\ failed'["record"] = 0 /\ j.pc # "idle" => Holds(j, tmp', grants)
    BY <1>2, <1>3, <2>2, <2>4, <2>5
  <2>7. QED
    BY <1>2, <2>2, <2>6, HoldsOn
<1>9. CASE SaveFails(w)
  <2>1. failed'["record"] # 0 /\ UNCHANGED issued
    BY <1>9, Disturbs DEF SaveFails, Kinds
  <2>2. UNCHANGED grants /\ \E pc : (pc # "rename" /\ GoTo(w, pc)) \/ Return(w)
    BY <1>9 DEF SaveFails, NotSaved
  <2>3. QED
    BY <1>1, <2>1, <2>2, GoToHolds
<1>10. CASE RenameFails(w) \/ OpenTmp(w) \/ MeasureFails(w)
  <2>1. /\ UNCHANGED <<file, grants, issued, failed>>
        /\ \E pc : (pc # "rename" /\ GoTo(w, pc)) \/ Return(w)
    BY <1>10 DEF MeasureFails, OpenTmp, RenameFails, NotSaved, filesVars, envVars,
       clockVars
  <2>2. QED
    BY <1>1, <1>3, <2>1, GoToHolds
<1>11. CASE RemoveFails(w)
  <2>1. /\ UNCHANGED <<file, grants, issued>> /\ Return(w)
        /\ failed'["record"] = 0 => failed["record"] = 0
    BY <1>11, Disturbs DEF RemoveFails, filesVars, Kinds
  <2>2. QED
    BY <1>1, <1>3, <2>1, GoToHolds
<1>12. CASE Access(w)
  <2>1. CASE grants' # grants
    BY <1>12, <2>1, GrantTokens DEF Access, AuthorizeFails, DeauthorizeKey,
      DeauthorizeFails, ProvisionUser, ProvisionFails
  <2>2. CASE grants' = grants /\ ~AuthorizeKey(w)
    <3>1. file' = file /\ \E pc : (pc # "rename" /\ GoTo(w, pc)) \/ Return(w)
      BY <1>12, <2>2 DEF Access, AuthorizeFails, AuthorizeStops, DeauthorizeKey,
        DeauthorizeFails, ProvisionUser, ProvisionFails, NotAuthorized, Deauthorized,
        filesVars
    <3>2. \/ UNCHANGED <<issued, failed>>
          \/ \E k \in Kinds : Fault(k)
      BY <1>12, <2>2 DEF Access, AuthorizeFails, AuthorizeStops, DeauthorizeKey,
        DeauthorizeFails, ProvisionUser, ProvisionFails, envVars, clockVars, Kinds
    <3>3. UNCHANGED issued /\ (failed'["record"] = 0 => failed["record"] = 0)
      BY <3>2, Disturbs
    <3>4. QED
      BY <1>1, <1>3, <2>2, <3>1, <3>3, GoToHolds
  \* A key that was authorized before with the same token, which is then none.
  <2>3. CASE grants' = grants /\ AuthorizeKey(w)
    <3>1. UNCHANGED <<file, issued, failed>> /\ job[w].rec \in Record
      BY <1>2, <2>3 DEF AuthorizeKey, envVars, clockVars
    <3>2. \/ Return(w)
          \/ \E r : /\ Begin(w, job[w].op, "save", r, NoKey, 0)
                    /\ r.token = job[w].rec.token
                    /\ job[w].op = "submit" => r.state # "PENDING_KEY"
      <4>1. /\ Admitted(job[w].rec, job[w].key).token = job[w].rec.token
            /\ Admitted(job[w].rec, job[w].key).state = "READY"
        BY <3>1 DEF Admitted, Record
      <4>2. QED
        BY <2>3, <4>1 DEF AuthorizeKey
    <3>3. CASE Return(w)
      BY <1>1, <1>3, <2>3, <3>1, <3>3, GoToHolds
    <3>4. ASSUME NEW r, Begin(w, job[w].op, "save", r, NoKey, 0),
                 r.token = job[w].rec.token,
                 job[w].op = "submit" => r.state # "PENDING_KEY"
          PROVE  TokenInv'
      <4> DEFINE j == [op |-> job[w].op, pc |-> "save", rec |-> r, key |-> NoKey,
                       token |-> 0]
      <4>1. job' = [job EXCEPT ![w] = j]
        BY <3>4, BeginsAgain
      <4>2. j.op = job[w].op /\ j.rec = r /\ j.token = 0 /\ j.pc = "save"
        OBVIOUS
      <4> HIDE DEF j
      <4>3. failed["record"] = 0 => Holds(j, tmp', grants)
        BY <1>3, <3>4, <4>2 DEF Holds, Spent
      <4>4. /\ issued' \in Nat /\ issued <= issued' /\ j.token <= issued'
            /\ failed'["record"] = 0 => ~Spent(file'.token, grants)
            /\ failed'["record"] = 0 /\ j.pc # "idle" => Holds(j, tmp', grants)
        BY <1>2, <1>3, <3>1, <4>2, <4>3 DEF Holds
      <4>5. QED
        BY <1>2, <2>3, <3>1, <4>1, <4>4, HoldsOn
    <3>5. QED
      BY <3>2, <3>3, <3>4
  <2>4. QED
    BY <2>1, <2>2, <2>3
<1>13. QED
  BY <1>4, <1>5, <1>6, <1>7, <1>8, <1>9, <1>10, <1>11, <1>12 DEF Step, Save, Remove

LEMMA TokensAlways ==
  ASSUME MaxInFlight \in 0..1
  PROVE  Spec => []TokenInv
<1>1. Init => TokenInv
  BY DEF Init, TokenInv, Spent, Absent, Blank, Busy, Idle, IdleJob
<1>2. TypeOK /\ RecordsInv /\ SerialInv /\ TokenInv /\ [Next]_vars => TokenInv'
  <2> SUFFICES ASSUME TypeOK, RecordsInv, SerialInv, TokenInv, [Next]_vars
               PROVE  TokenInv'
    OBVIOUS
  <2>1. CASE UsageChanges \/ InviteLapses \/ UNCHANGED vars
    <3>1. UNCHANGED <<file, tmp, job, issued, failed, grants>>
      BY <2>1 DEF UsageChanges, InviteLapses, vars, filesVars, envVars, clockVars
    <3>2. UNCHANGED Busy
      BY <3>1 DEF Busy, Idle
    <3>3. QED
      BY <3>1, <3>2 DEF TokenInv
  <2>2. CASE Crash
    <3>1. UNCHANGED <<file, issued, grants>> /\ Busy' = {}
      BY <2>2, Disturbs DEF Crash, Kinds, Busy, Idle, IdleJob
    <3>2. failed'["record"] = 0 => failed["record"] = 0
      BY <2>2, Disturbs DEF Crash, Kinds
    <3>3. 0 <= issued /\ \A w \in Workers : job'[w].token = 0
      BY <2>2, ConstantsAssumption DEF Crash, IdleJob, TypeOK, Invites
    <3>4. QED
      BY <3>1, <3>2, <3>3 DEF TokenInv
  <2>3. QED
    BY <2>1, <2>2, RequestTokens, TickTokens, StepTokens DEF Next, Busy, Environment, Workers
<1>3. QED
  BY <1>1, <1>2, TypeCorrect, RecordsAlways, SerialAlways, PTL DEF Spec

\* When handlers do not overlap, the peer API authorizes a key on the strength of an
\* invite token once: also after a crash, a failed du, a failed authorization or a new
\* invite, as long as no save of a record has failed.
THEOREM TokensWorkOnce ==
  ASSUME MaxInFlight \in 0..1
  PROVE  Spec => OneTimeToken
<1> DEFINE Once == \A w \in Workers :
             /\ job[w].op = "submit"
             /\ job[w].pc = "authorize"
             /\ job'[w].pc = "save"
             /\ failed["record"] = 0
             => job[w].token \notin grants.tokens
<1>1. SerialInv /\ TokenInv /\ TypeOK => Once
  <2> SUFFICES ASSUME SerialInv, TokenInv, TypeOK, NEW w \in Workers,
                      job[w].op = "submit", job[w].pc = "authorize",
                      failed["record"] = 0
               PROVE  job[w].token \notin grants.tokens
    OBVIOUS
  <2>1. w \in Busy
    BY DEF Busy, Idle
  <2>2. job[w].rec.state = "PENDING_KEY"
    BY <2>1 DEF SerialInv, Serial, Authorizing
  <2>3. QED
    BY <2>1, <2>2 DEF TokenInv, Holds, Spent
<1>2. QED
  BY <1>1, SerialAlways, TokensAlways, TypeCorrect, PTL DEF OneTimeToken
=============================================================================
