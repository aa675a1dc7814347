# NAS Backup Buddy: specifications and proofs

NAS Backup Buddy lets two people keep encrypted backups on each other's NAS. A
*host* runs the **host agent** (a Go service and an SFTP container, under
`apps/host-agent`); an *owner* runs the **desktop client** (a Tauri program:
React pages over a Rust process, under `apps/client`), which drives Kopia
against the host's SFTP server. This directory holds TLA+ models of their
stateful parts, TLC configurations that check them, and TLAPS proofs.

## 1. The system

| Component | State it keeps | Operations | Talks to |
|---|---|---|---|
| Allocations (`allocation/`, `sftp/quota.go`, handlers) | one JSON record per allocation, its `.json.tmp`, `authorized_keys` of its SFTP user | create, patch, invite, import response, submit response (peer API), suspend, resume, retire, delete; tickers for quota, expiry, retirement | SFTP users, clock, `du` |
| SFTP users (`sftp/manager.go`, `docker/sftp/*.sh`) | `users/<u>/user.json`, `authorized_keys`, `reload-trigger`; Linux accounts | provision, authorize, deauthorize; watcher loop, `setup_users` | shared state volume |
| Agent configuration, token, middleware | `config.json`, bearer token | PATCH /config, authentication | every handler |
| Events, health, overlay | append-only log with a mutex; views | append, query; health | allocations |
| Client settings (`AppContext.tsx`, `persistence.ts`, `lib.rs`) | React state, `app-config.json` | restore at start, effects and setters that save | Rust commands |
| Client peers (`Peer.tsx`, `PeerConnection.tsx`, `sftp_verify.rs`, `peer_bundle.rs`) | saved peers, known hosts, sessions | import invite, generate key, submit response, verify, connect | peer API, SFTP, settings |
| Client backup jobs (`AppContext.tsx`, `kopia.rs`) | job status per repository, Kopia configuration | trigger, snapshot, check | Kopia, master password |
| Master password | memory, OS keychain, page flag | set, load, clear | keychain |
| Test lab and restore drill | lab paths and results | create, backup, transport, check, drill | Kopia |
| Health, readiness, safety | health report, readiness, flags | verdicts | pages |
| Setup wizard, plan, settings | the draft, the form, toggles | validate, apply, edit, toggle | jobs, Rust commands |
| Host tab (`views/host/*.tsx`) | token, last known `.env`, the open section | stack up and down, token, network address, allocations, configuration | compose stack, host agent API |
| Overlay and Syncthing views | child processes | install, start, pair | Tailscale, Syncthing |
| Web prototype, placeholder agent | mock state | none | none |

What is hard here:

* **No lock at all around an allocation.** Each handler reads a copy, works on it,
  changes `authorized_keys` and saves the whole copy; three tickers do the same on
  snapshots. All saves truncate, write and rename one shared `.json.tmp`: two that
  overlap may undo each other, and may publish a file that is empty or torn, which no
  handler can read again. Everything about concurrency in the agent follows from this.
* **Two files, no transaction.** The key in `authorized_keys` and the state in
  the record change one after the other; a crash or a failing write falls in
  between, some errors are ignored, and nothing is reconciled at start.
* **A reload protocol over a file.** Two containers share a volume, a trigger
  file, a poll loop and files rewritten in place.
* **Asynchronous saves in the client.** The Rust commands are synchronous and
  run one after the other, but a save is two of them with an `await` between.
* **Handlers that outlive what they closed over.** A page's handler awaits a
  command and goes on with the record, the flags or the environment of the render
  it was created in, perhaps after the user has changed, left or deleted what it
  was about. What it then writes must still be true.
* **One fact in several places.** The password is in process memory, in the
  keychain and in a flag of the page; the agent's address is in `.env`, in the
  environment of its container and on the page. Each copy changes by itself.
* **Deadlines and thresholds.** Invites lapse, grace periods end, usage crosses
  thresholds while a handler is at work.

`PROJECT.json` lists the hazards, each at its line, with the properties that
watch it.

## 2. The modules

| Module | Models |
|---|---|
| `AllocationLifecycle` | abstract specification: one allocation's state, owner and token, every operation one step |
| `HostAgent` | the same allocation as the code handles it: handlers and tickers interleaved at every file access |
| `MCHostAgent` | `HostAgent` with the symmetry of handlers and keys, for TLC |
| `SftpReload` | agent and SFTP container around the reload trigger |
| `ClientConfig` | the client's settings, between page, command queue and file |
| `SavedPeers` | the records of the saved peers and what the page derives from them |
| `PeerPage`, `MCPeerPage` | the Peer page over them, its commands, known host keys |
| `CommandQueue` | commands of a page under way to the Rust process |
| `ClientContext` | what the data owner's pages share, and the Rust state behind it |
| `SetupWizardPage`, `BackupPlanPage`, `RecoveryKeyPage`, `LabPages`, `HealthPages` | these pages; `LabPages` has the Test Lab and the Restore Drill, `HealthPages` Health Checks and the Dashboard |
| `ClientApp` | composes context and pages: navigation, restart |
| `HostContext` | `.env`, the containers, the agent, and what the Host tab keeps of them |
| `HostStackPanel`, `TailscalePanel`, `AllocationsPanel`, `AgentPanels` | the sections of the tab; `AgentPanels` has settings and diagnostics |
| `HostTab` | composes the sections |
| `HostAgentProofs`, `HostAgentSerialProofs`, `AllocationLifecycleProofs`, `SftpReloadProofs`, `ClientConfigProofs`, `PeerPageProofs`, `ClientAppProofs`, `HostTabProofs` | theorems |

A definition named `Name_Something` is a variant of `Name` with a mistake the
code might have had. No action uses it; it is there to show that the properties
notice it (`"mutants"` in `PROJECT.json`).

### HostAgent

`file` is the record, `tmp` the temporary file that all saves of the allocation
share, `authKeys` the content of the user's `authorized_keys`, `userDir` whether
the user was provisioned. `job[w]` is a goroutine in flight: its operation, its
next file access (`pc`), its copy of the record (`rec`) and the key it was given.
`fd[w]` is the file that a save has opened, by the name it has now: `os.WriteFile`
truncates and then writes, and in between another save may truncate the same file or
rename it to the record. A record may so be `EMPTY` or `TORN`, which `json.Unmarshal`
refuses. An action is what the code does between two accesses to shared files:

| Action | Code |
|---|---|
| `Create` … `DeleteAllocation` | a handler's read, its guards and the assignments to its copy |
| `PollTick`, `ExpiryTick`, `RetirementTick` | `List` in `pollAll`, `checkExpiry`, `checkRetirement` |
| `Measure`, `MeasureFails` | `PollOne`: `du`, and the branch on its result |
| `AuthorizeKey`, `AuthorizeFails`, `DeauthorizeKey` | `sftp.Manager` |
| `AuthorizeStops`, `DeauthorizeFails`, `ProvisionFails` | the same when a file cannot be written; `Retire`, DELETE and `PollOne` ignore that the removal of a key failed, `Suspend` returns |
| `OpenTmp`, `WriteTmp`, `RenameTmp`, `RenameFails`, `SaveFails` | `Manager.save`: truncate, write, rename; no file to rename; the volume refuses one of the three, perhaps half way |
| `Reread` | `Resume` after its poll |
| `ProvisionUser`, `RemoveFile`, `RemoveFails` | the ends of `Create` and `Delete` |
| `UsageChanges`, `InviteLapses`, `Crash` | owner, clock, container |

Data is abstracted to what the properties tell apart. A token is the number of
its invite, a key a model value, usage one of the three levels PollOne
distinguishes, labels and timestamps are left out. `Patch` saves the copy it
read: the fields it sets show up as a change of usage. A single tick of the
poller stands for a pass over all allocations: they share nothing but the
reload trigger. `RetirementTick` may be the first after the grace period, which
may be zero days.

Faults are of four kinds (`Kinds`): the agent's container restarts, a write of the
record fails, one of the user's directory or key fails, the removal of a key fails.
`failed` counts them, so that a property can say which kind it excepts. A loss of power
that undoes writes the operating system had accepted (`save` does not `fsync`) is left
out.

### SftpReload

`files[u]` has the files the agent writes, one by one, and the two scripts
read; a file rewritten in place is `"torn"` for one step. `watcher` is where the
container's scripts are, `sshd` whether the entrypoint has become sshd, `pidFile` whether
that has written its pid file. After a reload the watcher sends SIGHUP to the process in
that file, and to process 0, its own group, if there is none (`Signal`): the watcher is
`"dead"` then, until the container restarts. `set -e` ends no setup half way here: calls
for one user follow each other, so a `user.json` is whole or empty, and on an empty one
`jq` prints nothing and does not fail. `admitted` records whose last call was an
`AuthorizeKey` that returned. Calls for the same user follow each other
(overlapping calls are HostAgent's subject); calls for different users overlap.

### ClientConfig

`ui` is the provider's state, `disk` the file, `calls` and `answers` the
commands on their way between page and Rust process. `savePersistedConfig` is a
`load` answered by a `save`. Four keys stand for the eleven of
`PersistedConfig`: two lists saved by effects, two flags saved by setters.

### PeerPage

`savedPeers[p]` is the record of a peer, `sessions[p]` what the page shows of it
until it is left: results with the host and the invite they were asked for, and
the buttons that wait. A click appends to `calls` the record the handler closed
over; `Execute` runs the first call in the Rust process and appends its
outcome to `answers`; `Answer` is the end of a handler, which writes its record back
with a field changed, even if the peer has been deleted (`upsertSavedPeer`). `visit` numbers the mounts of the page: an answer for an earlier one
finds no session. `known` is `known_fingerprints.json`: `sftp_verify.rs` stores a
host key on first use and compares ever after. It rewrites the file in place and reads
one that does not parse as empty, so that a verification that fails or is cut off in the
middle of the write leaves `Forgotten`. A host may present a key of which there is no
fingerprint; it is neither checked nor stored. Invites are names with an
allocation, a host and perhaps a pinned key; that they parse until they expire is
`Parses`. A key pair and a match go together and are one name.

Of the client's own behaviour, `Init` has at most one stored peer in one of the
two states an earlier session leaves behind; the second is made on the page.
Labels, probe results and what the page reports to the dashboard are left out.
`RunImport` and `RunConnect` answer one `"failed"` for each error of their commands: the
page shows its text and does the same for all of them.

### ClientApp

`ClientContext` has the provider of `AppContext.tsx`: setup state, flags, health
report, jobs and their statuses, the results of the test lab; and the Rust process
behind it: `memory` and `keychain`, `repoKey` (the password a repository was made
with), `connected` (the folder that the one `kopia/config.json` of all local
repositories points to) and the files of the lab. `asked` is what the readiness was
last computed from. Each page module keeps that page's own variables and the
actions of its handlers, one action up to the first `await`, then one per answer.

Commands are synchronous in Rust and run in the order in which they were sent. The work
of a command in the process (`RepositoryRun`, `PasswordRun`, `LabRun`) and the handler
that goes on from its answer are two steps: in between, `answer` has what the process
said, and the user may click, a timer fire, the page be left or the application end. A
command that changes nothing in the process is one step with its handler. Only the first
command of the queue is ever run: the second may run before the handler of the first
goes on, but the one works on the state of the process and the other on that of the
pages, so that the order of the two is not seen, unless the application ends between
them, which the model does not reach. A call whose page has been left
(`here = FALSE`) still changes the context, as the setters it closed over do, but no
page. `fresh` and `raced` are history: the destinations that have a snapshot since
one was last asked for, and whether a flag was switched during a refresh.

A job's status takes its initialisation and backup statuses in one, ages are recent
or not, and a check or drill passes or fails; a drill that ends in an error records
nothing, in the code as in the model. What Kopia makes of a command is a choice; it may
always fail. `Reports` are the states in which a host is found; the verdicts take all
seven, `host_key_mismatch` and `quota_warning` included, which no page with a route
reports. The consent to health reports is read by nothing and is left out.

### HostTab

Three copies of one configuration: `saved`, the `.env` file; `running`, the
environment the containers were created with; `host.env`, what the tab read last.
`agent` outlives its containers. `panel` is the state of the open section only, as
the others are unmounted. A handler that sleeps before it refreshes is in `timers`.
Here a command and its handler are one step. Two things are left out: a `.env` that
cannot be read when it is written, which the command takes for an empty one and so loses
the keys it is not given (`lib.rs:3273`); and handlers that go on after the whole tab was
left: `Reopen` is an end of the application, or a visit to another page when nothing is
under way. `classifyReachability` is a function of three keys. While the section for the
allocations is open, `AgentStep` lets the owner, the clock and the poller move the
allocation under the page.

### Composition

`HostAgent` takes `AuthorizeKey` and `DeauthorizeKey` as single steps on
`authKeys`; `SftpReload` takes them apart, and shows that what they request
reaches sshd. `HostAgent` instantiates `AllocationLifecycle`
(`Lifecycle == INSTANCE ... WITH state <- file.state, ...`) and, with one
handler at a time, implements it: TLC checks it, `HostAgentSerialProofs` proves it.
`ClientApp` and `HostTab` compose their pages over
shared variables: each page module states what it leaves unchanged, the composing
module what becomes of a page that is not shown. `PeerReports` in `ClientContext`
stands for what the Peer page tells the context, and `ClientConfig` for how the
context reaches the disk.

## 3. Runs

| Run | Bounds | Shows |
|---|---|---|
| `host_agent_serial` | 1 job at work, 2 keys, 2 invites, 2 levels, 2 faults of any kind | `AccessMatchesState`, `RecordIsReadable`, `ClosedHasNoAccess`, `OneTimeToken`, refinement `LifecycleSpec` |
| `host_agent_concurrent` | 2 jobs at work (handlers or tickers), 1 key, 1 invite, 2 levels, no fault | `RecordIsWhole`, `OwnerWasGranted`, `TmpIsTransient` |
| `host_agent_liveness` | 1 job, 1 key, 1 invite, 3 levels, 1 fault of any kind, fairness | `RetirementFinishes`, `LapsedInviteExpires`, `CriticalLosesAccess`, `QuotaSuspensionEnds` |
| `sftp_reload` | 2 users, 2 restarts | `NoLostReload`, `AdmittedCanLogIn` |
| `client_config_patient` | 3 edits, 2 exits, no edit while a save is under way | `StartupKeepsConfig`, `SavedWhenQuiet` |
| `peer_page` | 2 peers, hosts, keys, allocations, invites; 2 edits, 2 clicks, 2 visits, 2 calls | `RecordIsOneInvites`, `ResultsMatchTarget`, `BusyHasCall`, `KnownKeyIsKept` |
| `client_app` | 1 target, 1 folder, 1 password, 3 clicks, 2 calls | `DoneJobIsStored`, `RunningJobHasWork`, `WaitingPageHasCall`, `PasswordShownIsHeld`, `JobsAreSafe`, `ReadinessIsCurrent`, `LabShownIsTheLab`, `FailedDrillBlocks` |
| `host_tab` | 1 address, 2 tokens, 2 configurations, 4 clicks, 2 calls | `BusyHasWork`, `LoopbackInviteWasTold`, `MismatchIsSaid` |

Runs that TLC must find violated, each a disagreement between the code and its
documents (`"findings"`):

| Run | Disagreement |
|---|---|
| `token_redeemed_twice` | two overlapping submissions redeem one token, against "one-time `inviteToken`" |
| `lost_update` | a stale save moves the record against the state diagram |
| `critical_after_crash` | a key left by a crash before READY is never removed |
| `config_key_lost` | overlapping saves of the client's settings lose a key |

Two jobs at work are enough for every race of the agent: each property concerns
one shared file and two writers of it, and a third writer only repeats what the
second did. Two faults allow a second one of another kind in what the first has left; a
restart forgets all work in flight. Two invites let
an old token meet a new invite. Two users make the reload list incomplete while
one of them is being written; two restarts allow one of each container. The
proofs remove these bounds for every invariant and action property of a passing run;
of the host agent's with one handler at a time they keep that condition, which is
what the properties are about.

On the client's pages a race needs two handlers at work, hence two calls under way;
each is one click, and the further clicks are what the user does between them (open
another section, restart). Two invites for two allocations, one with a host
of its own and one that leaves it to the user, each with a key to pin, are what a
result can be wrongly attributed to. The second
visit meets the answers of the first. One password and one target are enough for
`ClientApp`: its properties compare copies of one fact, and a copy that is lost is
seen without a second value. In `HostTab` two tokens give a stale one, and the
address of the machine may be set, unset or unknown in each copy. `host_tab` and
`client_app` start in the states an earlier session may have left. `MCPeerPage` has
the symmetry of the two peers; the invites are not interchangeable.

Several properties except what the code does not do better, and say so:

* `AccessMatchesState` is stated without a fault; `ClosedHasNoAccess` and
  `CriticalLosesAccess` except a removal of the key that has failed, since `Retire`,
  DELETE and the poller ignore it, and `ClosedHasNoAccess` does not speak of waiting and
  expired allocations, which a crash may leave a key (`critical_after_crash`);
  `OneTimeToken` excepts a save that has failed, after which `handleSubmitResponse` goes
  on with the token still live.
* `RecordIsWhole` speaks of records that parse: overlapping saves can leave one that does
  not. That this takes an overlap is `RecordIsReadable`.
* `AdmittedCanLogIn` excepts a watcher that has ended itself.
* `KnownKeyIsKept` excepts that all keys are forgotten at once.
* `PasswordShownIsHeld` and `LabShownIsTheLab` except the moment between a command and
  its handler (`HasRun`).
* `SavedWhenQuiet` excepts a settings file that is torn: every later load fails, and
  with it every later save.
* `ResultsMatchTarget` is stated as long as no two calls have overlapped,
  `DoneJobIsStored` of jobs to a peer, `ReadinessIsCurrent` of refreshes during which no
  flag was switched, and `MismatchIsSaid` of a `.env` that could be read and an agent
  that was heard.

`CHECK_DEADLOCK FALSE` appears in the client's runs only: a client whose user
does nothing more rests.

### Seen while modelling

Not runs of their own, but visible in the models, and worth knowing:

* `Retire`, DELETE and the quota poller ignore the error of `DeauthorizeKey`
  (`lifecycle.go:95`, `handlers.go:329`, `quota.go:88`): the record then says that the
  allocation is closed or suspended while its owner can still log in, and nothing comes
  back to it.
* Overlapping saves write one `.json.tmp` without a lock (`manager.go:224`): what is
  renamed may be empty or torn. `Get` fails on it and `List` skips it from then on, with
  the owner's key as it was.
* A reload that ends before sshd has written its pid file ends the watcher
  (`reload-watcher.sh:8`).
* A file of host keys that does not parse is taken for an empty one
  (`sftp_verify.rs:326`): after a write that was cut off each host is trusted anew.
* `clear_master_password` empties memory first; if the keychain then refuses, the bridge
  swallows the error (`tauri-bridge.ts:432`), the page says that the password was
  revoked, and the next start loads it again.
* A lost read of `.env` while it is written takes the keys that are not given
  (`lib.rs:3273`), among them the address of an overlay network.
* `Resume` leaves `quotaEnforcedSuspend` set (`lifecycle.go:55`): an allocation that
  is resumed at the warning level is READY and still marked, and the poller may end a
  later suspension by the host on account of it.
* All local repositories share `kopia/config.json` (`lib.rs:1321`): with a second
  folder, a backup asked for one is stored in the other.
* Save & Restart recreates the containers only if something was edited since the
  section was opened (`TailscalePanel.tsx:109`); and a `.env` that cannot be read
  becomes an empty environment on the page (`tauri-bridge.ts:918`).
* What the section for the network heard of the agent stays on the page when a later
  query fails (`TailscalePanel.tsx:76`). A change of the token reloads the section and
  gives its buttons back while a save is under way, so a second one can overlap it. If
  the first restart works and the second fails, the end of the first takes the
  restart mark away; if the agent does not answer then, its former address is still
  shown, may be the one `.env` has again, and nothing is said of the one it
  runs with. This takes three calls and seven clicks, more than `host_tab` allows; the
  attempt to prove `MismatchIsSaid` without its premise `panel.overlay = running.addr`
  showed it.
* A refresh of the Health Checks page asks with the flags of its render
  (`AppContext.tsx:258`), hence `raced`.
* The Dashboard has links that no route of `App.tsx` serves (`Routed`).

### Fairness

A goroutine that has begun goes on (`WF(Step(w))`); tickers fire for ever
(`time.NewTicker` in a `for`); `du` does not fail at every poll (`SF(Measure)`).
Nothing obliges a client to call or to stop, so the agent's liveness properties
are stated under `ClientsPause`: with handlers arriving for ever, a stale save may
undo every tick. They are checked with one handler or tick at a time: a poll whose `du`
is under way while `Retire` saves writes the old record back, and the retirement never
ends (`lost_update`). The SFTP container restarts (`restart: unless-stopped`), its
watcher loops as long as it lives and sshd writes its pid file, hence `WF(Watcher)` and
`WF(WritePidFile)`; the agent's own steps need no fairness
there, as `AdmittedCanLogIn` starts when its call has returned. The pages of the
client state no fairness: that a waiting button is given back is the safety property
that whoever will do so is under way (`BusyHasCall`, `WaitingPageHasCall`,
`RunningJobHasWork`, `BusyHasWork`).

## 4. Proofs

All theorems hold for every value of the constants that satisfies the named
assumptions: bounds are naturals; `NoKey` and `None` are no member of the sets they
are used with; an invite has an allocation; folders are no targets; tools and hosts are found
in one of their states (`StatesAssumption`); an address of an overlay network is neither
empty nor the loopback, and there is a configuration (`HostAssumption`). Two modules
have a hypothesis besides, stated in the theorems: `MaxInFlight \in 0..1` in
`HostAgentSerialProofs`, `MaxOverlap \in 0..1` in `ClientConfigProofs`. The runs that
must be violated show that neither can go.

* **`HostAgentProofs`**: `TypeCorrect`, `RecordsAreWhole`, `OwnersWereGranted`,
  `NoTmpIsLeft`. `RecordIsWhole` is not inductive: what a save will write is in
  the copies of the handlers in flight. `RecordsInv` therefore says it of the
  file, of the temporary file and of every copy, each copy being *sensible* for
  the operation and the access it is at (a copy about to be saved by a suspension
  has an owner who was granted access, a copy at `"authorize"` will be whole once
  it gets its key, and so on). No lock is needed in the argument: a write fills a file
  that was truncated with one entire copy, and one that another save has written over is
  a whole copy or does not parse (`Overlaid`); a failed one leaves what was there or a
  torn file. There is one lemma per group of actions. `NoTmpIsLeft` follows the open
  files: while the temporary file is there, a save has it open or is about to rename it,
  unless a save has failed or the agent has crashed.
* **`HostAgentSerialProofs`**: one handler or tick at a time, with any number of keys,
  invites and, but for `AccessMatches`, faults. `AccessMatchesState` speaks of moments
  without a job, so `SerialInv` says for each place a job can be at (`Serial`) how its
  copy, the record, the temporary file and `authorized_keys` fit: what it is about to
  save fits the key that is there already (`Fits`), and is what one operation makes of
  the record (`Follows`). From it `AccessMatches`, `ClosedAdmitsNobody` and
  `RecordStaysReadable`: alone, a save renames what it has truncated and written itself.
  `TokensWorkOnce` adds `TokenInv`: a token that is still in the record or in the job
  at work has not been spent. `ImplementsLifecycle` is the refinement, step by step:
  `RenameTmp` is the abstract operation that `Follows` names, `RemoveFile` is `Delete`,
  a crash or a failure before the first save of a new allocation is `Abandon`, everything
  else stutters. `RecordIsNeverUndone` then takes `LifecycleNeverUndone` over to the agent
  through the same mapping. With two jobs tokens are redeemed twice and records
  undone: see the runs `token_redeemed_twice` and `lost_update`.
* **`SftpReloadProofs`**: `ReloadTypeCorrect`, and `ReloadIsNeverLost`, whose
  invariant is `NoLostReload` itself with the types: an admitted user is set up
  or will be visited.
* **`AllocationLifecycleProofs`**: `LifecycleTypeCorrect`,
  `LifecycleOwnerAndToken`, and the action property `LifecycleNeverUndone` from
  them; the lemmas `RecordKeepsTypes` and `RecordKeepsOwnerAndToken` take the
  operations one by one. Through the refinement they speak about the agent.
* **`ClientConfigProofs`**: `TypeCorrect`; `StartKeepsConfig`, whose invariant says
  that until the first edit commands and answers under way carry nothing but what
  the file has, so that the saves of the mount effects are without effect; and
  `PatientUserIsSaved` for `MaxOverlap \in 0..1`, with the invariant that the client
  is starting, or page and file agree, or exactly one save is under way and they
  differ in its key alone. That the assumption is needed is the run
  `config_key_lost`.
* **`PeerPageProofs`**: the invariant `Inv` of `PageInvariant` says that each record is
  `Sound` (its fields belong to one invite), that so is the copy in each command and
  answer under way (`Wires`: a handler may write it back at any time), that visits
  never decrease along the queues (`InOrder`), and that a result is on the page only
  while no call of an earlier visit is under way (`Sessions`). From it
  `RecordIsOfOneInvite` and, with the steps that write `known`, `KnownKeysAreKept`.
  `WaitingButtonHasCall` adds that no button waits for an import. `ShownResultsMatch`,
  stated as long as no two calls have overlapped, adds `MatchInv`: at most one call is
  under way, and the results on the page are those of the record it took along as well
  as of the peer's own.
* **`ClientAppProofs`**: the invariants go through all actions of all pages, grouped by
  what they disturb. `TypeCorrect` is about the queue above all: `Queued(calls)` says
  what each command was asked with, and only so does the handler that goes on from
  its answer keep the types; that a password to be set is one and a draft to be validated
  has passed the wizard's own check gives a part of `PasswordIsHeld`, and `JobsStaySafe`.
  `AnswerInv` says that there is no answer without a call.
  `LabIsShown` and `DrillBlocks` follow from `LabInv`, which adds that a failed drill is
  never a recent one in the health report, and what an answer says of the lab
  (`LabAnswers`); it is proved jointly with the types, as each step needs both.
  `PasswordIsHeld` rests on `PasswordInv`: only a revocation that has been run and not
  answered leaves the flag without a password. `ReadinessStaysCurrent` follows from `ReadyInv`: a
  refresh under way has the flags there are, until one is switched. `DoneJobsAreStored`
  and `RunningJobsHaveWork` share `JobInv`; `WaitingPagesHaveCalls` has in `WaitInv` one
  conjunct for each thing that a page can wait for. Nothing is assumed of the number or
  the overlap of calls.
* **`HostTabProofs`**: `TypeCorrect` again from what each command was asked with.
  `SectionsGetFree`: `BusyInv` names the calls and sleeping handlers that give the
  buttons back (`Frees`); a step that takes one away gives the buttons back or adds
  the next. `LoopbackInvitesAreTold` is the deepest: the section checked `.env` and the agent,
  but the call runs later, when both may have changed. The argument is in the order of the
  queue. `EnvInv`: whatever else may change the address or the containers was asked for
  before anything that the open section asks, so a section that has had an answer has nothing
  of that kind in front of it, and a write of a new token carries the address that `.env`
  has. `LeadInv`: from that answer on only a restart that was under way can make other
  containers, and it finds an address if the tab knew of one; so an agent that had an address
  when the host clicked, or that will get one, has it when the invite is made.
  `MismatchesAreSaid` adds `EnvIsRead`: without an edit to be saved, the section shows the
  address that `.env` has, or a read is under way.

Both proofs rest on what a step may do to the queue, stated once per group of actions
(`QueueGoesOn` in the one; `GoesOn` in the other, the queue being what is behind the first
call and new calls after it): lemmas about it say which calls stay, which are added, and
that an order stays once it is kept.

Only model-checked: the liveness properties, as fairness and ENABLED are out of TLAPS's
reach. That `DoneJobIsStored` is stated of jobs to a peer, `ReadinessIsCurrent` without a
raced refresh, and `MismatchIsSaid` of an agent that was heard is part of the properties,
not of the proofs.

## 5. What is not modelled, and what is left

Left out:

* Views without a route in `App.tsx`: `PeerConnection`, `PeerStorage`, `OverlaySetup`,
  `SyncthingConnection`, `HostSetup`. The program cannot show them.
* The agent's configuration, its event log, health and overlay endpoints: an
  append-only log behind a mutex and read-only views; the Host tab's use of them is in
  `HostTab`.
* The percentages of the quota and of retention, ages, path safety: usage and ages are
  modelled by the levels that decisions depend on.
* Rendering, wording, redaction of log lines, parsing of bundles field by field, key
  formats and cryptography; how each platform keeps a secret.
* Docker, Tailscale, Kopia and Syncthing, which are external; the web prototype and
  the placeholder agent, which keep no state that outlives a click.

What could follow, in this order:

1. Theorems about what overlapping handlers of the agent still guarantee, beyond
   `RecordsAreWhole`: which operations can be undone by a stale save, and which cannot.
2. The verdicts of the Rust core's `health.rs` and `safety.rs` and of the agent's
   health, as functions against reference definitions.
3. A run of `ClientApp` over `ClientConfig`, so that a restart restores what the
   settings had saved rather than what the page showed.
