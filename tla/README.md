# grokbox: a TLA+ model

This directory models the parts of grokbox that are hard to test: a command line
client, a daemon on a remote box that runs jobs, moves files and publishes events,
and the helpers that keep the box awake. The specifications are translated from the
TypeScript under `src/src` (paths below are relative to the repository, which is
`src/`); TLC checks them on small instances and TLAPS proves what matters most for
every value of the constants.

State of the project: the JobManager, the event journal with its follower (against an
abstract feed), the keepers of a box with the client they tick over, the governed filesystem
with its clients and uploads, the downloads, a governed Gateway write, `exec run`, the desktop
manager, the native routines, the webhook key of a cloud routine, and the bootstrap of a box
with its recovery are modelled and checked. Their types, safety invariants and action
properties and the refinement of the feed are proved for every value of the constants;
liveness is model-checked.

## 1. The system

```
 CLI commands ── DaemonClient ──(framed RPC)── DaemonHost ─┬─ JobManager ── children
     │                                             │       ├─ GovernedFilesystem
     │                                             │       ├─ EventJournal ◄─ lifecycle events
     └── GatewayClient ──(HTTP, bearer)── Gateway ─┘       └─ DesktopManager
 box keeper ── CursorSandboxClient ──(HTTP)── provider
 recover / init ── bootstrap ── DaemonHost configuration on the box
```

| component | source | state it keeps | operations | what is hard | what makes it correct |
|---|---|---|---|---|---|
| JobManager | `daemon/jobs.ts` | map of jobs, FIFO queue, count of running launches, chains of submissions and of cancel callers, launches and escalations in progress, one `state.json` per job | `submit`, `drain`, `launch`, `cancel`, `close`, `create`/`load`, `persist`, `pruneHistory`, logs | every handler awaits many times; persists are unordered and may reject; children outlive the daemon; crash between any two steps | slots are bounded and never idle, no queued job is forgotten, one child per identity, an accepted cancel is honoured and durable, no invented outcome, close returns and leaves nothing behind |
| EventJournal | `daemon/events.ts` | generation, sequence, bounded entries, waiters | `append`, `read` (long poll), `close` | eviction while a reader waits, restart of the generation, append after close | a follower sees every event in order or is told of a gap; waiters are bounded and always woken |
| Event follower | `commands/events.ts`, `daemon/events.ts` | cursor | loop of reads over both sources | reconnects, gaps, disconnections | no duplicate and no silent loss |
| DaemonHost and protocol | `daemon/host.ts`, `daemon/protocol.ts` | connections, managers, generation | handshake, dispatch, `close` | shutdown order, requests in flight at close | requests are dispatched only to the generation they expect; close ends all managers |
| Daemon client, exec | `daemon/client.ts`, `commands/exec.ts`, `commands/jobs.ts` | identities of one command | call, retry, `exec run` | lost replies, restart between the request and its retry | at most one child per command; an outcome is never made up |
| GovernedFilesystem | `daemon/filesystem.ts` | mutation ledger, target locks and reservations, uploads, downloads, tombstones | stat, list, read, mkdir, move, remove, upload, download, cancel, expiry, close | retries of what was done, expiry during a commit, a cancel before its begin | a mutation is done at most once per identity, a target has one writer, no temporary file or descriptor remains |
| Filesystem client | `commands/fs.ts` | transfer in progress | chunk loops | lost replies | the file is complete or the failure is told |
| GatewayClient | `gateway.ts` | discovery, rejected credential | reads, writes, event stream | rotation of the token, restart of the gateway, unknown outcomes | a write is sent again only under another credential and to the same gateway |
| Keeper | `commands/box.ts` | lock file, status file | acquire, release, tick | several processes, stale lock takeover | at most one keeper per profile |
| Cursor sandbox client | `sandbox/cursor.ts` | descriptor | wake, `tick` | refresh in the middle of a call | one refresh per tick, one identity per no-op |
| Bootstrap, recover | `bootstrap.ts`, `commands/recover.ts` | files, daemon and Serve mapping of the box, secret files of the laptop | bootstrap, its catch block, `recover`, `daemon ensure` | partial failure of the steps and of their undoing, killed commands, a box that restarts | what is told as undone is undone; the Profile's credential is never a retired one |
| DesktopManager | `daemon/desktop.ts` | keep set, prune flag, daemon configuration file | keep, prune, enable, tick | unserialised read-modify-write, stale classification | a kept desktop is never reaped; what is saved is what the daemon goes by |
| Profiles, secrets | `config/profile.ts`, `config/secret.ts` | profile files, current profile, secret files | create, use, remove, rotate | crash between two files | the current profile exists; a rotated secret is still the one referred to |
| Native routines | `routines.ts`, `server-routines.ts` | revisions of an external service | create, update, delete | unknown outcomes | revision checked, one operation identity |
| Agent export, roster, memory, history, send, doctor, quota, output, parsing | the rest | none beyond one call | sequential | (little) | projections and tables |

Interactions: the host calls the managers, `JobManager.onLifecycle` appends to the
EventJournal, the host's `close` ends the journal and then the managers, the CLI
retries requests over a connection that may lose the reply, and the only memory
across a daemon restart is on disk.

`PROJECT.json` lists the components with their status and, under `hazards`, every
place of this code that is hard to test, with the properties that cover it or the
reason why none does yet.

## 2. The modules

| module | what it is |
|---|---|
| `Jobs` | the JobManager: variables, one action per step of a handler, `Spec`, `FairSpec` |
| `JobsProperties` | its properties, and the inductive invariant `SchedulerInv` |
| `MCJobs` | the symmetry used by TLC; the instances are in the `.cfg` files |
| `MCJobsFair` | two stories of the manager, "busy" and "restart", for the run with liveness, and the action constraint that keeps them apart |
| `JobsProofs` | lemmas on the operators (`Drain`, sequences, counting launches) and the preservation of `SchedulerInv`, proved |
| `JobsSafetyProofs` | the life, the cancellation and the outcome of a job, proved |
| `EventFeed` | abstract: what the output of `grokbox events` promises |
| `EventJournal` | the EventJournal of the daemon, its close and its restart |
| `EventFollower` | the client loop over `EventJournal` (EXTENDS), time, connections, the properties, and the refinement of `EventFeed` |
| `EventProofs` | the pages, the waiters and the refinement of `EventFeed`, proved |
| `MCEvents` | what the followers ask for in the instances |
| `Keeper` | `box keepalive run`: lock file, loop, sandbox client's tick, state file |
| `MCKeeper` | the symmetry of the keepers |
| `KeeperProofs` | types, the lock, the state file and the no-op of the keepers, proved |
| `Filesystem` | the GovernedFilesystem: ledger, target locks, write, mkdir, remove, loss of memory |
| `Uploads` | its uploads (EXTENDS `Filesystem`): admission, chunks, commit, cancel, timer, tombstones, close |
| `FilesystemClient` | the `fs` mutation commands over both, the properties and the fairness |
| `FilesystemProofs` | types, tombstones, owners, effects and verdicts, proved |
| `MCFilesystem` | the plans (who asks for what, under which limits) of the instances |
| `Downloads` | the downloads of the daemon and the `fs download` command |
| `Gateway` | one request of the GatewayClient: route, discovery, two attempts, verdict |
| `Exec` | `exec run` over a lossy daemon client |
| `ExecProofs` | the exactness of `exec run`, proved |
| `Desktop` | the DesktopManager |
| `Routines` | one `agents routines` mutation between two reads |
| `CloudRoutines` | the proof of the Host and the webhook key store |
| `CloudProofs` | one webhook key under the proof of one Host, proved |
| `Bootstrap` | bootstrap with its undoing, recover, ensure |
| `ServicesProofs` | downloads, desktop, routines, Gateway and bootstrap, proved |
| `MCServices` | one instance for the seven models from `Downloads` on, which share no state |

### How `Jobs` corresponds to `daemon/jobs.ts`

The manager is single-threaded, so an action is the code between two awaits. The
fields of the class are variables: `queue`, `running`, `close` (the flag `closing` is
`close.step # "open"`); the fields of a job are functions over identities: `state`
(with `"absent"` for an identity that is not in the map), `intent`
(`terminalIntent`), `cancelId` (`cancelOperationId`), `escalating`. What the code
holds on its stack across an await is a program counter: `launch[j]`, `admission`,
`call[c]`, `close`, and `save[p]` for a `persist()` in flight.

- **persist()** (`jobs.ts:351`) is three steps: `Snapshot` takes the projection,
  `Rename` replaces the file, and the caller's own action (`...Saved`,
  `...SaveFails`) sees it return. It may reject before or after the rename.
  Nothing orders the persists of one job, so each caller has a persist of its own.
- **submit** (`:408`): `SubmitBegin`, `SubmitRefused`, `SubmitAdmit`, `SubmitSaved`,
  `SubmitSaveFails`, `SubmitRemoved`. The chain of submissions is the single holder
  `admission`. A resubmission of a known identity only reads and is no action.
- **drain** (`:460`) is the operator `Drain`, part of every action whose code calls it.
- **launch** (`:489`): `LaunchStop` and `LaunchPrepare` are the two outcomes of
  `stopBeforeSpawn`, then `LaunchSpawn`, `LaunchStarted`, `LaunchStartSaved`, the wait
  for the child (`LaunchClosed`), the flush of its output (`LaunchFlushed`), the wait
  for the cancel callers and the escalation (`LaunchSettled`), the error paths
  (`LaunchFails`, `LaunchStartSaveFails`, `LaunchAbandoned`) and `publishTerminal`
  (`LaunchPublished`, `LaunchPublishFails`). The last one includes the `finally` of
  `drain`.
- **terminateGroup** (`:615`) is `Terminates` and the flag `escalating`: the group is
  signalled only if its members could be read while its leader was there.
  `ChildExits`, `TimerFires` and `EscalationKills` are the environment.
- **cancel** (`:772`): `CancelAnswered` (nothing to do), `Withdraw` with `WithdrawSaved`
  and `WithdrawFails` for a job still waiting, `RecordBegin`, `RecordSaved`,
  `RecordFails` for one that `launch` owns. A caller whose job leaves the map while it
  waits becomes `"detached"`: it keeps its own reference, as in the code.
- **close** (`:836`): `CloseBegin`, `CloseWaits`, `CloseVisit`, `CloseSaved`,
  `CloseSaveFails`.
- **restart**: `Stop` (as `Crash`, at any moment, or `Exit`, after `close`) forgets the
  memory and keeps the files and the children; `Start`, `LoadJob`, `Loaded` are
  `create` and `load` (`:174`, `:202`).

Abstractions: a job has one fingerprint, so `request_conflict` refusals do not appear;
executable lookup, directory preparation and verification before the spawn are one
step that may fail; a record is its state and its cancel identity; the exit of a child
is 0 or not 0. Two corners are left out. After the spawn `launch` can still fail before its
timer is set (`:530`: a leader that does not lead its own group, which a detached child only
shows if its process id was given to another one; `:546`: the directory handle does not
close, after which the code goes on as if the persist of the start had failed, which is
modelled). And a job directory without `state.json`, which a crash inside the first persist
may leave, is loaded as an `unknown` job (`:212`-`:241`), where the model has no record and
lets the identity be submitted again: that is more behaviours than the code has, and
`SpawnedAtMostOnce` holds in them.

Not modelled in this component: job logs (append, memory budget, lazy loading,
`logsRead`), the `waitTerminal` subscription, and `pruneHistory`, which needs 256
terminal jobs or 24 hours.

### How `EventJournal` corresponds to `daemon/events.ts`

The journal is single-threaded too. `log[gen]` holds every entry that was published, as
its source, and the retained ones are `first..sequence`; the evicted ones are kept only
so that properties can speak of them. What the code holds across its one await (the
wait) is in `request[f]`: the position `after` held before it, and how long it waited.

- **publish** (`events.ts:62`) is `Publish`: append, evict, wake every waiter (`Woken`).
  Eviction by count is exact (`JournalLimit`); eviction by bytes depends on the sizes, so
  it may take any number of entries more as long as `MinRetained` stay: that many of the
  largest entries fit (32 MiB by 256 KiB for each of payload and private payload is 64).
- **read** (`:99`) is `ReadGap` for a cursor of another generation or an evicted one, and
  `Read` for the rest: refused when ahead of the journal or when the waiters are at their
  limit, answered when there is something, else waiting. `Resume` is the page after the
  wait, from the old position and without a second look for a gap.
- **page** (`:154`) is `PageOf`: the cursor of a page passes what is not wanted, and stops
  at the entry that fills the limit.
- **wait** (`:187`): `WaitEnds` is its timer, `Woken` and `CloseJournal` its resolution,
  `GhostEnds` the timer of a reader that is gone and whose `aborted` event never came.
- **close** (`:253`): `CloseBegin` publishes `stopping`, `CloseJournal` releases the
  waiters. The journal still publishes (the jobs are closed after it) and still answers.
- **restart**: `Down` at any moment, `Start` with a new generation, whose first entry is
  `started`. A response that was sent may arrive after the daemon is gone.

A woken reader goes on in a few microtasks. `Burst` bounds the publications in between;
`JournalAssumption` says `Burst <= MinRetained`, which the code meets since only
synchronous publications fit there. It is why `Resume` may skip the look for a gap.

### How `EventFollower` corresponds to `commands/events.ts`

`Poll` is the call (`:97`), `Receive` the validation of the page (`:105`-`:147`: a page
that fails any of the client's demands ends the run as `invalid`), `EmitGap` and
`EmitEvent` print a line each, `PageDone` takes over the cursor (`:170`). A run ends by
`Refused` (an error of the daemon), `Lost` (the connection fails, or the deadline of the
request in `daemon/client.ts:211` has come) or `Stop` (a signal, `--once`, or a daemon that
is not there). `Rerun` is the user who resumes from the last cursor printed, or from
nothing if no line was printed.

Time is counted in ticks, for the two timers that race. A tick passes only while no
message is under way and no wait is due, so a deadline that expires is the code's doing
and not the network's; a slow network is `Lost` at any moment.

Abstractions: an entry is its source (channels filter in the same way), its payload and
the projection of memory content are left out, generations are numbered, cursors are well
formed. Not modelled: `runGatewayLoop`, which publishes what the Gateway streams and its
gaps (`Happen` publishes them), and the follower of a direct Gateway Profile, which
cannot resume.

### How `Keeper` corresponds to `commands/box.ts` and `sandbox/cursor.ts`

Each file operation is a step, since several processes share the files; `stage[p]` is where
a process stands between two of them.

- **acquireKeeperLock** (`box.ts:148`): `Create` is `open(wx)` with its two outcomes,
  `Write` the record, `ReadLock` the read and the decision (alive, stale, second attempt),
  `Take` the rename and the unlink of whatever bears the name by then, the second of which may
  fail and end the keeper. The lock file is
  identified by the process that created it, as an inode is, so a record written after a
  takeover goes to the file that was taken away.
- **runBoxKeepalive** (`:391`): `Start` is the first persist, `Report` the one after a tick,
  `NextTick` the loop, `PersistFails` a rejection of either, before or after the rename;
  `SayStopped`, `ReadOwn` and `Unlink` are the `finally`; a keeper that cannot read its own
  lock, or not remove it, leaves it (`result` is `"failed"`).
- **performKeeperTick** (`:235`) is `Fails`, `NextAttempt` and `CredentialFails`;
  **CursorSandboxClient.tick** (`cursor.ts:413`) is `Ensure`, `Exec` and `Replays`. Answers
  are classes that the code treats alike: `transient` is retried, `permanent` is not,
  `unknown` is a no-op whose outcome is not known, `rate_limited` ends the tick.
- `Abort` is the signal; a request or a wait in progress sees it at once (`Cancelled`), and
  an answer may still arrive first. `Crash` is the end without the `finally`.

Abstractions: each process runs once (a later run is another process); delays are left out,
so jitter and backoff appear only as waits that end or are interrupted; a process id is not
given to another process after its owner died (with one that is, a stale lock looks alive
until somebody removes it). `box status` and `keepalive status` only read.

### How `Filesystem` and `Uploads` correspond to `daemon/filesystem.ts`

An action is again the code between two awaits, or several awaits nobody else's step can
tell apart. A call arrives from `wire`; what it waits for is its place in a queue:
`admission` for opens (`withUploadAdmission`, `:497`) and `locks[t]` for everything that
touches destination `t` (`withTargetLock`, `:481`). The head of a queue holds the lock and
`stage[t]` says whether it has its baseline (`based`) and has looked again (`sure`).

- **runMutation** (`:445`) is `ArriveMutation`: a known identity is answered by
  `Replay`, else `cleanupMutations` (`Kept`, `:417`) makes room, `Enter` records it as
  pending and `Queue` waits for the lock. The ledger `entries` gives each operation in it
  those entered before it, the order of the code's `Map`. Which records are old is left
  open (`Cleanups`), so every expiry of the ten minutes is covered.
- **write**, **makeDirectory**, **trashDirectory**, **remove** (`:726`-`:928`) are
  `TakeBaseline`, `LookAgain` and `TakeEffect`; `GiveUp` is the end without effect and
  `FailMutation` any failure of input, output or authority on the way.
- **openUpload** (`:937`) is `ArriveOpen`, `Admit`, `OpenTemporary` (baseline and
  temporary file) and `PublishUpload`, which looks once more for a tombstone and for
  `close()` (`Unwanted`, `:1027`). **uploadChunk** (`:1078`) is `TakeChunk`,
  **commitUpload** (`:1110`) `CheckCommit` and `CommitUpload`, **cancelUpload** (`:1173`)
  `ArriveCancel`, `CancelUpload`, `NothingToCancel` and `LeaveTombstone`.
- **armUpload** (`:930`) is `ArmUpload`, its timer `Expire`, and `ExpiryKills` is a timer's
  cancel that is rejected with nobody to handle it: the process ends (finding 5).
- **close** (`:1353`) is `Close`, `PassBarrier` (the admission chain) and `Exit`;
  `Crash` ends the daemon anywhere. Both leave the files and forget the memory.
- `AlienWrite` is a program of the box that is not governed.

`FilesystemClient` is `commands/fs.ts`: `HearMutation` and `HearStatus` are `mutationCall`
(`:242`), which asks for the status of a mutation without an answer and never sends it
again; `HearOpen` and `HearChunk` are the loop of `runFsUpload` (`:347`), which sends a
chunk twice (odd and even numbers) and always cancels in the end. `GiveUpWaiting` is the
deadline or a lost answer; the call itself may still arrive at any later time.

Abstractions: content is named by the operation that wrote it; a destination is a parent
and a name, and the checks that keep a path inside its roots are a refusal; a client asks
for one mutation. Not modelled: `stat`, `list` and `read`.

### How `Downloads` corresponds to `daemon/filesystem.ts` and `commands/fs.ts`

`OpenArrives`, `OpenHandle` and `PublishTransfer` are `openDownload` (`:1222`): the
descriptor is opened and hashed between two looks at the tombstones (`Withdrawn`).
`ChunkArrives` and `ChunkRead` are the two sides of the read in `downloadChunk`
(`:1297`), each with a look at the version; `CancelArrives`, `TransferExpires`,
`TombstonesExpire` and `EndTransfers` are the ways a transfer ends. The command is
`StartDownload`, `HearTransfer` (a chunk is asked for again), `DownloadFails` and
`LinkDestination`, which compares the hash and links exclusively.

### How `Gateway` corresponds to `gateway.ts`

`ChooseRoute`, `RequireCapability`, `TryLocalDaemon` and `TryDiscovery` are `daemonFor`
(`:204`), `Load` the discovery that `request` (`:749`) reads before each attempt and its three
refusals in their order: the generation (`WrongGeneration`, `:767`-`:774`), the token that was
refused (`:775`-`:780`), an empty token (`:782`). `GatewayAnswers` and `RequestLost` are
`sendOnce` and `Interpret` the decision to try again after a 401. A daemon on the way uses the
same client and goes on after its caller left (`DaemonAnswerLost`); a request without answer
may arrive late (`LateArrival`).

A Gateway has a generation and a token, which the client compares apart. `GatewayRestarts`
always gives it another generation, and the token it had, an earlier one or a new one.
`DiscoveryChanges` shows the client what a Gateway has by then, or nothing, or no token; so
both halves may be out of date, and a *generation-only change* (`docs/architecture.md:256`) is
a behaviour of the model. For a URL with `gatewayTokenRef` nothing tells the generation: pid
and start time are 0 (`gateway.ts:262`), which a routine write that read through such a
Profile expects (`"untold"`), so the comparison tests nothing there and `WriteVerdict` claims
nothing about generations.

### How `Exec` corresponds to `commands/exec.ts`

`Handshake`, `HearSubmission`, `HandshakeAgain`, `HearAgain` and `ShowJob` are the steps of
`runExec` (`:22`). `SubmissionArrives` is the head of `submitAdmitted`
(`daemon/jobs.ts:417`): the expected generation, then the record under the job id, then the
refusals. `EvictHistory` is `pruneHistory`, `DaemonRestarted` a new generation that loads
what was active as ended. A submission whose caller gave up may still arrive.

### How `Desktop` corresponds to `daemon/desktop.ts`

A prune is `BeginPrune` (the first look at the world), `Classify`, and for each idle row
`LookAgainAt`, `ClassifyAgain` and `StopWindow` (`pruneLocked`, `:376`). What a look sees
is open (`Look`). `KeepAdd`, `KeepRemove` and `SetEnabled` change the memory and begin a save;
`WriteTemporary` and `RenameOver` are the two awaits of `persist` (`:436`), which several
requests may be in at once; `DaemonEnds` loads the file again.

### How `Routines` and `CloudRoutines` correspond to `commands/routines.ts`, `server-routines.ts` and `box-routine-auth.ts`

`Routines` is one create, update, enable, disable or delete: `ResolveAgent`, `ReadBefore`
with the user's expectation, `Write`, `HearWrite`, `ReadAfter`, between which others write
and the Gateway restarts. Errors bear the codes of the code, and the same code comes from both
sides of the write: `gateway_conflict` from the expectation, from the comparison before the
request (`gateway.ts:769`) and from the second read (`commands/routines.ts:205`),
`target_not_found` from both reads (`:464`), `gateway_internal` from a Gateway that failed with
or without having carried the write out. `plan.pinned` says whether answers tell the
generation (they do not behind a static token reference). The later looks at the generation
(`:378`, `:382` and their like) cannot find anything new: `request` and `readSnapshot` have
thrown `gateway_conflict` first, so they have no step of their own.

In `CloudRoutines` every look of `resolveBoxRoutineAuth` at the
Host (discovery, process, health, environment, process again, discovery again) is a step,
and `TakeLockFile`, `ReadKeyFile`, `OpenKeyFile`, `MintWebhookKey`, `RenameKeyFile` and
`ReleaseLockFile` are those of `cachedWebhookKey` (`server-routines.ts:501`); a command may
be killed between any two. A key file that is there but cannot be used (corrupt, unreadable,
open to others) ends the command without a mint, the lock may fail to be taken without another
holder, and its removal may fail.

### How `Bootstrap` corresponds to `bootstrap.ts` and `commands/recover.ts`

`stage` is the position in `bootstrapPeerDaemonOperation` (`:368`): `BeginBootstrap` (SSH,
Node, port), `WriteSecret`, `PrepareRollback`, `InstallDaemon`, `ApplyMapping`,
`VerifyDaemon`; its catch block is `RestoreMapping`, `RollbackDaemon`, `RevokeSecret`; the
command's own end is `WriteProfile` and `RetireSecret`. A remote script that fails may have
done part of its work. `BeginRecover`, `RestoreRecordedMapping`, `EnsureInstalledDaemon` and
`FinalDoctor` are `runRecover` (`recover.ts:109`) and, without the mapping, `daemon ensure`.
Waking the sandbox and waiting for the tailnet change nothing here: they fail, which is one of
the ends of `BeginRecover`, or the command goes on. Of the doctor only the verdict is there.

## 3. The properties

| property | kind | what it says |
|---|---|---|
| `TypeOK` | invariant | types |
| `ConcurrencyBound` | invariant | the counter is the number of launches, and is within the limit |
| `QueuedIsScheduled` | invariant | a queued job is in the queue, in a launch or in admission |
| `NoIdleSlot` | invariant | no slot is free while the queue holds a job |
| `SpawnedAtMostOnce` | invariant | one child per identity over resubmissions, cancels and restarts |
| `SpawnIsRecorded` | invariant | a child has a record on disk |
| `NoInventedOutcome` | invariant | the record of a job whose child lives is not an outcome |
| `AckedCancelNeverSucceeds` | invariant | a job whose cancellation was accepted does not succeed |
| `ClosedIsQuiet` | invariant | what close() leaves behind |
| `NoSpawnAfterStop` | action | no spawn after a cancellation was accepted or close() began |
| `AnnouncedIsFinal` | action | an announced terminal state stands |
| `EveryJobEnds` | liveness | every queued job ends, unless the persist of its cancellation or of close() fails |
| `CloseCompletes` | liveness | close() returns or rejects, whatever it meets |
| `ShutdownInterrupts` | invariant | whichever way close() ends, it leaves no unfinished job that was not told to stop (violated, see 6) |
| `AckedCancelIsDurable` | invariant | an accepted cancellation is on disk (violated, see 6) |
| `TypeOK` (events) | invariant | types of the journal and the follower |
| `PagesAccepted` | invariant | the client rejects no page that the journal answers, and asks for no position ahead of it |
| `WaitersBounded` | invariant | the waiters are the waiting reads, and with those of clients that left stay within the limit |
| `QuietFollowerSurvives` | invariant | no run ends because nothing happened (violated with the default deadline, see 6) |
| `FollowerCatchesUp` | liveness | a follower that keeps running passes every event, without the help of a timer |
| `FeedKept` | refinement | the printed lines are an `EventFeed`: wanted events in order and once, or a gap line, over evictions, lost connections, repeated runs and restarts |
| `OneKeeper` | invariant | at most one keeper of a Profile (violated, see 6) |
| `OneKeeperUnlessRobbed` | invariant | keepers overlap only where a lock file was removed from under its live owner |
| `NotAllRefused` | invariant | keepers that start together do not all refuse for each other |
| `NoLockLeft` | invariant | whatever overlaps or fails to persist, keepers that ended left no lock that they could read and remove |
| `StatusIsTheKeepers` | invariant | the state file speaks of the keeper that holds the lock |
| `ReplayOnlyRefused` | invariant | one no-op identity is sent at most twice, the second time after a refusal |
| `NothingAfterBar` | action | no request follows a rate limit or an unknown outcome in the same tick |
| `StopCompletes` | liveness | a keeper that is told to stop gets through its `finally` |
| `TypeOK` (filesystem) | invariant | types |
| `VerdictsAreTrue` | invariant | "committed" means exactly one effect, an error means none now or later |
| `TombstoneHolds` | invariant | a cancelled upload is not opened by a late open |
| `EverythingOwned` | invariant | temporary files, reservations and open uploads have an owner and an end; uploads are limited |
| `NoLostUpdate` | action | an effect replaces what its operation took for the baseline, but for a foreign write after the last look |
| `EventuallyQuiet` | liveness | locks, admission and uploads are not held for ever |
| `ExpiryIsHarmless` | invariant | a timer's cancel is never rejected (violated, see 6) |
| `DownloadsOwned` | invariant | a cancel wins against its open; descriptors, timers and temporary files have an owner |
| `WriteVerdict` | invariant | a write happens at most once; one that expects a generation only at the Gateway it knows, in that generation or in one that has the same token; a refused token is not sent again; the verdict is true |
| `ExecHonest` | invariant | one admission per record, only in the generation shaken hands with; what is told is true |
| `DesktopKept` | invariant | no kept agent's window is stopped; a save alone leaves what the daemon goes by; overlapping saves never bring back what was replaced before the first of them |
| `ReceiptIsTrue` | invariant | "observed" names a write that happened as reviewed, "unchanged" none; a write whose answer was lost is told as unknown |
| `MintedOnce` | invariant | one key, the stored one, under the proof of one Host |
| `StillReachable` | invariant | the Profile never names a retired credential; success works; "undone" is undone |

## 4. The runs

| run | instance | checks |
|---|---|---|
| `jobs_schedule` | 2 jobs, 1 slot, 1 waiting place, 1 cancel caller, terminal persist may fail, both jobs may leave an orphan that holds a pipe | all safety and action properties but the two below |
| `jobs_live` | two stories: 2 jobs, 1 slot and 1 generation without cancel callers, persists of submit, start and terminal may fail ("busy"); 1 job, 2 cancel callers, 2 generations, persists of cancels, close and load may fail ("restart") | `SpawnIsRecorded`, `SpawnedAtMostOnce`, `EveryJobEnds`, `CloseCompletes` |
| `jobs_rollback` | 1 job, 1 cancel caller whose persist may fail | `QueuedIsScheduled`, violated |
| `jobs_cancel_durable` | 1 job, 1 cancel caller, no failing persist | `AckedCancelIsDurable`, violated |
| `jobs_shutdown` | 2 jobs, 1 slot, the persist of close() may fail | `ShutdownInterrupts`, violated |
| `events_feed` | 1 follower that wants one of two sources, 3 events in each of 2 generations, 2 retained by count and 1 by size, pages of 1, 1 waiter, deadline longer than the poll | all events properties |
| `events_quiet` | the same with a poll longer than the deadline, 1 generation | `QuietFollowerSurvives`, violated |
| `keeper` | 2 keepers beside a lock file that may be left from an earlier one, 2 attempts per tick, persists may fail | all keeper properties but `OneKeeper` |
| `keeper_exclusive` | 2 keepers, 1 attempt | `OneKeeper`, violated |
| `filesystem` | 2 operations at up to 2 destinations, 10 plans (`MCPlans`): two uploads of one file, upload beside remove or write, fenced writes, mkdir beside remove and write; ledger of 1 or 2, 1 or 2 uploads, 1 tombstone, up to 2 lost answers and 1 fault | all filesystem properties but `ExpiryIsHarmless` |
| `fs_expiry` | 2 uploads of one file without chunks, nothing fails | `ExpiryIsHarmless`, violated |
| `services` | the seven services below, one in each behaviour | `DownloadsOwned`, `WriteVerdict`, `ExecHonest`, `DesktopKept`, `ReceiptIsTrue`, `MintedOnce`, `StillReachable` |

Bounds (jobs). Two jobs and one slot make every contention there is: a job is launched, waits
behind another, or is admitted while one is withdrawn; a third adds only length to the
queue, except for FIFO order, which is not stated yet. One cancel caller per job is
enough for its effect, since callers of one job form a FIFO and a later one is only
answered or, after a failure, does what the first did; two are used where a retry after
a failure matters (the story "restart" of `jobs_live`). Two generations show a restart after
any step, and a second restart starts from records that a first one also meets. The two
stories of `jobs_live` begin apart (in "busy" the cancel callers came before there was a job
and were refused) and are kept apart by an action constraint (`Stays`), which forbids the
steps of the environment and the failures of persists that belong to the other. `FailingSaves` names the
callers of `persist()` that may see it reject; each kind is exercised by some run, and
withdraw failures are left out where `QueuedIsScheduled` is expected to hold because of
finding 1. `HoldsPipe` is empty in the liveness runs: a descendant whose group can no
longer be identified is left alone on purpose (`docs/product-contract.md:465`), and then
neither the launch nor close() has a bound.

Bounds (events). Followers share only the waiters; one follower that comes back while the
wait of its last run is still there competes with itself for the single waiter. Three
events with one or two retained put the cursor before, at and after the edge of what is
retained, and a page of one event leaves a second page behind. Of the two generations the
first shows every eviction and the second every foreign cursor, also with numbers equal to
those of the first.

Bounds (keeper). Two processes make each race on the file, with the left-over file as a third
owner; the number of ticks is not bounded. Two attempts are one that may be followed by
another and one that may not.

Bounds (filesystem). The locks, the reservations and the ledger are about pairs: two
operations of one destination are a holder and one that waits, and two of different
destinations share the ledger, the limit of uploads and the admission. A plan fixes who
asks for what, so that each pair of verbs that can disturb the other is there without the
product of all. Two chunks are one that is followed by another and a last one; a ledger of
one entry has to evict for the second operation, a limit of one upload refuses it, and one
tombstone is a table that the second cancel saturates. `timeouts` bounds the callers that
stop waiting, and `faults` the ends of the daemon and foreign writes together: one of them at any
step is enough, since after a restart nothing of the memory is left to be disturbed twice.

Bounds (services). Seven modules that share no variable are checked by one run: `service`
chooses one, the others stay in one initial state, so the states are the sum and not the
product of theirs. Downloads: 2 transfers over 2 chunks, 1 change of the file and 1
tombstone, so that one cancel finds the table full. Gateway: 2 restarts, so that a token can
be stale at both attempts, come back, or stay over a generation-only change. Exec: 2 restarts
and 2 evictions, one before each submission.
Desktop: 2 agents, 2 commands that overlap each other and a prune, any number of restarts.
Routines: 2 routines in a window of 2, 2 foreign writes, 2 generations. Cloud: 2 commands, 3
Hosts. Bootstrap: 3 credentials and 2 restarts of the box: one that worked, one that fails and
one that is tried again.

`CHECK_DEADLOCK FALSE`: the models may stop, when every identity has been used and the
last generation was closed, when no event is left to publish, when every keeper ended, or
when every command was told its outcome.

Fairness (`Fairness` in `EventFollower`). The daemon answers a read that it can answer, the
client goes on with its loop, and a request that died with the daemon fails. Timers,
publications, restarts and users are not fair, so `FollowerCatchesUp` would fail if a
wake-up were lost and only the end of the wait helped.

Fairness (`FairSpec` in `Keeper`). A process that runs goes on: its requests and its waits
end by their timers or by its signal. Nobody has to start, stop or kill it.

Fairness (`Fairness` in `FilesystemClient`). One weak fairness condition: whoever has a lock
or its turn in the admission goes on, timers fire and close() is finished. Callers, the
network and the order of these steps are free, so `EventuallyQuiet` says that the daemon
frees its locks and uploads without the help of a client. The services are checked
for safety only.

Fairness (`Fairness` in `Jobs`). Three weak fairness conditions: a continuation of the
submission, which is the head of a promise chain; any other continuation of the event
loop (a persist, a launch, a cancel caller, close()); a timer or the kernel's reaction to
a kill. Each is the fairness of the union of its steps: the event loop never stops while a
continuation is ready, and a promise chain is served in order. Nothing is assumed of
clients, of a child that runs (the run timeout bounds it), of a crash or of a restart.

## 5. The proofs

Every type invariant, every safety invariant and every action property of the passing runs
is a theorem for all values of the constants, and so is the refinement of `EventFeed`.
Liveness stays with TLC. What a proof assumes of the constants is the ASSUME of the module:
finite sets of jobs, keepers, operations, destinations and followers, limits that are
numbers, and names that differ: "nobody", "nothing" and "no command" are not one of the
things they stand beside (`RecordAssumption`, `NoneAssumption`, `FilesystemAssumption`,
`DesktopAssumption`). Where a theorem assumes more it says so, and below it says why.

Invariants are proved the same way everywhere: an inductive strengthening, checked with TLC
before its proof; lemmas that say what the operators do; one lemma for each action or group
of actions; and a last step that combines them.

### The jobs (`JobsProofs`, `JobsSafetyProofs`)

`JobsProofs` has the scheduler, with any set of failing persists:
`SchedulerCorrect` (`SchedulerInv`), `TypeCorrect` (`TypeOK`), `ConcurrencyBounded`
(`ConcurrencyBound`).

`ConcurrencyBound` is not inductive. `drain` raises the counter for the job it takes from
the queue; that is the number of launches only if the job is not being launched already,
so the queue must not repeat a job nor hold one that is in a launch (`QueueInv`). Three
handlers put jobs in the queue or take them out after an await: the submission (its job
must not be in the queue yet nor be launched, `AdmissionInv`), a cancel caller that rolls
back (its job is cancelled and not launched, and no second caller holds it, `CallInv`),
and a launch that ends (its job is in the map, `LaunchInv`). What a persist in flight and
close() hold (`SaveInv`, `CloseInv`) is needed for the types: a snapshot is a record only
if its job is in the map. `DrainSettles` says what `drain` does, so that the actions that
call it are proved without opening it.

`JobsSafetyProofs` follows one job. Its theorems assume as few persists to succeed as they
can, `FailingSaves` being the kinds of persist that may fail:

| assumed | theorem | property | what it adds to `SchedulerInv` |
|---|---|---|---|
| nothing | `SpawnsOnce`, `SpawnsRecorded` | `SpawnedAtMostOnce`, `SpawnIsRecorded` | `LifeInv`: where launch() stands tells the state of its job, a job of the map has a record unless its first persist is in flight, and an identity that has spawned is out of reach of every handler that could spawn again |
| nothing | `NeverIdle` | `NoIdleSlot` | `DownInv`: nobody waits while no daemon is up |
| withdrawals are saved | `QueuedJobsScheduled` | `QueuedIsScheduled` | |
| submissions are saved | `NothingSpawnsAfterStop` | `NoSpawnAfterStop` | `AdmittedInv`: a cancel identity comes with an intent or with the caller that sets it; an admitted identity stays in the map; nobody can withdraw what an accepted cancellation stands for |
| submissions are saved | `CancelledNeverSucceeds` | `AckedCancelNeverSucceeds` | `EndedInv` and `NeverInv`: not in the map, not in an event, not in any record on disk or in flight |
| both are saved | `OutcomesNotInvented`, `QuietOnceClosed`, `AnnouncedStays` | `NoInventedOutcome`, `ClosedIsQuiet`, `AnnouncedIsFinal` | `KeptInv`: no outcome of a living child is on disk or on its way, close() has visited every waiting job, and no handler is left that would change what was told |

The hypotheses are necessary: TLC finds a counterexample without each. If a withdrawal's
persist fails, its rollback leaves a job queued and in no queue (finding 1). If a
submission's persist fails, the identity is removed and may be submitted again while a
cancel caller of the first one is still waiting; its persist then writes over, and its
answer speaks for, the new incarnation. And if both may fail, the record of a submission can
be the snapshot of a cancellation that was rolled back. The runs that check these
properties stay within them, but for `jobs_rollback`, whose finding is the first.

### The events (`EventProofs`)

- `FeedCorrect` (`FeedInv`) and from it `FeedTyped` (`TypeOK`) and `PagesPass`
  (`PagesAccepted`). `FeedInv` says what is on its way: a read that waits or was woken is
  behind by what was published since, at most `Burst`, and all of that is still retained
  (`WaitInv`); an answer is a valid page that tells all that is wanted after the cursor, or
  after its gap (`AnswerInv`); the rest of a page goes on where the lines end (`PageInv`).
- `WaitersFit` (`WaitersBounded`) and `QuietIsNoFailure` (`QuietFollowerSurvives`, assuming
  `LongPoll < Timeout`; the defaults violate this, finding 3).
- `LinesAreAFeed`: `Spec => FeedKept`, the refinement. The lines and the place they reach are
  the state of `EventFeed`; a line is a step of the feed (`LineTells`), a page without wanted
  lines passes events over (`PagePasses`), a run that starts again goes on where the last
  printed cursor is (`RerunPasses`), a publication is one (`JournalTells`), and every other
  step is a stutter (`StepsTell`).

### The keepers (`KeeperProofs`)

`KeeperTypeCorrect` needs that a keeper waits for another attempt only if it has one
(`BackoffInv`). `LockCorrect`: as long as no live owner lost its file, who writes the record
or keeps has the lock file. `open(wx)` succeeds only without a file, so a second owner needs
the file to go, and a file goes only by the hands that `robbed` records, or with its owner
past keeping; this is `ExclusiveUnlessRobbed` (`OneKeeperUnlessRobbed`). `ReleaseCorrect`
says whom a lock file may belong to, and that a keeper is refused only where another has
created one; it gives `OneIsAdmitted` (`NotAllRefused`) and `LockIsReleased`
(`NoLockLeft`). `StatusIsKept` (`StatusIsTheKeepers`), `ReplayAfterRefusal`
(`ReplayOnlyRefused`, from `NoopInv`: during a tick its identity is unsent or refused) and
`NothingSentAfterBar` (`NothingAfterBar`) complete it.

### The filesystem (`FilesystemProofs`)

`FilesystemTyped` shows the types of the queues together with `OpenInv`: an open that has
reached a queue is the head of the admission chain, so there is one at a time. On this rest

- `TombstonesHold` (`TombstoneHolds`): an open looks at the tombstones in the step that
  publishes it;
- `EverythingIsOwned` (`EverythingOwned`) from `OwnInv`: room was there when the one open was
  let in and nobody else takes it (`RoomInv`), a temporary file is of an open upload or of the
  holder of its lock (`TempsInv`), reservations and uploads name each other (`ReservedInv`),
  and an upload without its timer has the timer's cancel in the queue (`ArmedInv`);
- `NothingGovernedIsLost` (`NoLostUpdate`) from `SureInv`: between the last look and the
  rename a destination changes only under the hand of a program that is not governed;
- `VerdictsHold` (`VerdictsAreTrue`) from `VerdictInv`, which follows an operation through
  wire, admission and queues: which calls can exist for which kind of operation (`KindInv`),
  each in one place (`OnceInv`), what may still lead to an effect has had none (`EffectInv`),
  and what is recorded, answered or told is true and stays so (`TruthInv`: an error is told
  only when nothing that is on its way can have the effect any more);
- `FilesystemTypeCorrect` (`TypeOK`): the ledger holds operations and those entered before
  them (`LedgerTyped`), no more chunks are sent or taken than there are (`ChunkInv`), and
  counts stay within their bounds (`CountsTyped`).

### The services (`ExecProofs`, `CloudProofs`, `ServicesProofs`)

`ExecTypeCorrect` (`ExecTypeOK`) and `ExecIsHonest` (`ExecHonest`). `ExecInv` adds what the
honesty rests on: before the handshake nothing is under way (`FreshInv`); an identity
without a record may be admitted once more for each eviction (`HistoryInv`); only an
admitted job has a record, a waiting caller or an answer (`ShownInv`); and while the first
submission is the only one, a refusal of it is final (`FirstInv`), so that the outcome
"failed" leaves nothing that may still be admitted (`ToldInv`). The last is not inductive
alone: a refusal heard while a second submission is under way says nothing, which is why
the second refusal is told as an error.

`CloudTypeCorrect` (`CloudTypeOK`) and `KeyMintedOnce` (`MintedOnce`). `MintedOnce` is not
inductive: nothing in it says why looks that agree in turn are looks at one Host, nor why
the next command does not mint. `CloudInv` adds both. The generations of the Host only
grow, so each look bounds the next, and when the last agrees with the first they are all
equal (`ProofInv`). The holder of the lock file is alone (`LockInv`); who is about to mint
holds it with nothing minted, and a minted key that is not stored keeps the lock for good,
through `preserveLock`, a kill or the holder itself (`MintInv`); an outcome told as unknown
keeps it too (`UnknownInv`).

`ServicesProofs` has one theorem for each of the small models:

- `DownloadsAreOwned` (`DownloadsOwned`): a cancelled id is not even about to be opened;
- `DesktopsAreKept` (`DesktopKept`): a save that is alone has written what memory holds, every
  text that a save still has to write was memory since the first of the overlapping ones
  began, and what was kept when a prune looked and still counts is kept now;
- `ReceiptsAreTrue` (`ReceiptIsTrue`): where the routines can differ from the first read
  before a write (`UnwrittenInv`), after a create (`CreateInv`) and after a change of one
  (`ToggleInv`), while others have written at most once; and after the write only an
  acknowledged one reaches the second read, whatever code the others are told with;
- `VerdictsOnWrites` (`WriteVerdict`): before the last attempt of a write nothing has been
  carried out and no request is left behind (`AttemptInv`), and a discovery that tells the first
  generation of a Gateway tells its first token or none (`ToldInv`), which is then the token of
  every request of a write that expects it (`TokenInv`);
- `StaysReachable` (`StillReachable`): only the newest credential is ever revoked and the
  Profile names an older one until it names this one (`CredentialInv`), what the rollback needs
  is there and what it has restored is as it was (`RollbackInv`), and what success tells is
  installed (`InstalledInv`).

### Only model-checked

`CloseCompletes`, `EveryJobEnds`, `FollowerCatchesUp`, `StopCompletes` and `EventuallyQuiet`:
liveness under fairness needs ENABLED, which is out of the prover's reach. So is induction
over data: no module uses a RECURSIVE operator, and operators that take operators
(`SelectSeq`, `SmallestNatural`) are avoided where something is proved. That is why the ledger
of the filesystem is not a sequence but a function: each operation in it with those entered
before it, which orders them as the `Map` of the code does.

## 6. Findings

1. `jobs_rollback`: a cancel that meets its job while the submission is being persisted,
   and whose own persist then fails, puts the state back to `queued` but the job in no
   queue (`jobs.ts:813`). `test/jobs.test.ts:215` says that a failed queued cancellation
   triggers scheduling again.
2. `jobs_cancel_durable`: the persist of the submission, begun before a cancel and renamed
   after it, replaces the cancelled record although the cancel was acknowledged
   (`jobs.ts:371`). `docs/product-contract.md:465` says a caller is released after a
   durable persist or a complete rollback.
3. `events_quiet`: the follower asks the daemon to wait for min(timeoutMs, 25 s)
   (`commands/events.ts:103`) under a deadline of timeoutMs for the whole call. With the
   default of 10 s a quiet feed is a lost response as likely as an empty page, and the run
   ends; `commands/jobs.ts:87` and `commands/exec.ts:48` subtract 100 ms for this.
4. `keeper_exclusive`: the lock file is created empty and written afterwards, and a stale
   file is renamed away by its name and not by what was read (`box.ts:160`, `box.ts:180`), so
   two keepers may run. `docs/product-contract.md:478` calls it a single-instance lock.
5. `fs_expiry`: the inactivity timer of an upload discards the promise of its cancel
   (`daemon/filesystem.ts:933`). If it fires while the commit works and another open of the
   same path is waiting, the cancel is queued behind that open, whose reservation then
   rejects it (`:489`); the unhandled rejection ends the daemon and the ledger that
   `docs/architecture.md:233` promises for ten minutes.
6. `jobs_shutdown`: close() persists a launching job without a guard (`jobs.ts:846`). When that
   rejects, close() rejects in the middle of its sweep: jobs behind it are not told to stop, a
   running one is not signalled, and launches and escalations are not awaited.
   `docs/architecture.md:248` says that a graceful shutdown interrupts admitted work.

Remarks, met while modelling and consistent with the models, on which no run is spent:

- Filesystem. While the table of tombstones is saturated every new open is refused, but an
  open that passed the admission before is published although it was cancelled. Temporary files of a daemon that ended are never cleaned
  up. A commit sent twice may be answered `fs_conflict` although the first committed, if
  another upload has reserved the path in between.
- Exec. If the second handshake fails with another error than a lost connection, or the second
  submission is refused, that error is told although the first submission may have been
  admitted (outcome `error`, of which `ExecHonest` says nothing).
- Desktop. Two saves that overlap (`desktop.ts:436`) may leave the older list in the file, so
  that a change told as done is lost with the daemon; `DesktopKept` bounds how old it can be.
  A keep that is acknowledged after the last look
  of a prune does not stop the window that was decided on.
- Routines. After an acknowledged write a failed second read is told as the failure of the
  read (`commands/routines.ts:381`, `:460`, `:532`, `:648`), where
  `docs/product-contract.md:369` promises `operation_outcome_unknown`; and a 5xx after the write
  was carried out is told as `gateway_internal`. No error code tells whether the write
  happened, so `ReceiptIsTrue` claims only that a lost answer is told as unknown. The Gateway has no
  compare-and-swap, so `ReceiptIsTrue` allows two foreign writes to imitate ours. A killed
  command leaves the lock of the webhook key for ever, on purpose.
- Bootstrap. An install that stops because it cannot identify the running daemon leaves the new
  file beside the old daemon, and a later rollback restarts by that file. After a fresh
  bootstrap whose mapping could not be removed, every rerun refuses the port until the mapping
  is removed by hand. A failure after the handshake leaves the new daemon with the old Profile
  (`late`).

## 7. The plan

Done, in the order of importance: `Jobs`, `EventJournal` and its follower, `Keeper`, the
filesystem with its client, `Downloads`, `Gateway`, `Exec`, `Desktop`, `Routines`,
`CloudRoutines`, `Bootstrap`.

What is left to model: an abstract `JobService` (what a client may see of one job) that
`Jobs` implements and `Exec` uses; the Gateway's event stream as a publisher of the journal;
`pruneHistory` with its late removal of directories; the limits of connections in the host.

Theorems to come: what holds of the jobs when a submission's persist does fail, stated of one
incarnation of an identity; that a journal without a crash loses no event; and, if the
abstract `JobService` is written, its refinement.

Not modelled, for good: ProcessAuthority (a check without state), agent export (one
sequential pass), the command table, parsing and output, diagnostics, quota and redaction
(read-only), the roster, memory, history and send commands (one or two Gateway calls each, whose
failures are those of `Gateway`), and the scripts for release and observation.
