# A verification of goatcli

`goat` is the launcher of an engine it does not contain: it finds an installed
engine, verifies it, starts it inside a process container and lends it a
credential over a private pipe; it logs the user in and out; and it replaces
the engine by signed updates that it fetches, verifies, installs and, when need
be, takes back. This directory holds TLA+ models of the parts of it that can go
wrong in ways a unit test does not reach, the TLC configurations that check
them on small instances, and theorems about them that TLAPS checks for every
instance. Paths below are relative to the repository, `update/` standing for
`src/update/`.

- [1. The system](#1-the-system) - components, state, operations, what is hard
- [2. The modules](#2-the-modules) - what models what, action by action
- [3. The runs](#3-the-runs) - what is checked, bounds, fairness
- [4. The proofs](#4-the-proofs)
- [5. Where the code and its texts differ](#5-where-the-code-and-its-texts-differ)
- [6. What is not modelled](#6-what-is-not-modelled)
- [7. Plan](#7-plan)

## 1. The system

| Component | State it keeps | Operations | What is hard |
| --- | --- | --- | --- |
| Update lock (`update/lock.ts`) | one SQLite row: owner pid, start time, owner and authority tokens | acquire in two transactions, probe the recorded owner, run the recovery callback, release | several launchers interleave; any dies at any step; pids come back; SQLite never waits |
| Durable records (`journal.ts`, `activation-record.ts`, `state.ts`, `receipt.ts`, `metadata-checkpoint.ts`, `durable.ts`) | append-only, hash-chained files: a journal per transaction, the activation chain, updater states, target receipts, metadata checkpoints | load and validate a chain, append a record by temporary file, `link`, `unlink` | five stores that name one another and cannot be written in one step |
| Recovery (`recovery.ts`, `rollback.ts`) | none of its own: a plan in memory | plan read-only, close commit gaps, clean up, quarantine and rebuild the state, synchronise, validate or roll back, close journals, prune slots | it may itself die, and must accept every state it or an update may leave |
| Update transaction (`updater.ts`, `activation.ts`, `selection.ts`, `temporary.ts`) | transaction id, candidate, journal phase; the staged tree | the fifteen journaled phases from `check` to `recover` | a crash or an exception between any two durable writes; channel switches; revocation; reinstalling what was rolled back |
| Release slots (`slot-seal.ts`, `installed.ts`) | one directory per installed release, sealed by digest | place by two renames, validate, remove superseded ones | removals that fail; an inspection that reads three stores one after the other without the lock |
| Metadata and trust (`metadata.ts`, `metadata-client.ts`, `schema.ts`, `trust.ts`, `canonical-json.ts`, `code-signing.ts`, `policy.ts`) | trusted versions and digests, trusted time; checkpoints, metadata bundles, receipts | fetch a set file by file, authenticate, checkpoint it, persist a receipt, load all of them again | the publisher goes on between two fetches; mirrors that lag; clocks; rotated and revoked keys; crashes between the records |
| Transfer and checks (`network.ts`, `download.ts`, `archive.ts`, `hash.ts`, `compatibility.ts`, `health.ts`) | a held artifact | download within bounds, unpack, verify, probe | limits, redirects, a file that changes while held |
| Credential session (`privacy/credential-session.ts`, `auth/client.ts`, `auth/credentials.ts`) | stored credentials, a table of refreshes in flight | reuse, refresh once, store, discard | single-use refresh tokens shared by processes that do not exclude one another |
| Login, logout, usage (`auth/`, `commands/`) | device authorization | poll, store, revoke | polling intervals and expiry |
| Launcher IPC (`privacy/launcher-ipc*.ts`, `node-transport.ts`) | sequence numbers, the request in flight, HMAC key, response queue | open, update, clear, end, dispose | a timer, an abort and an answer racing; answers early, cut or repeated |
| Engine launch (`engine/launch.ts`, containments) | child process, guard process, signal listeners, IPC session | contain, spawn, bind, forward signals, release, terminate, clean up | exit, error, signal and IPC failure in any order; a guard that is late, lost or stopped; the launcher's own death |
| Engine discovery (`engine/validate.ts`, `contract.ts`, `npm-package.ts`, `platform.ts`) | none | find and check an executable | sequential |
| Release policy (`privacy/release-policy*.ts`) | none | check a generated, signed constant | pure |
| Command line (`cli.ts`, `commands/`) | none | dispatch, print | sequential |
| Native helpers (`native/`) | installed files; a process handle | bootstrap installation, Windows process creation | replacing files in place |
| Scripts (`scripts/`) | none | package checks at build time | not part of the program |

How they interact. `goat update` runs under the update lock:
`acquireUpdateLock` opens the lock's database, claims its row and calls, while
it holds the lock, the recovery callback `recoverInstallation`; only when that
returns does `runLockedUpdate` begin, which asks the metadata component for a
target, the transfer component for a verified tree and `activateCandidate` for
its activation. All three leave durable records; the next launcher reads
nothing else. `goat` itself reads the same records without the lock
(`inspectInstalledEngine`), starts the engine, and serves it one credential
over the IPC session, which the credential session refreshes when it must.

What makes each of them correct:

- **lock** - one launcher at a time recovers or updates; the row names it; what
  a dead launcher leaves behind keeps nobody out;
- **records and recovery** - whatever a crash leaves, the next recovery accepts
  it, completes or undoes the interrupted transaction and hands over an
  installation whose stores agree;
- **update** - sequences only rise, except by a rollback to the activation just
  before; nothing revoked is activated; the current release and its rollback
  target stay on disk;
- **inspection** - a launch that looks on while an update runs is refused only
  for a cause, and never starts a release that was revoked when it began to look;
- **metadata** - what was accepted once is accepted on every later reading; what
  is trusted is what one publication said, and never goes back; no history of
  updates, interrupted or not, shuts the publisher's current set out, as long as
  root keys are handed over without cross-signing (section 5);
- **credentials** - no token is used that the keyring did not take; the keyring
  and the control plane agree on the session; nothing useless stays stored, and
  no session stays open that nobody can use or end;
- **IPC** - one credential at a time is lent, and between two requests both sides
  agree on which; a request is settled in bounded time; the end of the session,
  however it comes, takes the credential back;
- **launch** - the promise settles once, whatever order exit, error, signal and
  session take; when it resolves, engine and containment are gone; nothing of the
  engine outlives a launcher that dies.

`PROJECT.json` lists the hazards one by one, each at its line.

## 2. The modules

```
UpdateLock   <---- MCUpdateLock, UpdateLock_proofs
     (at most one launcher is in the steps below)
UpdateStore  <---- UpdateRecovery ----+
          ^------- UpdateTransaction -+--> UpdateInstall <---- MCUpdateInstall
                                              |    ^
                                              |    +-- UpdateInstall_proofs
                                              |              <---- UpdateSlots_proofs
                                              +-- implements ActivationLedger
                                                                  | (is the updater of)
UpdateMetadata <---- MCUpdateMetadata,                            v
     (what          UpdateMetadata_proofs
     authenticates)                    InstalledEngine <---- MCInstalledEngine,
                                                             InstalledEngine_proofs
CredentialSession <---- MCCredentialSession, CredentialSession_proofs

LauncherIpc <---- MCLauncherIpc, LauncherIpc_proofs
     +-- implements CredentialLoan
                  | (is the session of)
                  v
EngineContainment <---- EngineLaunch <---- EngineLaunch_proofs
```

**UpdateLock** (`update/lock.ts`). `row` is the committed row; `shared` and
`reserved` are SQLite's two file locks, which a killed process loses; `pc` is
where each process is. `TakeShared` and `Begin` are the two halves of
`BEGIN IMMEDIATE`, `Observe` reads the authority, `Probe` asks whether the
recorded owner runs, `Claim` is the compare-and-set with its `COMMIT`, `Rebegin`
and `Verify` the second transaction, `Recover`, `Update` and `Release` what
happens under the lock. A connection has timeout 0, so a taken lock is an error
at once. `Crash` kills a launcher between any two steps; `ForeignStart` gives a
dead launcher's pid to another program, and `Start` may run a launcher under
the pid the row still names.

**UpdateStore** holds what is on disk and what the code computes from it. A
record is modelled by what a reader extracts from it: a journal by its last
phase, its release and the generation it names; an activation by its reason,
release and the seal of its slot; the state by its counters. A release stands
for its target, artifact, receipt and slot, which name one another by digest;
`slots[r]` is the transaction that sealed the slot, 0 when there is none.
`linked` is the store whose newest record has been published by `link` and not
yet relieved of its temporary name; `torn` are the stores left so by a crash.

**UpdateRecovery** (`recovery.ts`, `rollback.ts`) and **UpdateTransaction**
(`updater.ts`, `activation.ts`, `selection.ts`) are the two programs that act on
it, one action per durable write or removal. In recovery: `Plan`/`RefusePlan`
(the read-only phase: at most one open journal, each of them consistent with
the chain, receipts within the checkpoints, a state at most one step behind),
`Materialize` (empty journals and commit gaps), `CleanTemporaries` and
`RefuseTemporaries` (a temporary name that is still a record's second one is not
removed), `QuarantineCorruptState`, `ReconstructState`, `RefreshState`, `AdvanceReceipts`,
`SynchronizeState`, `ValidateCurrent`, `AppendRollback`, `RecordRollback`,
`RemoveProvisionalSlot`, `CloseJournal`, `PruneSlots`. In the transaction:
`InitializeState`, `CreateTransactionPaths`, `CreateJournal` (a directory without
a record), the `Transition`s
that only record a phase, `AuthenticateMetadata` (the checkpoint),
`RefreshMetadata`, `Select`, `FindOrPersistReceipt`, `AdvanceState`,
`ConfirmCurrent`, `PreparedRollback`, `PlacePending`, `PlaceSlot`,
`CommitUpdate` (the commit point), `ActivationCommitted`, `RecordActivation`,
`CleanupTransaction`, `PruneSuperseded`, `Finish`. A check that can fail has an
action that throws or refuses; a check that never fails is only a guard, and if
it could fail the model would deadlock, which the runs look for.

**UpdateInstall** composes them with `Start`, `Crash`, `Fail` (an external step
throws), `DamageSlot` and `LoseState`. There is one `pc` because UpdateLock
shows that there is one launcher in these steps.

**ActivationLedger** is the abstract specification: releases are authenticated
in rising sequence, an update installs the newest authenticated release above
all that was ever installed, a rollback repeats the activation just before,
revocations only grow and nothing revoked is installed. UpdateInstall
implements it with `authenticated <- receipts`, `revoked <-` what the newest
checkpoint revokes and `history <-` the releases of the chain.

**CredentialSession** (`privacy/credential-session.ts`, `auth/credentials.ts`,
`commands/login.ts`, `logout.ts`, `usage.ts`) is the one place where commands
that do not exclude one another share a store. `keyring` is the stored set, of
which only the refresh token's identity and whether it has a device matter;
`caller` is what each invocation does, with its local variables; `table` is
`activeRefresh`, which joins launches of one auth client (`ClientOf`; the
production `cli.ts` makes one per invocation). The control plane is external:
`session`, `live` and the operators `Answers` and `Revoke` say that a token is
rotated once, that using it again, or revoking any token of a session, ends the
session, and that a request or its answer may be lost. All commands begin with
`Start` and `GetCredential` or `GetNothing`; `FirstStep` is where they part.
`JoinRefresh`, `SendRefresh` and `ReceiveReply` are `refreshWithMutex`;
`SetCredential` and `VerifySet`/`VerifyFails` the two halves of `store.set()`;
`RevokeSession` and `DeleteCredential` are `discardUnstoredCredential`, and
`logout` too; `Lend` and `QueryUsage` use the access token; `PollDeviceToken`,
`ProvisionDevice` and `RevokePrevious` are the rest of `goat login`. `stale`
and `lapsed` are what the clock does to an access token and to a refresh token.
`verified` records what was ever read from the keyring, for one property.

**UpdateMetadata** (`metadata-client.ts`, `trust.ts`, `metadata-checkpoint.ts`,
`receipt.ts`, and `findOrPersistReceipt` of `updater.ts`) is what an update
believes about releases, and `AuthenticateMetadata` of UpdateTransaction takes
only the outcome of. The publisher is external: `Release`, `Rotate` and `Revoke`
make one publication after the other, each of which signs timestamp, snapshot
and targets anew, with its own number as their version. A key is named by its
role and the root version that introduced it. `Rotate` may add, keep and drop root
keys; the new root is signed with the keys it lists, and with those of its
predecessor too when the two have none in common, since both sets must have signed
it. `Fetch` takes each file of a set
from a publication of its own, at most `MaxLag` back. `Authenticates` is what
happens to a fetched set: `Constructs` is the constructor of the trust store, which
is made anew from the trusted root each time, and the rest
`authenticateInternal`, with one conjunct per check; `Authenticate` stores the
set, `AppendCheckpoint` appends its checkpoint, `Select` refuses a downgrade and
writes the receipt; `Stop` is an error or a crash anywhere in between. `Start`
does what recovery does first: `Load` authenticates every checkpoint again from
the embedded root, `Reconstructs` all receipts together, and bundles no
checkpoint names are removed.

**InstalledEngine** (`installed.ts`, `launch.ts`) is `inspectInstalledEngine`,
which takes no lock. `ReadState`, `ReadChain` and `ReadCheckpoints` are its three
reads, `Retry` and `Decide` the comparison of two attempts, `Validate` and
`OpenExecutable` the rest of the way to a running engine. Between any two of
them the updater takes steps: `InitializeState`, `AppendCheckpoint`,
`Authenticate`, `Activate` (by an update or a rollback, as ActivationLedger has
it), `RecordState` and `PruneSlots`; each record has two names until `Unlink`,
and a reader that meets it then is refused. Recovery's quarantine of the state
and a crash of the updater add nothing a reader can see but a state that stays
away or stays behind, which an updater that takes its time does as well.
`before` is what there was when the attempt began, for the two properties.

**LauncherIpc** (`privacy/launcher-ipc.ts`, `node-transport.ts`) is the session
by which the engine gets its token. Node runs one callback, and all the promises
that resolve because of it, before the next: each is an action. `Open`,
`SendContinuation`, `EndWhileSending` and `Abort` are calls of the owner;
`BootstrapWritten`, `FrameWritten`, `WriteFails`, `Receive`, `PeerClosed` and
`Deadline` callbacks; `Dispose` what all failures come to. `OpenThrows` and
`ContinuationThrows` are a random number that cannot be drawn, after `sending`
is set or a key made. `stage` is the await that the request is in. A frame is its kind,
sequence number, token and whether its key was zeroed by then; a response is a
length and a body, which may come apart (`Receive(k)`). The engine is external,
but not trusted to behave: it answers, refuses, closes its end, and with
`EngineStrays` sends lengths over the limit, halves, wrong tags, other sessions
and acknowledgements it has given before. **CredentialLoan** is the abstract
session: offers that are answered one by one, or end with the loan. LauncherIpc
implements it with `offered <-` the request in flight, `lent <-` the last one
acknowledged and `ended <-` disposed.

**EngineContainment** (`process-containment.ts`, `macos-process-containment.ts`,
`windows-privacy-spawn.ts`, `platform.ts`) has the processes: the launcher, the
engine's tree, any subset of `Processes` (the engine and what it may start), and
the guard - on win32 a PowerShell process that holds the only
handle of a kill-on-close job, on darwin a watchdog that signals the engine's
process group. **EngineLaunch** (`launch.ts`, `launcher-ipc-v2.ts`, `cli.ts`) is
the launcher beside them: `CreateContainment`, `GuardOpen` and `GuardReady`
bring the guard up, `Spawn`, `SpawnFailsLater` and `SpawnThrows` are the three
ways a spawn goes, `AttachListeners` and `BindFails` what follows. From then on
everything is a callback: `ChildExit`, `ChildError`, `ForwardSignal`,
`ProviderReturns`, `SessionOpens`, `SessionFails`, `ReleaseSettles`,
`ReleaseTimesOut`; `Exit` and `Crash` end the launcher, `GuardDies` ends or
stops the guard. Of the session inside it, this module has what CredentialLoan
says: it is opening, open or over.

The **_proofs** modules hold the theorems. The `MC` modules define the
instances. Definitions named `Wrong...` are faulty variants of the definition they stand before; no
specification uses them, they show that the properties notice such a fault.

## 3. The runs

| Run | Question | Bounds | States |
| --- | --- | --- | --- |
| `lock` | Does the lock exclude, keep naming its owner, and let a lone launcher in? | 3 pids, 4 launcher runs, 2 kills, pid reuse, symmetric pids | 1.6 million |
| `install` | Is everything crashes, damage and lost states may leave accepted, cleaned up and consistent, is a transaction always resolved, and do the stores implement the ledger? | 3 transactions, 2 faults, torn records, 1 damaged slot, 1 lost state, 4 releases on 2 channels, 1 revocable | 1.4 million |
| `credential_alone` | Does a command that runs alone, and may fail anywhere, leave keyring and control plane agreed? | 1 caller, 4 tokens, 2 faults | 1.4 million |
| `credential_shared` | Do launches, usages and logouts that race leave a session behind? | 3 callers with their own client, 3 tokens, no fault | 1.6 million |
| `credential_client` | Is a token used only when stored, and its device kept, when a refresh is shared? | 2 callers with one client, 3 tokens, 1 fault, every command but login | 0.36 million |
| `ipc` | Do launcher and engine agree on the token whatever is late, lost or wrong, and does the session implement the loan? | 4 frames, 2 tokens, a queue of 3 parts, 2 faults | 98 536 |
| `launch` | Does a launch settle cleanly, and end everything, in every order of events? | an engine with 2 helper processes; nothing else is bounded | 27 226 |
| `metadata` | Does a client stay consistent, monotone and admitted over any history of updates? | 4 publications, 2 channels, lag 1, clocks 0 and 3, lifetime 2, 2 further roots, advance 2, 2 checkpoints | 4.6 million |
| `installed` | What may a launch be told while an update runs? | 3 releases, 3 attempts, 4 activations, 3 checkpoints | 12.9 million |
| `install_torn` | Can a recovery get past a record torn between link and unlink? (no) | 1 transaction, 1 fault | small |
| `install_reinstall` | Is an attempt to reinstall what was rolled back recoverable? (no) | 3 transactions, 1 damaged slot, no fault | small |
| `metadata_rotated` | Does a client follow a publisher that replaces its root key? (no) | as `metadata` | small |

What the properties say:

- `MutualExclusion`, `HeldMeansOwned`, `LiveOwnerKeepsAuthority` - the lock
  between its two transactions too, where the committed row, not SQLite, is what
  protects a launcher; `SoloLauncherAcquires` - a launcher that meets nobody is
  not kept out by what earlier ones left, unless it runs under the very pid the
  stale row names, when the liveness probe finds the caller itself.
- `PlanAccepts` - the read-only phase of the next recovery accepts whatever the
  last run left. There are three exceptions: a spoiled state with no record to
  rebuild it from, which is deliberate in the code, and the first and second
  disagreement of section 5. A state record with two names is none of them: the plan
  accepts it, and only carrying it out fails. `AlwaysRecoverable`, which excepts only
  the first and speaks of the whole recovery, is what those two runs refute.
- `NothingLeftBehind`, `RecoveredInstallation` - what recovery hands over: no
  open journal, temporary, pending directory or slot of an uncommitted
  transaction; a current activation that is whole and not revoked; a state equal
  to what the stores say, its floors the highest ever authenticated and
  activated.
- `JournalsAgree` - nothing begins over an interrupted transaction, and a
  journal that names a generation names its own transaction's activation.
- `KeptSlotsIntact` - the slots from the current activation back to the previous
  distinct release are those the activations sealed, in every state, not only
  between runs.
- `StateLags` - the state is never ahead of what it summarises and never more
  than one record behind; recovery relies on just that.
- `ImplementsLedger` - refinement of ActivationLedger.
- `OpenJournalResolved` - an open journal is eventually closed, unless a record has
  two names, or one of the other two exceptions holds, or the engine in use is no
  longer good and there is nothing to go back to.
- `SessionsAgree` - what is open at the control plane and not stored, or stored
  and of no use, is at most one session per fault: no command does it of its
  own accord. It counts the effect of a fault, so it needs commands that do not
  overlap. `DeadCredentialsGo` - a stored token that lost its use does not lock
  the user out: a later launch clears it.
- `LiveIsStored` - whoever loses a race for the single-use token finds that the
  session is gone; an open one is always in the keyring.
- `UsedOnlyVerified`, `DeviceKept` - also when several invocations share one
  answer.
- `EngineAgrees` - while a session is open and no request is in flight, an engine
  that acknowledges only what it took holds the token of the last request that
  succeeded: an early, repeated or stray acknowledgement is never taken for
  the answer to another request. `Recalled` - after the session the engine has no
  token. `ImplementsLoan` - refinement of CredentialLoan, with its liveness: no
  request stays open.
- `ArmedWhileRunning`, `ResolvedMeansClosed`, `SettledIsClean`, `LaunchAnswers`,
  `NoOrphans` - see the comment at each; the exceptions they make are what the
  code leaves open: a process that ignores signals after its group leader has
  ended on darwin, a guard that is stopped rather than killed, a watchdog that is
  lost together with the launcher.
- `ChainReplays` - loading the checkpoints again gives exactly the trust they
  were accepted with. `OnePublication` - mixed sets are never trusted.
  `ReceiptsReadable`, `CurrentSetAccepted` - nothing the client has stored makes
  recovery, or the current set, fail later; both except the revocation of a root
  key, and the second a publisher that cross-signs: `RotationAccepted`, without that
  exception, is what `metadata_rotated` refutes (section 5). `NeverBack` -
  versions, revocations and trusted time only grow.
- `RefusalHasACause` - that an update is over before the last attempt begins never
  costs a launch. `LaunchesTheActive` - the engine that starts was not revoked by
  any checkpoint there was when the attempt began, and is the active one unless
  an update published something meanwhile. A machine on which nothing was
  activated yet is excepted (section 5).

Why the bounds are enough. Three transactions give the shortest history in
which each rule has something to decide: an installation, an update over it,
and one more after a rollback or a channel switch. Four releases, 1 and 2 on
stable, 2 and 3 on beta, give every relation a pair of releases can have: the
same sequence on two channels, higher and lower on the same channel and across
channels. Two faults allow a crash in a transaction and
another in the recovery from it; a third, in the recovery from that, was checked
too (3.4 million states, four minutes, nothing new). A removal of a superseded
slot that fails counts as one. One revocable release, one damaged slot and one
lost state are what leads to a rollback and to a reconstruction. The lock needs
three processes because its delicate case is a third one that begins between
the two transactions of a first while a second is read as owner; the fourth run
lets one of them come back under a pid that was its own or another's.

For the credentials, three tokens are a session, its rotation and the rotation
of that, so that a process can hold a token that is two behind; a fourth lets
`credential_alone` have a second login. Three processes allow one that reads
before, one that reads between and one that reads after a rotation. Faults and
races are kept apart on purpose: with both, no bound on the lost sessions is
promised by the code. When the bound on tokens is reached the control plane is
out of service, an answer the code has to handle anyway.

Four frames give a session its start, an update, a clear or a second update, and
its end, and the request over the limit; two tokens tell an update from what it
replaces; a queue of three parts holds a response and the first half of another,
so that it can overflow. Four publications let one be fetched, one be missed
and two more make a mixture; a rotation, a revocation and a release on each
channel fit into four, and so do two rotations, by which a root key can be replaced
with and without a root that lists both. A mirror one publication behind is enough
to mix files of two; one that is two behind was checked with three publications.
The clock value 0 is before every expiry and 3 after that of the first
publications. Each limit of the code - 32 roots, 1024 versions, 4096 records - is a
constant small enough to be reached. Three attempts of an
inspection are one that differs from the one before and one that agrees, with one
to spare (the code makes four); three releases are a current one, its rollback
target and one to be pruned or installed.

Deadlock is checked in every credential and install run and in `metadata`: a
launcher can always be started again. In the lock run all launchers may have
stopped for good within the bound on runs, and an IPC session, a launch and an
inspection come to an end; `CHECK_DEADLOCK FALSE` says so there.

Fairness. Four runs assume any. `credential_alone`: `WF_vars(Runs(p))` - a
command is one sequential program and each of its awaits ends;
`SF_vars(Start(p, "launch"))` - the user goes on launching; `WF_vars(ExpireAccess)`
- time passes, so that a launch has to refresh at last. Faults are never forced.
`install`: `WF_vars(Launcher)`. A launcher
that runs is one sequential program whose every await ends - the network steps
have deadlines - and may always take its next step; and the user who got an
error runs `goat update` again. Crashes, failures, damage and a success of what
may fail are never forced, and their number is bounded in the guards, so the
property reads: once the machine stops crashing, the transaction is resolved.
`ipc`: `WF(Deadline)` - a timer that is set fires, unless what it waits for came
first; `WF(EngineReads)` and `WF(EngineSeesEnd)` - the engine reads its pipe, to
its end. That it answers, or answers well, is not assumed. `launch`: weak
fairness of the launcher's start, handlers and exit, and of a guard that is not
stopped: Node runs a callback that is due, and timers bound every wait for the guard. The
engine is never made to end, nor the guard to be well.

## 4. The proofs

**The lock** (`UpdateLock_proofs`, for any set of pids, any bounds, with and
without pid reuse). `MutualExclusion` is not inductive: nothing in it says why
two processes cannot both be past `Verify`. `LockInv` adds that a process is
inside a write transaction exactly when it holds RESERVED, which makes the
process unique, and that one in the part that recovers or updates is the run the
row names. From it: `TypeCorrect`, `LockMutualExclusion`, `LockHeldMeansOwned`.
`ClaimInv` says that what a probe found is still so at the claim, even if the pid
came back meanwhile: a new process draws a later token. It gives `LockLiveOwner`,
a theorem about steps. `SoloInv` describes a launcher that never met another
process: nobody else runs, so no SQLite lock is held by anyone else, and once it
has claimed the row, the row is its own. Hence no way of failing is left to it
but its own recovery and a row with its own pid (`LockSoloAcquires`).

**Recovery and update** (`UpdateInstall_proofs`, for all channels, finite sets
of releases and bounds, with damage, lost states and torn records). Typing
alone is not inductive here: recovery indexes the chain by the state's counters
and by what an open journal names, and a run reads the journal of the id it has
drawn. `InstallInv` is typing, `JournalsAgree` and five facts:

- `RunInv` - what `pc` says of the journals: an open journal is the newest, and
  is the running transaction's own once it runs; no journal is open while a
  transaction begins;
- `CandidateInv`, `CommitInv` - from the metadata on there is a candidate; from
  the commit point on the newest activation is the transaction's;
- `StateInv` - the state's current and previous activation exist in the chain,
  or it is about to be replaced;
- `GapInv` - a planned commit gap is one activation, sealed by the transaction
  whose journal is open.

The proof goes step by step through all actions (`TypeStep`, `RunStep`,
`CommitStep`, `StateStep`, `GapStep`), most of them disposed of by lemmas about
the three ways a step treats the journals: not at all (`QuietStep`), writing the
open one (`OpenJournalWritten`), opening a new one. `InstallTypeCorrect` and
`InstallJournalsAgree` follow. The module begins with the floors the code
computes: `Highest`, a `CHOOSE`, is only meaningful when its set has a maximum.
`FiniteSetHasMaximum` shows that by a minimal counterexample among the subsets,
which are well-founded, since induction over data is out of the prover's reach
here; `HighestProperties` and `MaxActivatedInProperties` characterise the floors.

**The order of releases** (the second part of `UpdateInstall_proofs`). How far the state
may lag depends on `pc`: it has caught up with the checkpoints everywhere but
before `refresh`, with the receipts but before `advance`, with the chain but
between the commit and its record. `LedgerInv` says so, store by store, together
with what an update has checked of its candidate (`ChosenInv`: not revoked, above
all other receipts) and that all that was activated had been authenticated. Its
floor `maxActivated` is the highest sequence of the activations the state knows
of (`Floor`), which is what makes the selection rule mean something after a
rollback. Every step is one of three kinds (`StepKinds`): `Quiet`, one that
writes the state, or one that extends a store; the last are dealt with one by one
and mapped to the ledger's steps at the same time. `InstallStateLags` and
`InstallImplementsLedger` follow: the refinement holds for every instance, not
only the state invariants.

**Slots and recovery's promises** (`UpdateSlots_proofs`, on top of that). A chain
is `WellFormed`: each activation repeats an update that sealed its slot, updates
are above everything before them, and rollbacks alternate between two
neighbours. On it rest

- `KeptSlotsIntact`, together with `PlacedInv`, that a candidate which gets a slot
  was never activated before: neither is inductive alone, since the slot that is
  placed would overwrite a kept one if the candidate were not new, and it is new
  because the kept slots stand (`PlacedIsFresh`);
- `JournalInv`, that every journal is sound: it names its own activation from its
  commit record on, and just before it either nothing or exactly that one; with
  `StateLags`, that is all the read-only plan tests, which gives
  `InstallPlanAccepts` (`SoundAccepted`);
- `PlannedInv` and `PhaseInv`, that the plan fits the open journal and the journal
  the step of the running update;
- `SlotInv`, that a slot without an activation is claimed by the open journal,
  which recovery removes before it closes it, and `CleanInv`: together
  `InstallLeavesNothing`;
- `ValidInv`, that recovery does not go on without a whole current activation;
  with the lag of the state closed by then it gives `InstallRecovered`.

The invariants were checked by TLC on the instances of `install` before they were
proved.

**The metadata** (`UpdateMetadata_proofs`, for any channels and any number of
publications, however far the mirror lags and whatever clocks show). The
publisher's part is `PublisherInv`: publications only grow (`Grows`), and none
revokes the online key it is signed with; its roots come
without a gap, and what was published of a root stays what it is. Every set the client deals with is made
of files of them, and so what is said of a publication that was made stays true
(`KnownKept`, `StepsKept`, `WholeKept`). `Steps` is the relation between a trust,
a checkpoint it accepts and the trust that follows. A step takes what is one
publication's as a whole (`Whole`) to what is a later one's (`StepWhole`).
`ReplayInv` says that there is a trust for every checkpoint, each a step from the
one before: it carries over what `Load` computes from one state to the next
without unfolding it. `Load` is a recursive function, and what it computes is an
induction over the checkpoints; as such is out of reach, `LoadIs` has it by a
smallest counterexample (`Inductively`), for every sequence of trusts that
goes on as the loader does. `MetadataReplays`, `MetadataOnePublication`,
`MetadataNeverBack`, `MetadataReceipts` and `MetadataCurrentSet` follow; the last
needs its premise `NoCrossSigning` just once, for the constructor of the trust
store, and without it would be false. All of
the invariant but `ReplayInv`, in whose place TLC has `ChainReplays`, was checked
on the instance of `metadata`, with three publications, before it was proved.

**The credentials** (`CredentialSession_proofs`, for any set of callers, any
sharing of clients, all commands, all bounds). `UsedOnlyVerified` is about the
step `use`, which is entered from `get` and from `verify`, so it needs to know
nothing of other invocations, but its typing does: `CredentialInv` adds to it
that every token an invocation holds, remembers or is answered was issued, and
that it holds one in each step that needs one (`TokenSteps`), which is what
makes `session[t]` meaningful; an answer shared with the invocations that joined
is covered as well. `SoundStep`, `SoundGrows` and `OneCaller` do the work
that is common to the twenty steps of `CredentialNext`. `CredentialTypeCorrect`
and `CredentialUsedOnlyVerified` follow.

The race for the single-use token is `CredentialLiveIsStored`, for any number of
launches, usages and logouts that have a client each and no faults
(`SeparateProcesses`, what the run `credential_shared` instantiates; a login, a
shared client or a lost answer may lose a session, section 5). What makes it
inductive is `RaceInv`: there is one session and at most one of its tokens lives
(`OneSession`); a token that is on its way to the keyring is known to its bringer
alone, so nobody can have used it (`Secret`); and as long as no refresh token has
expired by itself, a live token is in the keyring or on its way to it, or about to
be revoked, and whoever is about to delete the keyring entry finds nothing alive
(`Reachable`). Two launches that both read a token refresh it twice; the second
use kills the session, and the first one then stores a dead token: that is the
case the invariant is about.

`CredentialDeviceKept` holds for every sharing of clients, with faults and
crashes, where no login runs (as in `credential_client`): all copies of a
credential, stored or held, have one device flag (`AllHave`), which no refresh
changes.

`CredentialSessionsAgree` is about one command at a time, of any number, with
lost messages, keyring errors and crashes up to any bound (`OneAtATime`, what the
run `credential_alone` instantiates; a `logout --local-only` leaves its session open
on purpose). Quiet states say nothing of the commands in between, and a count of
losses does not add up over a command's steps by itself: one that has just
been refused has left an open session it will still put right. `SoloInv` keeps the
books at each step (`Account`): which sessions are open (`Open`) and lost (`Lost`),
and that all but those the command deals with in its next steps - its own, and for
a login the one before it - have had their fault. How the two sets relate through
the stored token is `Books`, which rests on a session having one live token and
being no younger than its tokens (`Order`); `Bounded` and `Budget` do the counting:
a step without a fault adds nothing, one with a fault one session, and a crash too,
wherever it comes (`CrashLoss`).

All four invariants were checked by TLC before they were proved: `CredentialInv`
with every command, the others on the instances of the three runs, `SoloInv` with
one token and one fault more than `credential_alone`.

**The inspection** (`InstalledEngine_proofs`, for any releases, any number of
attempts, and updates of any length between two reads). `LaunchesTheActive`
speaks of the end of an inspection only; `InstalledInv` says for each step on
the way what has been read: that it is still there (`ReaderTypes`), and that it
is all there is if nothing was due when the attempt began (`ReaderInv`), which
needs of the disk that revocations only grow along the checkpoints and that the
slot of the newest activation is never pruned (`StoreInv`). An update step is
dealt with once, by what it does to a reader (`UpdateKeepsStore`,
`UpdateKeepsReader`), the reads in `InspectionKeepsReader`.
`InstalledTypeCorrect`, `InstalledRefusals` and `InstalledLaunches` follow.

**The IPC session** (`LauncherIpc_proofs`, for any tokens, limits and number of
faults). `EngineAgrees` is about quiet moments; what makes it inductive is what
is on the wires meanwhile. `Order` relates the request counters: as many
requests were acknowledged as were sent, or one less while one is in flight.
`Agreement` says that a frame the engine has not read is the one in flight or
one it would refuse, and that every acknowledgement on its way or in the queue
is of a frame it took; so the one that answers the request in flight proves
that the engine took its token. It holds while the session is not over and the
engine has not closed. There is one lemma per action (`...Keeps`), which shows
at the same time that the step is one of the abstract loan. `IpcTypeCorrect`,
`IpcEngineAgrees` and `IpcIsALoan`, the safety half of `ImplementsLoan`, follow.
`IpcInv` was checked by TLC on the instance of `ipc` before it was proved.

**The launch** (`EngineLaunch_proofs`, for an engine that may start any processes).
The four state properties are about moments when much has happened already;
`LaunchInv` says how it comes to them: an order to close is written once, behind
at most one other (`OrdersInv`), so that the guard never reads a second one;
on win32 the engine is spawned only from within an armed job, and a job is disarmed
only when its tree is empty (`JobInv`); what the launcher knows of the child is
true of the processes (`ChildInv`); and the promise comes to its outcome in one
order (`OutcomeInv`). `LaunchTypeCorrect`, `LaunchArmed`, `LaunchResolved` and
`LaunchClean` follow. `LaunchInv` was checked by TLC on the instance of `launch`,
with one and with two helper processes, before it was proved.

The theorems assume `LockAssumption`, `StoreAssumption`, `BoundsAssumption`,
`CredentialAssumption`, `InspectionAssumption`, `IpcAssumption` and
`ContainmentAssumption` of the modules they are about - types of the constants, releases finite and numbered from 1, a
value for "nothing offered" that is no token, an engine among its processes - and
nothing else, but for the three theorems on credentials that name the commands they
are about. That `UpdateInstall` has one `pc`
rests on `LockMutualExclusion`, and that InstalledEngine's updater is the
abstract ledger on `ImplementsLedger` and `StateLags`: arguments between modules
which are not themselves formalised.

Only model-checked: liveness (`OpenJournalResolved`, `DeadCredentialsGo`,
`Recalled`, `LaunchAnswers`, `NoOrphans` and the fairness in `ImplementsLoan`),
which like ENABLED is out of the prover's reach.

## 5. Where the code and its texts differ

1. *A record torn between link and unlink blocks every later run*
   (`install_torn`). `writeImmutableFile` links the record and then unlinks its
   temporary name; in between the record has two links, which
   `readImmutableFile` rejects (`durable.ts:156`). Recovery reads all records
   before it removes temporary files. A state record is the one it could do
   without, and plans to rebuild; but then it refuses to remove a temporary name
   with two links (`recovery.ts:889`). The trust design, line 74, says "Each step
   can be recovered after a crash".
2. *A release cannot be installed again after its rollback*
   (`install_reinstall`). The rolled-back release still stands at the sequence
   floor, so selection offers it; activation then finds its old slot in place,
   after it has journaled `prepare-activation`, and throws; and the next recovery
   refuses that journal because an earlier activation names the same release
   (`recovery.ts:569-576`), now and ever after. The acceptance matrix, S4
   (line 70), says "Stale transactions are recovered before new updates". No
   crash is involved.
3. *A replaced root key ends all updates* (`metadata_rotated`). A root that lists
   none of its predecessor's keys has to be signed with some of them
   (`trust.ts:254-257`). Once recorded, it is what the next trust store is made from
   (`metadata-checkpoint.ts:228`, `:365`), and the constructor accepts only
   signatures of keys the root itself lists (`trust.ts:104-109`), a rule that fits
   the embedded root. Recording the next checkpoint fails, and so does every set
   from then on. `sequential-root.test.ts:359` says "dual-threshold success
   cross-signs the new root with old and new keys"; no test authenticates a second
   set after it. A publisher that goes by way of a root with old and new keys
   avoids it, which is what `CurrentSetAccepted` shows.

Met while modelling, and stated in the models as what the code does, but not runs
of their own:

- *A contended lock may go to nobody.* A launcher commits its claim and begins its
  long transaction afterwards (`lock.ts:174-181`). If another holds RESERVED just
  then, the first fails with BUSY, while the second finds a live owner in the row
  and fails as well. `lock.test.ts:18` says "concurrent updaters allow exactly one
  owner". `MutualExclusion` says that at most one holds; `UpdateLock` has this
  behaviour, which ends with none.
- *A first update that fails takes the legacy engine away.* Before any activation a
  launch uses the engine of the npm package or of an older version only while there
  is no updater state (`installed.ts:76-88`); `goat update` writes that state before
  it does anything else (`updater.ts:170-174`). If it then fails, launches are
  refused until an update succeeds. The trust design, line 106, and acceptance
  matrix R2 and I10 say "Pre-activation failure preserves the current
  installation". The second case of `RefusalHasACause` is this.
- *A failed spawn on darwin may end the launcher.* `bind` throws for a child
  without a pid (`launch.ts:552-569`) before the listener for the child's `error`
  event is attached (`launch.ts:646`); Node raises that event afterwards and
  nothing hears it. The comment at `launch.ts:836-838` says that a spawn of a
  missing executable "will fail with a clearer error", and `launch.test.ts` tests
  "spawn failures with stable error code" where there is no containment.
  `ErrorUnheard` has this step, and the same for a write to a watchdog that is
  already gone.
- *An update in progress refuses launches.* A reader that meets a record with two
  names, or a state that lags, is refused rather than retried.
- *A revoked root key shuts the client out.* A root in the middle of the chain of
  roots, signed by a key that is revoked later, is refused on every later reading
  (`receipt.ts:573`, `trust.ts`), although it was good when it was used.
  `ReceiptsReadable` and `CurrentSetAccepted` except it, and no text speaks of it.
- *A launcher upgrade may not read older receipts.* A receipt is authenticated
  under the compatibility bounds of the launcher that reads it
  (`receipt.ts:246`), not of the one that wrote it; outside the model, which has
  one launcher version.

Not disagreements, since no text of the repository promises otherwise, but met
while the credentials were modelled:

- *A login among other commands.* A launch or usage that holds the previous
  token has it refused once `login` has revoked it and then deletes what login
  stored (`credential-session.ts:95`, `usage.ts:155`); login's second write
  (`login.ts:145`) may bring back a token that was rotated in between, and a
  refresh that began before it stores a set without the device. Hence
  `credential_shared` and `credential_client` leave login out.
- *A client shared by launches.* Each of the callers that share a refresh stores
  its result; one that is late may overwrite the successor. Production code
  makes a client per invocation, so the table of refreshes is never hit there,
  and `LiveIsStored` is checked for that case.
- *A locally expired token.* A launch that finds its copy expired deletes what
  is stored by then (`credential-session.ts:79`), revoking nothing.

## 6. What is not modelled

- *Bytes.* Hash chains, parsing, canonical JSON, signatures and digests are
  taken to identify what they name, frames and records are what a reader
  extracts. UpdateMetadata counts one signature per role; thresholds are the
  `tuf` library's. UpdateInstall leaves whether metadata authenticates to a choice,
  within what UpdateMetadata shows of it.
- *Of the metadata*: an embedded root that a new launcher brings, roots that expire,
  channel keys that change.
- *External steps* - network, unpacking, code signing, health and compatibility
  probes - succeed or throw.
- *Limits of the stores* of activations and known releases (1024), which nothing
  prunes; that of the checkpoints (4096) is `MaxRecords` of UpdateMetadata.
- *Power loss.* A `fsync`ed record survives; an unsynced one is not modelled
  apart from the window between link and unlink. Damage strikes slots and the
  state only, and only between runs: the journals, the chain, the receipts and
  the checkpoints are what recovery trusts.
- *Around the credentials*: the plaintext `auth.json` of old versions and a
  keyring entry that does not parse, which end a command before it does anything,
  except a login, which replaces them; polling intervals and deadlines of a login. It is assumed that an
  access token outlives the command that has just obtained it, and that it stays
  valid when its refresh token is rotated. `refreshStoredCredentials` has no
  caller.
- *Around the launch*: the files of the engine are checked, or not, before
  `CreateContainment`; there is no other
  platform than win32 and darwin (`platform.ts:119`).
- *`inspectUpdateLock`* reads the lock for `goat doctor` and changes nothing.
- *Discovery, release policy, command line, scripts*: sequential, without state
  of their own. *Transfer*: its outcomes are in UpdateTransaction. *The native
  installer* runs before there is anything else.

## 7. Plan

Written, in this order: UpdateLock and its proofs; UpdateStore, UpdateRecovery,
UpdateTransaction, UpdateInstall; ActivationLedger; UpdateInstall_proofs;
CredentialSession and its proofs; CredentialLoan and LauncherIpc;
EngineContainment and EngineLaunch; UpdateMetadata; InstalledEngine; the proofs
of InstalledEngine and LauncherIpc; the second part of UpdateInstall_proofs and
UpdateSlots_proofs; the race of the credentials; EngineLaunch_proofs;
UpdateMetadata_proofs; one credential command at a time.

Next, in order of what a fault would cost:

1. *Transfer* - the bounded download with its redirects and deadlines, and the
   held file between its checks and its use.
2. *Pure algorithms* - version ordering and selection, path and frame checks -
   as operators checked against reference definitions.
