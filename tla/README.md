# A TLA+ model of VaultLink

VaultLink serves one storage directory to administrators and, through shares, to
the public. A single process owns the directory (an instance lock) and one SQLite
database. What is hard about it is not any single handler but what the handlers
share: quotas that many requests race for, uploads that are retried after lost
answers, renames and deletes that must agree in the file system, in SQLite and in
the audit, recoveries that run between any two of them, accounts that change while
somebody signs in, and caches, queues and permits that outlive the requests that
took them.

This directory holds

- one specification per mechanism, translated from the Rust code under `src/src/`
  (30 modules), and the abstract `DownloadSlots` that `TransferLeases` implements,
- TLC models of them (`MC*.tla`, `*.cfg`),
- proofs, checked by TLAPS, for every value of the constants (`*Proofs.tla`),
- `PROJECT.json`: components, runs, hazards, findings, theorems, mutants, and the
  map from every definition to the lines it models.

Paths below are relative to `src/src/`.

## 1. The system, its parts and where they are modelled

| Part | Code | What is hard about it | Module | Run |
|---|---|---|---|---|
| Transfer grants and leases | `db/transfers.rs`, `db/transfers/leases.rs`, `db/public_sessions.rs` | a limit reserved by live requests; calls with an old `now`; cascades; row ids used again | `TransferLeases`, `DownloadSlots` | `transfer_leases` |
| Queue budget of transfer writers | `db/transfer_progress.rs` | two instants stand for a history of completions | `TransferProgress` | `transfer_leases` |
| Preview sessions and pages | `db/public_sessions.rs`, `services/public_transfer/preview.rs` | evictions counted before they happen; texts in memory after the visitor left | `PreviewSessions` | `transfer_leases` |
| Upload reservations | `db/transfers/reservations.rs`, `db/shares/mutations.rs` | two quotas shared by uploads in flight, changed under them | `UploadReservations` | `upload_reservations` |
| A visitor's upload | `public_upload_transport/`, `services/upload.rs`, `db/transfer_handoff.rs`, `db/database.rs` | checks before and after the body; a reservation that grows and changes hands; a bounded cleanup queue | `PublicUpload` | `upload_reservations` |
| An administrator's upload | `web/files/admin_upload*.rs`, `secure_fs/upload.rs`, `secure_fs/directory.rs` | folders and file made before a transaction that may fail | `AdminUpload` | `upload_reservations` |
| Forms sent twice | `upload_operation.rs`, `web/files/admin_upload_flow.rs` | two parsers must digest alike | `UploadReplay` | `upload_reservations`, `upload_replay` |
| Free space | `disk_stats.rs`, `services/upload.rs` | lock-free counters on a cached reading | `DiskSpace` | `upload_reservations` |
| Multipart guard | `multipart_guard.rs` | overlapping matches over chunks | `MultipartScanner` | `upload_reservations` |
| Upload operations | `db/upload_operations.rs`, `upload_operation.rs`, `file_ops/upload_recovery.rs` | lost clients, detached finalizers, recovery racing a claim, crash between charge, rename and receipt | `UploadOperations` | `upload_operations*`, `upload_receipt_race` |
| Renames and deletions | `file_ops.rs`, `secure_fs/staging/`, `secure_fs/recovery/`, `secure_fs/journal.rs` | three resources without a common transaction; failing and unanswered calls; power failure | `FileOperations` | `file_operations`, `stale_manifest`, `rename_intent`, `workers_live` |
| Fragment cleanup | `storage_cleanup.rs` | a request between the flag, the notification and a failing pass | `CleanupWorker` | `workers_live` |
| Public downloads | `services/public_transfer/`, `api/public_transfer/`, `web/transfer/`, `db/transfer_handoff.rs` | deadline, disconnect and completion race; a bounded cleanup queue | `PublicTransfer` | `services` |
| Archives | `services/public_transfer/zip.rs` | files change between plan and copy | `ZipArchive` | `services` |
| Shares and their visitors | `db/shares/`, `services/share/`, `web/shares.rs`, `web/public.rs` | a password verified before it is changed; row ids used again | `Shares` | `services` |
| Directory cache | `directory_cache.rs` | joined flights, generations, evictions | `DirectoryCache` | `services` |
| Response permits | `state/admissions.rs`, `web/admission.rs`, `response_work.rs` | a blocking read outlives request and body | `ResponseWork` | `services` |
| Listeners and connections | `server/`, `transport.rs`, `container_proxy.rs` | every way a connection ends; one listener ends the other | `Server` | `services`, `workers_live` |
| Status endpoints | `readiness.rs`, `share_summary_cache.rs`, `monitoring_cache.rs` | callers that time out while the probe hangs | `StatusProbes` | `services` |
| Service tokens | `db/service_tokens/`, `web/service_tokens.rs` | look-up and touch in two statements | `ServiceTokens` | `services` |
| Database admission | `db/database.rs`, `db/dispatch.rs`, `db/model.rs` | lost wake-ups, a borrowed slot, cancelled callers | `DatabaseAdmission` | `platform`, `workers_live` |
| Login limiter | `auth.rs` | overflow buckets | `LoginLimiter` | `platform` |
| Accounts, sessions, factors | `db/auth/`, `web/account.rs`, `web/admin.rs` | verification outside the transaction that uses it | `Accounts` | `platform` |
| Runtime settings | `http_auth/runtime.rs`, `state/runtime.rs`, `db/runtime_settings.rs` | publication inside a transaction that may fail or panic | `RuntimeSettings` | `platform` |
| Audit trail | `db/audit.rs`, `db/required_audit.rs`, `server/audit_worker.rs` | a setting that changes while requests carry what it forbids; a count that is old when rows are deleted by it | `AuditTrail` | `platform` |
| Listings | `db/shares/listing.rs`, `web/common.rs`, `web/public/page.rs`, `web/settings_audit.rs` | cursors into tables that change; snapshots that other processes outdate | `ShareListing`, `DirectoryPages`, `AuditTrail` | `platform` |
| Initial setup | `setup/`, `server/container_start.rs`, `server/runtime.rs`, `cli/recovery.rs` | a crash between file, marker and administrator; `init-admin` beside it | `InitialSetup` | `platform` |
| Key file | `db/keyring.rs`, `cli/recovery.rs` | three durable steps, any of which may be the last | `Keyring` | `platform` |
| Updates | `updates.rs`, `updates/host.rs`, `web/updates.rs` | a job that systemd starts late, twice or not at all | `UpdateControl` | `platform` |

`PROJECT.json` lists every component with its sources, and the hazards with the
line where each one bites and the properties that would catch it. What is not
modelled is in section 6.

### How the parts are composed

Where two mechanisms write the same state they are one module: an upload's row,
registry, fragments, guard and recovery in `UploadOperations`; directory, journal,
shares, audit and recovery in `FileOperations`; shares, visitors and unlock sessions
in `Shares`; lease, stream, hand-over and cleanup queue in `PublicTransfer`. Where
one only relies on what another promises, it has that promise as an action:
`PublicTransfer` takes a lease under the limit that `TransferLeases` proves,
`PublicUpload` and `AdminUpload` run inside the operation record of
`UploadOperations`.

Components that share no variable are checked in one run, side by side:
`MCTransferLeases`, `MCUploadReservations`, `MCServices`, `MCPlatform` and
`MCWorkers` extend several modules and have a variable `part` that is chosen
initially and names the component that moves. Each component is explored as completely as in
a run of its own, and their product is not. The states in which a component waits
would only repeat the initial ones of the others, so there its initial state is
restricted (`Still`).

Several invariants are conjunctions of facts about one mechanism; the conjuncts are
named and stated one by one in the modules.


## 2. The modules

### TransferLeases and DownloadSlots

A grant is the transfer of one client session, share and resource that is counted
once; a lease is one HTTP request under a grant. State: `clock`, `shares` (state,
`download_count`, password), `unlocked`, `grants`, `leases`, `issued`, `audits`.
Every operation of the code is one IMMEDIATE transaction behind a write guard, so
every operation is one action, with the `Cleanup` of expired rows that the code
runs inside it.

What transactions do not share is the clock. Completion, cancellation and heartbeat
read the time before they wait for the guard; they are given any `now` between the
creation of their lease and the present (`CallTimes`). Lease tokens are random and
issued once. A deleted share's row id may be used again, which is what SQLite does
without `AUTOINCREMENT`. The limit and the expiry of a share row are constants of
its id; a change of either is modelled for uploads, where the code couples it to a
policy epoch. A lease under a counted grant may be deleted by the cascade when that
grant expires; the code means it so, and no property claims otherwise.

`DownloadSlots` says what a visitor may rely on, without leases, deadlines or
clocks: a download reserves a slot, and a slot is counted once or free again. The
refinement mapping takes the pending grants of a share as its reserved slots
(`ImplementsSlots`, checked by TLC and proved as `SlotsImplemented`).

Checked in `transfer_leases`: `DownloadLimit` (downloads counted plus grants that
may still be counted never exceed `max_downloads`); `LeaseTablesSound` (a grant
that reserves a slot does not expire before a lease that relies on it, no chain of
heartbeats passes the absolute lifetime, the read-only availability check answers
what a begin at the same instant decides, nothing is left for a share that gets the
same row id); `CountedOnce` (a download is counted exactly when a pending grant
turns counted, in the same step as its audit row; a counted grant that expired or was
deleted is a new download when its session comes back).

### TransferProgress, PreviewSessions

`TransferProgress` compares the two instants the code keeps with the history of
completions they stand for (`BudgetExact`). `PreviewSessions` are the rows under four
limits with the evictions that precede a refusal, and beside them the pages rendered for
a text: the permit for the memory of a text, the text with the offset of its next
character, and the chunks of escaped characters whose length was announced before
(`PreviewsBounded`). The lease that a preview page takes is in `PublicTransfer`.

### UploadReservations

State: `clock`, `shares` (state, limits, `epoch`), `usage`, `reservations`, and the
history sets `issued`, `revoked`, `charged`. One action per transaction: begin,
extend, commit and cancel, and the share mutations. Every mutation that changes path,
password, state or limits starts a new epoch; quotas count the reservations of the
current epoch. `begin` is given an epoch read earlier, and begin, extend and commit
any past `now`. Byte sums are cardinalities of disjoint unions, which both TLC and
the provers can work with. Checked: `Quotas` (stored plus reserved never exceeds the
limit, in files and in bytes, also while limits change) and
`NoChargeAfterRevocation` (an upload overtaken by a policy change is never charged).

### PublicUpload, AdminUpload, UploadReplay, DiskSpace, MultipartScanner

`PublicUpload` follows one upload from its form to its answer: authorisation and
binding of the directory under the read guard, the fields, the reservation that a worker
begins and hands over and that grows with the body, and a detached finalizer that repeats
every check. Administrators rename, replace and delete around it, the client may leave
anywhere, and a worker may not be admitted at all. A request that ends with a
reservation leaves its row to the cleanup queue (`enqueue_upload_reservation_cleanup`),
which downloads share: a full queue takes nothing, the launch of its one worker may be
discarded with all its jobs, a job may get no permit in time, and its transaction may
fail; a worker whose offer is not taken runs the job itself. `UploadAsPromised`: the file
is published where its request was bound, replaces only what it was asked to, every
received byte is reserved, and every row has exactly one owner (its request, its
worker, a job of the queue) unless its cleanup was given up in one of these ways,
in which case it waits for its expiry; and no job waits behind an idle worker. The
one case left out is a reservation that is dropped outside the runtime.

`AdminUpload` is one request with other writers beside it: folders and the file are
made inside transactions that may fail after the file system has changed.
`AdminUploadTruthful`: effects are audited or the answer warns, an ID offered for a
retry left nothing behind, and answers are true.

`UploadReplay` gives one stream of fields to the two parsers that must digest it
alike (`ReplayAgrees`: they differ only by the slash of finding 4, and only in a form that
names one directory). `DiskSpace` interleaves loads and exchanges of the counters with probes (`SpaceAccounted`).
`MultipartScanner` runs every body of bounded length (`MatcherExact`: a matcher stands at
the longest beginning of its pattern that ends the input).

### UploadOperations

A row per upload ID (`ready`, `processing`, `committing`, `retryable` and terminal
states), the in-memory registry of active IDs, the requests with their phases, the
detached calls that outlive a cancelled request, the staged fragments, the holder of
the storage guard, `recovery_required`, and what has really been published and
charged. Public and administrator uploads share the row and differ in how they end.
Failing database calls are a choice (`DatabaseErrors`), a crash ends every task and
empties the registry. Retention is a flag that may be raised on a row at any time, so
nothing depends on clocks; a request is one attempt and is used once. A panic or join
error after publication gives `outcome_unknown`, as in the code.

`upload_operations` checks `PublishedOnce` (an ID publishes and is charged at most
once), `VisibleNeverRetryable` (what is visible or charged is never claimable again)
and `UploadProtected` (a live finalizer is the only one of its ID; a cleanup pass with
an old list of names never removes a staged file that may still be published; the
fragment named by an unknown outcome is kept if only one request ever claimed the
ID, see finding 1 for the other case). `upload_operations_live` checks `Settles`: a
claimed ID leaves the processing state.

### FileOperations

The file system is kept twice: `mem` is what calls see, `disk` what a sync has made
durable. Each is a visible directory, pending entries, manifests, tombstones and
journals. `shares` and `audit` are the rows of SQLite; `op` is the operation that owns
the storage guard and the place it has reached; `dirty` is `recovery_required`. One
step is one call with the probes that follow it, since that is the grain at which
calls fail, other processes act and the machine stops. A call succeeds, fails without
an effect, or fails after its effect and before it is durable (`Call`); a COMMIT may
take effect with its answer lost. `Crash` ends the process alone, or with the machine:
then each directory is as synced or as last seen, independently, except that a rename
is atomic (`Survivors`, `Consistent`). A crash between two system calls of one step
equals a failure of that step followed by a crash. `External` is another process that
creates, replaces, removes or fills entries.

Abstractions: one visible directory (names in it stand for paths; the code never
moves between parents), object identity without inode reuse, private names fresh. The
look-up and the open at the start of a delete are one step. Left out:
`create_directory` (no journal), `StagedRename::rollback` and the rollback phase of a
rename (no caller reaches them), retries on name collisions in staging.

`file_operations` checks, of clean storage, `StorageAgrees` (an active share shows the
object it was created for; an object is gone or elsewhere only if that is audited; a
power failure now would change nothing a reader sees), and of every state
`NothingLost` (a reported error left its object in place; nothing in staging is
orphaned; content is destroyed only if that was confirmed) and `DurableReply` (what was
reported durable is on disk and in SQLite, and no journal could redo or undo it).
`StorageRecovers` in `workers_live`: dirty storage becomes clean again, except behind
the two records of findings 2 and 3. Two branches fire in none of the runs: an occupied
name met while recovery puts a tombstone back (it needs two external steps), and a
pending entry under a journal in the moved phase (the syncs exclude it; the branch is kept
because the code has it).

### PublicTransfer, ZipArchive, Shares, DirectoryCache

`PublicTransfer`: look-up, storage guard, second look-up, open; a dispatched worker
reserves the lease and hands it over; the body completes it before the first byte.
Requests are dropped at every await. `TransferAccounted`: no byte leaves uncounted, and
every live lease has an owner unless its release was refused (a full queue, no
admission, a failed transaction), in which case it waits for its expiry; and what is
opened is what the share names at that moment (`OpenedIsShared`, a conjunct).
`ZipArchive` (`ArchiveAsPlanned`): an archive received to its end has the planned size,
and the planner's memory account is what it holds. `Shares`: an unlock session belongs
to the present password of the present share although verification runs outside the
transaction, and a page is bound to the present row (`VisitorSeesPresentShare`).
`DirectoryCache`: a listing is the directory as of its read guard, and the byte account
of the cache is exact (`CacheSound`). Only the service changes the directory here; what
another process changes may be unseen for the second a snapshot lives, which
`DirectoryPages` has. A cancelled leader may leave a dead weak reference in the flight
table (`directory_cache.rs:186`); it is replaced by the next caller of that key, and
nothing bounds how long it stays otherwise.

### ResponseWork, Server, StatusProbes, ServiceTokens

`AdmissionBounded`: the permits of responses return exactly when the last of handler, body
and blocking worker is gone; permits and per-peer counts of connections are exact on
every way a connection ends; at most one probe of each kind runs. `UseIsOwn`: a use is
recorded only on the token that was presented, even if rows are revoked between
look-up and touch. `StoppedListenerEndsProcess` (in `workers_live`): when a listener is gone,
the process ends.

### DatabaseAdmission, LoginLimiter, Accounts, RuntimeSettings, AuditTrail

`DatabaseAdmission` has the semaphores with their waiters, the first poll on the
caller's thread, the queue and the dispatcher with its park token.
`AdmissionConsistent`: no wake-up and no permit is lost; `AdmissionServed`: a queued job
is served or refused; the borrowed slot is contended in `platform`, with two jobs of each
class, more than in `workers_live`. `LoginLimiter` (`AttemptsLimited`): no key is admitted more than
`MaxAttempts` times in a window, whichever way it moves between its own history and a
shared bucket. `Accounts` (`CredentialsConsistent`): sessions outlive none of the
credentials they were opened with, nobody is locked out of the second factor by racing
changes, a TOTP code is accepted once. `RuntimeSettings` (`SettingsAgree`): table,
published snapshot and registered keys agree on the public base URL after failures and
a panic; `Restart` leaves out the exception for ACME's static domain.
`AuditTrail` (`DeletedAddressesStayAway`): a request that still carries an address may be
recorded after an administrator has deleted the stored ones; its row has none.
`RetentionSparing`: however many passes are asked for and whatever is written between
the batches of one, no row is deleted that the table has room for, and no security event
while a routine one is left.

### ShareListing, DirectoryPages and the pages of AuditTrail

`ListingsComplete`: a reader who turns the pages is shown every entry that stays. A page
of a directory is cut out of a cached snapshot, which another process may have outdated
(for up to a second), out of a new one, or collected by a scan; "stays" includes the time
the snapshot was taken.
A page of the audit trail takes three queries without a transaction (count, place, rows),
which are three actions; client addresses and the action filter are left out. The
property excepts what the code does not promise: when events behind the reader are
deleted, or something is recorded between the count and the rows of a page, the number
of pages may hide the last link, and the reader has to open the trail again.

### InitialSetup, Keyring, UpdateControl

`InitialSetup`: configuration file, marker, first administrator and confirmation, with
every start mode (`setup`, `container-start`, the plain start of the packages' unit),
`init-admin` as a second process that may store its administrator between any two steps,
a configuration file installed by the operator, failing calls and a process failure
anywhere. Power loss is not modelled. `ServedSetupConfirmed`: what container-start or the
setup page started serves with a configuration and an administrator; as long as the
secret of an administrator whom the setup stored has not been shown, the marker stands
for that administrator, so that container-start opens the setup again. Of the plain
start, which never asks `needs_setup`, and of an administrator whom `init-admin` stored, which no
marker names, it claims nothing: after a setup that was killed before it showed
the secret, a plain start serves with that administrator. `Keyring`
(`SecretsReadable`): the key file on the disk opens every stored secret through first
start, rotation, process and power failure. It assumes that `rotate-secrets` is not
run on a database without secrets and that the journal of the file system keeps the
order of metadata. The lock of a starting service is converted from exclusive to
shared (`db/keyring.rs:110`), which flock does not do atomically; `validate_encrypted_secrets`
catches a key file that was replaced in the gap unless the database is empty, and nothing
on the disk becomes unreadable. `UpdateControl` (`UpdateStatusTrue`): while a job works, the
status is that of its request, a begun request is never queued again and a completed one
has taken effect. Request ids are drawn afresh, so the answer to a repeated id is left out.


## 3. Runs, bounds, fairness, deadlock

| Run | Distinct states | Instance |
|---|---|---|
| `transfer_leases` | 58 thousand | one share with one download, two clients, three requests, times 0..4, TTLs of 1, 2 and 3 instants so that each can expire first; queue of writers over 9 instants; preview limits 2, 3, 4, 4; two preview pages under one permit |
| `upload_reservations` | 192 thousand | one share, three uploads, limits up to 2, epochs and times up to 2; one upload of each kind with every failure and a cleanup queue of one place, which downloads fill too; two forms of up to four fields; writers on storage and on temporary files; bodies over CR, LF, dash, boundary, blank and one other byte |
| `upload_operations` | 972 thousand | two requests with different content for one of two IDs, failing database calls, one crash, limits of one row |
| `upload_operations_live` | 147 thousand | the same with a database that answers |
| `file_operations` | 2.2 million | names a, b, c; a file, a directory, and a file that only the other process brings; one share; one operation, two failing calls, one external step, one crash |
| `workers_live` | 222 thousand | three jobs for two connections; two fragments and two failing passes; two sockets; two file operations with one failing call and one crash |
| `services` | 658 thousand | two requests and sessions for one download with a cleanup queue of one; two link names and one visitor; three HTTP requests of two clients; three sockets with two permits; two listings over three flights; archives of four entries under three settings; two callers; three token ids |
| `platform` | 435 thousand | four jobs of two classes; a limiter with one own history; two administrators with two keys, and one with three keys whose sign-ins and changes race; three services built and one panic; two requests with addresses, two audit rows kept and two passes of the retention; five shares, four directory entries, four events; four forms and three secrets generated by the setup and `init-admin`; two services, two secrets, three keys; three update requests |

The bounds are conjuncts of guards and named where they are declared. They are
chosen so that each kind of interference happens at least once at every point, and
limits are one or two, so that they are reached. The proofs do not depend on them.
Every action of every component fires in a passing run, except the two branches named
under FileOperations. Larger instances that were explored without an error and are too
slow to keep: FileOperations with two operations, one fault, one external step and
one crash (7.3 million states) and with one operation, one fault, two external steps
and one crash (3.3 million); the audit pages with pages of one event (0.8 million) and
with five events (2.7 million).

Symmetry is used for tokens, clients, callers and peers, which the models only compare
for equality, and only in runs without liveness.

Fairness.

- `Settles` assumes that requests in progress, detached calls, finalizers, recoveries
  and cleanup passes go on. Request bodies have timeouts, detached calls and
  finalizers are spawned tasks that no client can cancel, and the tokio lock is
  first-in first-out. Waiting finalizers get strong fairness for the lock, the rest weak
  fairness. It assumes a database that answers: a release that fails is not tried again,
  and its row waits for the next recovery.
- `StorageRecovers` assumes that the blocking task of an operation runs to its end (it
  does not belong to the HTTP future) and that some reader or the cleanup worker asks
  for storage again.
- `AdmissionServed` assumes that the dispatcher thread runs when it is not parked and
  that a worker that has started returns its permit; no deadline has to pass.
- `StaleFragmentsRemoved` assumes that the worker's task runs, that its retry timer
  fires, that other holders give storage back, and strong fairness of the lock, which is
  first-in first-out.
- `StoppedListenerEndsProcess` assumes that the drain timeout fires and that the
  supervising tasks go on; nothing is assumed of clients.

None assumes that a crash, a fault or a client step happens or does not.

Deadlock is checked in `upload_operations` and `upload_operations_live`. In the other
runs a behaviour may end: storage that is clean with every budget spent has nothing left
to do, a form is read to its end, a process has stopped.

## 4. Findings

Four runs are expected to find a violation; each checks only the property that states
the quoted sentence.

1. `upload_receipt_race` (`ReceiptMatchesContent`). A recovery that copied the registry
   between a claim's transaction and its registration (`db/upload_operations.rs:250`,
   `upload_operation.rs:407`) resets a live claim. A second request claims the ID and
   the first one completes it: the receipt then carries no fingerprint or the wrong
   one, and the identical retry that `docs/API.md:98` promises to answer gets a conflict. The
   late bind may also name the wrong fragment in the row. Nothing is published twice.
2. `stale_manifest` (`StaleManifestHarmless`). A superseded manifest that could not be
   removed is called harmless in `secure_fs/staging/delete.rs:592`; the recovery
   (`secure_fs/recovery/validation.rs:117`) returns an error on it each time.
3. `rename_intent` (`RenameIntentCancelled`). The intent of a rename onto a taken name
   that survives a failed sync (or a crash) is said to be cancelled by recovery
   (`secure_fs/staging/rename.rs:58`); recovery refuses it
   (`secure_fs/recovery/rename.rs:24`).
4. `upload_replay` (`ReplayUsesSameMetadata`). An administrator's form with an empty
   folder field below a directory is digested with a trailing slash when it is sent
   again (`upload_operation.rs:363`), and the completed upload is refused as a conflict
   although the digest "uses exactly the metadata of the first pass"
   (`upload_operation.rs:152`).

Observations without a run, since no document or comment says otherwise:

- With two panics while the WebAuthn service is locked, `SettingsAgree` is lost:
  `webauthn_snapshot` (`state/runtime.rs:105`) reads the settings before it locks the
  service, and if meanwhile one change commits and a further one panics, it rebuilds
  the service for the earlier URL. TLC finds this in 18 steps with `MaxPanics = 2`.
- The answer to a replay sets the legacy audit-durability header only for the audit
  warning, the first answer for any warning.

## 5. Proofs

The eight `*Proofs` modules hold theorems that TLAPS checks for every value of the
constants that the named `ASSUME`s of the modules admit (sizes are naturals, sets
that are counted are finite, a value that means "none" is no value). `PROJECT.json`
lists the theorems and the property that each of them states. Each rests on an
inductive invariant; what the property alone lacks for an induction is said here.

| Module | About | Theorems |
|---|---|---|
| `TransferLeasesProofs` | `TransferLeases`, `DownloadSlots` | `Inductive`, `TypeCorrect`, `DownloadLimitHolds`, `PendingGrantsOutlive`, `LifetimesBounded`, `DeletedSharesEmpty`, `PreflightHolds`, `CountedOnceHolds`, `LeaseTablesHold`, `SlotsImplemented` |
| `UploadReservationsProofs` | `UploadReservations` | `Inductive`, `TypeCorrect`, `FileQuotaHolds`, `ByteQuotaHolds`, `NoChargeAfterRevocationHolds`, `QuotasHold` |
| `UploadOperationsProofs` | `UploadOperations` | `Inductive`, `TypeCorrect`, `PublishedOnceHolds`, `VisibleNeverRetryableHolds`, `FinalizerOwnsOperationHolds`, `UploadFragmentKeptHolds`, `TerminalStaysHolds`, `RowsBoundedHolds` |
| `AccountsProofs` | `Accounts` | `CredentialsStayConsistent` |
| `KeyringProofs` | `Keyring` | `SecretsStayReadable` |
| `PlatformProofs` | `UpdateControl`, `RuntimeSettings` | `StatusIsTrue`, `SettingsStayAgreed` |
| `SharesProofs` | `Shares`, `AuditTrail` | `PresentShareSeen`, `AddressesStayAway` |
| `ServiceProofs` | `TransferProgress`, `ServiceTokens`, `InitialSetup` | `BudgetIsExact`, `UsesAreOwn`, `ServedIsConfirmed` |

**Transfer leases.** `IInv` is the types, `Rows`, `DeletedShareHasNoGrants` and
`DownloadLimit`. The limit alone is not inductive: the check in `begin` counts pending
grants that have a live lease after the cleanup, so the induction needs that leases refer to
grants, that their deadlines respect the lifetime, and that pending grants outlive their
leases (`Rows`); and a share that takes over a row id starts at zero.
`LeaseTablesHold`, `CountedOnceHolds` and the refinement `SlotsImplemented` follow.

**Upload reservations.** `IInv` is the table, its epochs (no reservation is ahead of
its share) and both quotas, which are sums over the reservations of the present epoch.

**Upload operations.** `IInv` makes `VisibleNeverRetryable` inductive with the owner of an
operation (`FinalizerOwnsOperation`, `FinalizerFresh`), with the fragments
(`UploadFragmentKept`) and with the fingerprint that was bound (`BindingKept`).

**Accounts.** The invariant adds that a handler whose session still stands carries the
generation of the present secret, since a new secret ends sessions and tokens are not used
again; and that a one-time code is older than the next one that would be accepted.

**Key file.** What a service has read of the key file is still there, or entirely
rotated away, and then a stored secret tells.

**Updates and settings.** The first relates the job, the queue and the status file. The
second follows a change through its lock, decision and publication; it assumes at most one
panic with the WebAuthn service locked (`MaxPanics <= 1`), see section 4.

**Shares and the audit trail.** An unlocked session has the present password, and a page
that holds a guard is bound to the present row. A request carries what the configuration
file says until the table decides, and once the addresses are deleted nothing says they
are recorded; that the rows which survive a retention pass are rows of the table before it
needs a lemma on the places of a finite set of numbers (`PlaceTaken`).

**Time budget, service tokens, setup.** They need instants of the past, ids handed out
once, and for the setup what every step of a submission, and of `init-admin`, has
left on the disk: the marker is written before the administrator, and while a
submission is under way only `init-admin` can store one.

Only model-checked:

- liveness and everything under fairness (`Settles`, `AdmissionServed`,
  `StaleFragmentsRemoved`, `StoppedListenerEndsProcess`, `StorageRecovers`), which the
  provers do not reach;
- `UploadProtected` (its parts on finalizers and fragments are proved), `AttemptsLimited`,
  `PreviewsBounded`, `UploadAsPromised`, `AdminUploadTruthful`, `ReplayAgrees`,
  `SpaceAccounted`, `TransferAccounted`, `AdmissionBounded`, `CacheSound`
  and `RetentionSparing`: safety properties that a proof could reach;
- `AdmissionConsistent`: a dispatcher that is lost drops its queue job by job, a fold
  whose effect would need an induction over the queue;
- `MatcherExact`: the prefix table is a recursion over the pattern;
- `ArchiveAsPlanned`: sums over sequences of entries;
- `StorageAgrees`, `NothingLost`, `DurableReply`: an inductive invariant for
  `FileOperations` would describe every place of an operation and of its recovery with
  both images of the directory; it was not attempted;
- `ListingsComplete`: orders chosen among all sequences of the rows.

## 6. Not modelled

- **Bytes and text**: routing, parsing of paths, ranges and forms other than the
  multipart guard, i18n, templates, rendering. They are functions of one request without
  state; so are the checks of `path_security.rs` and the descriptor-relative
  system calls of `secure_fs/capability.rs` and `secure_fs/root.rs`, which the models use
  as atomic steps.
- **JSON twins** of HTML handlers (`api/files.rs`, `api/admins.rs`,
  `api/settings_audit.rs`): they call the services that are modelled.
- **SQL**: schema and migrations. Each migration is one transaction; the tables
  appear as the variables of the other modules.
- **Configuration, mounts, TLS, ACME**: validation of files, one-shot privileged tools,
  and libraries. `Server` has the handshake as a step that ends in some way.
- **Telemetry**: best-effort logging that nothing depends on.
- **Cryptography**: passwords, codes, tokens and keys are values that are compared.
- Text search and summary counts of share lists; discovery, forms and views of the
  initial setup; the updater itself; the number of parallel storage readers where it cannot
  matter.
