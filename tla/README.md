# Verification of DevConsole

TLA+ models, TLC runs and TLAPS proofs for the Rust workspace under `src/`
(the desktop applications TokenMeter, Runtime Atlas and DevConsole, the core
crates, the `runtime-atlas` CLI and the `runtime-atlas-supervisor`).

Paths below are relative to the repository (`src/` in the file names of
`PROJECT.json`). `RA` stands for `src-tauri/src/runtime_atlas.rs`, `UPD` for
`updater.rs` and `TM` for `token_meter.rs` beside it, `SUP` for
`crates/runtime-atlas-supervisor/src/main.rs`; `SES` and `STO` for `sessions.rs`
and `storage.rs` of `crates/runtime-atlas-core/src`; other file names without a
directory are of the two core crates.

## 1. The system and its parts

| Part | State it keeps | Operations | What is hard | Section |
|---|---|---|---|---|
| Action sessions (RA, SES, STO) | `action-sessions.json`, one `<id>.control` and one `<id>.json` marker per session, `active_runs` / `action_runs` in memory | launch, restart, stop, status (recover orphans, reconcile, sweep), delete action, remove repository | supervisors and watcher threads run between any two steps; crashes of application and supervisor; failed writes | 2 |
| Supervisor process (SUP) | its process group, the shared lock of the control file, the marker | open control, gate, publish marker, run, forward signals, reap, tear down | signals at any step, SIGKILL | 2 |
| Shutdown for exit and update (RA, `main.rs`) | `update_shutdown` flag | stop everything, verify, flag back on failure | long waits over a snapshot, half failures | 2 |
| Updater (UPD) | application bundle and CLI on disk, staged and backup copies | check, download, validate, install transaction with rollback | crash or failure between the renames | 3 |
| TokenMeter dashboard (TM) | scan and account generations, cancellation flags, settings | scan, refresh, cancel, change settings | late answers of cancelled work | 4 |
| TokenMeter cleanup (`cleanup.rs`, `cleanup_archive.rs`) | ZIP archive, quarantined files | preview, archive, quarantine, delete, roll back | failure or crash with sources half moved; files that change meanwhile | 5 |
| Usage cache and Hermes checkpoints (`cache.rs`, `hermes.rs`, `scanner.rs`) | offsets and identities of files, rows of events | incremental, full and rebuilding scan | files that are appended to, moved, replaced or cut while they are read | 6 |
| Sync ledger and store (`sync.rs`, `sync_store.rs`) | one append-only ledger per device in a synchronised folder | append, rewrite, import | files that a cloud service replaces or evicts while they are read | 6 |
| Aggregation (`aggregation.rs`, `dashboard.rs`) | none between calls | ranges, buckets, filters | time zones that change their offset | 7 |
| Documents (STO, `databases.rs`) | JSON documents, backups, lock files | load, update, replace, recover a damaged file; link and unlink a database | crash between write and replace; two processes; a container stopped under a user | 8 |
| Observation, view and navigation (`observe.rs`, `relations.rs`, `repository.rs`, RA) | displayed processes, worktree order, pending navigation | status, stop a process, arrange, advance, link | pids that change hands between two looks | 9 |
| Confirmations (RA) | one-time tokens with expiry | plan, confirm, restart | definitions and worktrees that change between review and launch | 9 |
| Commands (`command.rs`) | none between calls | run a tool under a deadline | descendants that hold the pipes | 10 |
| Account service (`account.rs`, `account_service.rs`) | one query in flight, a history file | query, record, prune | deadline against a late answer | 4, not its process |
| CLI | none | link, unlink, list | a second process on the documents | 8 |
| Interface, build scripts | — | — | — | not modelled |

The desktop application holds a process lease, so one application at a time
writes the session files. It spawns one supervisor per session; the two meet
only in files, file locks, signals and the process table. A watcher thread per
launched session shares the memory with the operations, which exclude each
other by the `action_operation` mutex. The interface polls `status` once a
minute (`ui/src/features/runtime-atlas/RuntimeAtlas.tsx`). The CLI is a second
process that changes documents under their file locks. TokenMeter and DevConsole
are two applications that share one usage cache and one ledger.

### Modules

| Modules | Section |
|---|---|
| `SessionFiles` < `SessionSupervisor` < `SessionController` < `ActionSessions` < `SessionInvariant` < `MCActionSessions`; `SessionSlots` is the abstraction; `SessionProofs` | 2 |
| `UpdateInstall` < `MCUpdateInstall`, `UpdateProofs` | 3 |
| `Dashboard` < `DashboardInvariant` < `MCDashboard`, `DashboardProofs` | 4 |
| `CleanupArchive` < `MCCleanupArchive`, `CleanupProofs` | 5 |
| `UsageCache`, `SyncLedger` < `TokenScan` < `TokenUsage` < `UsageInvariant` < `MCTokenUsage`, `UsageProofs` | 6 |
| `UsageChart` < `MCUsageChart` | 7 |
| `Documents` < `LocalData` < `MCLocalData`, `LocalDataProofs`; `Registry` is the abstraction | 8 |
| `ProcessTable`, `ProcessRelations`, `Worktrees` < `RuntimeView` < `ActionReview` < `MCRuntimeView`, `ViewProofs` | 9 |
| `BoundedCommand` < `BoundedCommandProofs` | 10 |

(`A < B`: B extends A.) For every property of a passing run `PROJECT.json` names a
mutant, a plausible bug of the code under which TLC finds the property violated; the
mutated forms stand in the modules, before what they mutate.

## 2. Action sessions

| Module | Models |
|---|---|
| `SessionFiles` | the shared state, what a process can observe of a session, the effects on the files |
| `SessionSupervisor` | the supervisor of a session as an automaton, its death by SIGKILL, the watcher thread |
| `SessionController` | launch and stop, `stop_verified_supervisor`, `resolve_pending_session`, `cancel_pending_control` |
| `ActionSessions` | status, edits, exit, update, crashes and the environment; the properties |
| `SessionSlots` | the abstraction: one slot per key, and only the session in the slot may run |
| `SessionInvariant` | the inductive invariants: of the launch protocol (`SlotInv`), and of what operations report (`RunInv`) |
| `MCActionSessions` | symmetry and bounds for TLC |
| `SessionProofs` | the proofs: types and launch protocol, then reports and the refinement |

### State

| Variable | Code |
|---|---|
| `store`, `damaged` | the records of `action-sessions.json` (`pending` / `final`), whether it parses |
| `linked`, `cancelled` | `<id>.control` exists; its byte is 1 |
| `marker` | which of the two names of the marker exist (temporary, published) |
| `sup`, `term`, `cmd` | where the supervisor is, whether SIGTERM was sent, the command's process group |
| `active`, `phase` | `RuntimeMemory::active_runs`, the phase in `action_runs` |
| `watch` | the thread of `watch_action` |
| `op` | the operation that holds `action_operation`, with its step and its local variables |
| `registered`, `updating`, `appUp` | the configuration and git as seen by `registered_session`, the flag, the lease |
| `faults` | how many faults of each kind happened |

One operation runs at a time (the mutex); a step of it is one access to the
files, the process table or the memory, and everything else may happen in
between. A session id is a fresh UUID, so the identities of its files and its
process (pid with start time, inode) are abstracted to the id. `PidReuse` says
whether the pid of a dead supervisor may be that of another process, which
the code distinguishes from an unused one in `resolve_pending_session_with`
(RA 646-671). A deadline is a nondeterministic choice: whatever can be seen
before it or at it may be what the code acts on.

Left out: actions of kind Open (no session, no record), records of schema 1,
sessions files of a newer schema, output text and exit codes, files put into the
private directory by anyone else.

### Runs

The bounds are the constants of the `.cfg` files: `Ids` (sessions that can be
launched in a behaviour), `Keys` (action and worktree), and a bound per kind
of fault. Two sessions of one key are what every race of this protocol needs:
the old one and the new one; two keys are needed where an operation goes over
all sessions. No action and no disjunct of the next-state relation is cut off
by them beyond the number of sessions and faults. Deadlock is checked.

| Run | Instance | Shows |
|---|---|---|
| `SessionFault` | 2 sessions, 1 key, pids used again, one fault (`OneFault`): a crash of the application, a SIGKILL of a supervisor, or a failed write; with a fault and an unregistered key there is one session | `CancelledNeverRuns`, `LiveIsRecorded`, `ExclusiveRun`, `StopSound`, `EditSound`, `ForgottenRunIsOver`, `ImplementsSlots` |
| `SessionKeys` | 2 sessions, 2 keys; with both in use nothing is edited or damaged (`OneKeyDisturbed`), with one the sessions file may be damaged | `ShutdownSound`, `RunningFilesStay` |
| `SessionLiveness` | 1 session, 1 crash, 1 kill, fairness | `SlotInv`, `OperationEnds`, `WatchedRunEnds`, `DeadRecordSwept` |

* `CancelledNeverRuns`: the cancelled byte, written under the exclusive lock,
  and the gate, passed under the shared one, exclude each other.
* `LiveIsRecorded`, `ExclusiveRun`: no supervisor is lost, and no two run for
  one key, whatever is interrupted where.
* `ImplementsSlots`: the records are the slots of `SessionSlots`; a session is
  eligible only while it holds the slot of its key.
* `StopSound`, `EditSound`, `ShutdownSound`: what an operation reports is true
  of the processes at the moment it reports it.
* `RunningFilesStay`: the sweep of private files, when there are no records to
  read, takes none of a supervisor that lives.
* `ForgottenRunIsOver`: memory is not taken from a live session by a stale one.
* `OperationEnds`, `WatchedRunEnds`, `DeadRecordSwept`: the mutex comes back, a run
  whose supervisor ended does not stay active, a dead record is removed.

### Fairness

`FairSpec` assumes that the threads of the application run (`OperationStep`),
that a supervisor takes its steps, that a group that was sent SIGTERM ends at
the latest when the alarm of its supervisor fires (SUP 840-857), that the user
starts the application again, and that a status request of the polling
interface gets the mutex in the end. The watcher is fair once it has removed
the record; it is not assumed to start, because it joins the readers of the
command's output first (RA 2592-2597) and a detached descendant may hold the
pipe open. A run that ends is then still found by a status request.

### Limits of the code the properties except

* After a SIGKILL of a supervisor a stop succeeds while the process group of the
  command still runs (RA 1484). `Over` excepts a killed supervisor.
* A damaged sessions file is taken as empty by the next update of it (STO 217); a
  second supervisor of the same key can then start (RA 224, 1238). The safety
  properties carry `faults.damage = 0`, `RunningFilesStay` does not.
* After a shutdown whose installation failed, an adopted run stays in `active_runs`,
  and the action cannot be launched again (RA 1238, 1639). `WatchedRunEnds` excepts it.
* `action_runs` keeps the phase Pending of a record that another path removes (RA 2356).
* A pending record whose supervisor published its marker and died stays unverified
  where its pid is in use again (RA 667).
* A temporary marker or a control file left by a SIGKILL blocks edits and the exit (RA 310).
* One unregistered session that cannot be stopped makes `reconcile_sessions` fail
  before it sweeps the others (RA 545).

Three simplifications: a failing write of the records changes nothing here, although STO
313-315 may report an error after the new file is in place (`LocalData` models that; a
record more or less than reported is what the crashes between the steps leave too, and
the run with liveness allows no failing write). `Guard` reads memory, markers and records
in one step, while the code reads them one after the other (RA 242-266, 282-343, 375):
under the mutex what still runs can only become less. And the memory mutex is held within
single steps only: no operation waits for it.

### Proofs

For all values of the constants (any number of sessions, keys and faults), under
`NoneAssumption` and `BoundsAssumption`:

| Theorem | Statement |
|---|---|
| `TypeCorrect` | `Spec => []TypeOK` |
| `SlotInvariant` | `Spec => []SlotInv` |
| `CancelledSafe` | `Spec => []CancelledNeverRuns` |
| `LiveRecorded` | `Spec => []LiveIsRecorded` |
| `RunsExclude` | `Spec => []ExclusiveRun` |
| `RunInvariant` | `Spec => [](TypeOK /\ SlotInv /\ RunInv)` |
| `StopIsSound` | `Spec => StopSound` |
| `ShutdownIsSound` | `Spec => ShutdownSound` |
| `EditIsSound` | `Spec => EditSound` |
| `ForgetsOnlyEnded` | `Spec => ForgottenRunIsOver` |
| `RunningKeepsFiles` | `Spec => RunningFilesStay` |
| `SlotsAreImplemented` | `Spec /\ [](faults.damage = 0) => ImplementsSlots` |
| `SlotsExclude` | `Slots!Spec => []Slots!OneRunPerKey` |

`CancelledNeverRuns`, `LiveIsRecorded` and `ExclusiveRun` are not inductive: whether a supervisor may pass its gate
depends on which step the launch or the cancellation is at. `SlotInv`
(`SessionInvariant`) adds what holds at each step: which files exist when the
operation is at that step, what its copy of the document can differ in from the
file, that a launch owns a fresh id until it spawned, that a session
under cancellation is not gated, and that a record that is about to be removed
is of a session that cannot run. `SessionProofs` proves it preserved, one step per
action, from lemmas on the effects of `Upsert`, `Remove`, `DiscardFiles` and
the control flow of operations (`OperationEffects`).

What an operation reports needs more, `RunInv`: which kind of operation can be at a
step or in a procedure that several call (`KindInv`), that a stop past its lookup has
every record of its key in hand (`StopInv`), that a session whose marker can be seen
has started and an active run has come that far (`MarkerInv`, `ActiveInv`,
`ActivationInv`), and that a command outlives its supervisor only by a SIGKILL
(`CommandInv`). A report is then traced back: a step that ends an operation with "ok"
comes from a step with no record of the key left, and by `LiveIsRecorded` a session
without a record does not run.

The refinement is proved step by step: a step of the code draws an id, reserves,
starts, ends or releases one session, or leaves the slots alone. It showed that
`Reserve` of `SessionSlots` lacked its guard: the abstraction allowed a session that
was never drawn to take a slot, which the code never does. With a damaged sessions
file the refinement is false (see the limits above), hence its premise.

Only model-checked: liveness, which is out of the prover's reach.

## 3. Updater

`UpdateInstall` models `updater_install` and the shell transaction it starts to
replace the bundle of Runtime Atlas and its tool in `/usr/local/bin` (UPD
510-751). It is checked alone; what it shares with the managed actions is the
flag `update_shutdown`, whose other side (`shutdown_for_update_locked`,
`cancel_update_shutdown`) is in `SessionController` and `ActionSessions`.

| Variable | Code |
|---|---|
| `app`, `cli` | what is installed: a whole bundle `v1` or `v2`, `part`, or nothing |
| `places` | the staging and backup paths of an attempt, whose names carry a fresh suffix |
| `running`, `standalone` | the version that runs; whether it is Runtime Atlas itself |
| `updating` | the `update_shutdown` flag |
| `pc`, `script` | where an attempt is; the shell variables of its transaction |
| `orphan`, `lost`, `overlap` | history: the application of a script is gone; the machine stopped in a transaction; two scripts ran at a time |
| `outcome` | what the script reported |

One command of the script is one action. Each may fail, which enters the
rollback as the EXIT trap does, and each command of the rollback may fail too.
The application may be killed (its script runs on), the machine may stop, and
the user starts the application again. Check, download and the installation of
the other applications are done by the updater plugin, which the model keeps
external (`PluginInstall`).

Run `UpdateInstall` has two attempts, so an update may follow a failed or
interrupted one, or race it.

* `FlagHeld`: the flag is set exactly while one attempt of the running
  application is past its shutdown; the failure of another does not clear it.
* `InstallationKept`: the types, and: some whole bundle is left, in its place or as a
  backup (`AppSurvives`); no script running, bundle and tool are of one version
  (`Synchronized`).
* `ReportHolds`: success, "rollback completed" and the two kinds of incomplete
  end are true of the disk when they are reported.

Nothing in the code keeps two scripts apart once the application that started the
first was killed (UPD 575); such an overlap is part of the model, and the properties
of the disk except it. There is no liveness: osascript waits for the administrator
without a deadline (UPD 735). Deadlock is not checked: with no whole bundle in place
after the last attempt nothing can start.

For any set of attempts these are proved:

| Theorem | Statement |
|---|---|
| `UpdateInvariant` | `Spec => [](TypeOK /\ UpdateInv)` |
| `FlagIsHeld` | `Spec => []FlagHeld` |
| `InstallationIsKept` | `Spec => []InstallationKept` |
| `ReportsHold` | `Spec => ReportHolds` |

`UpdateInv` says for every command of the script what lies in the bundle's place, in
the tool's place, in the staging and in the backup paths when the script is about to
execute it, as far as its shell variables tell (`ScriptInv`), that an attempt before its
script has left nothing (`EarlyInv`), which kind of attempt can be where (`KindInv`), and
who holds the flag (`FlagInv`): the reports and `AppSurvives` are
consequences, and neither is inductive, as a rollback is right only because of what
the variables say of the renames before it. The proof showed that the cases of
`Sweep`, a CASE with overlapping guards, left open which one applied; they are now in the
order of the shell's `if`.

### A disagreement

`ClaimRollback` ends in a violation: the removal of the backup may fail half way
before the flag that forbids a rollback is set (UPD 636-638), the trap then replaces
the verified new bundle by the damaged backup and reports a completed rollback. The
test of the transaction (UPD 1098) reads that report as: the old version is back.
`ReportHolds` excepts this case, `halfRemoved`.

## 4. TokenMeter dashboard

`Dashboard` models the commands of TokenMeter on the state they share (TM
181-674, 912-946). `DashboardInvariant` states what holds at each step of a call,
`DashboardProofs` proves it.

| Variable | Code |
|---|---|
| `config` | the version of `settings.json` |
| `applied` | history: the version of the last change of this instance that reached `invalidate_dashboard_data` |
| `lock` | the `operation` mutex |
| `call` | the locals of a command: its kind and request, the settings it read, the window it scans for, whether its scan epoch was cancelled |
| `scan`, `loadedAfter` | `dashboard_data.scan` (as the settings and the window it was made with) and `loaded_after` |
| `account`, `generation`, `inFlight` | `dashboard_data.account`, `account_generation`, `account_query_in_flight` |
| `query`, `asked` | the thread of an account query; history: the settings that were saved when it began |

A step of a call is one acquisition of the data lock or of the settings file, one
scan, or one answer. Scans and queries may fail at any time. The counters
`scan_generation` and `account_generation` are only compared with an earlier copy
of themselves, so they are modelled by what that comparison tells: the flag
"cancelled since" and the call whose query is current. Times are windows
`0 .. MaxWindow`, 0 for everything, as `required_after` and `loaded_after` are
only compared. The scan is one step here; `TokenScan` (section 6) opens it.

A change of the settings is saved and then invalidates, both under the lock of the
settings file. The save may fail before or after the new file is in place
(`settings.rs` 107-113, `atomic_file.rs` 5-10: the sync of the directory comes after
the rename), and an error skips the invalidation (TM 233-236, 259-262). Other
instances of the host may change the file too (`ForeignChange`). After either, the
scan and the account query of the old settings stay until something else replaces
them; this is a limit of the code. So the properties compare with `applied`, the last
change that was invalidated for, and not with `config`.

Left out: the isolation of sources in updater QA, the change of the number format
(it touches none of this state), all of a cleanup but the scan it stores (section 5),
and the conversation with the Codex process.

Run `Dashboard` has 2 calls, 3 windows, 2 changes of the settings, and fairness:
`ScanCurrent`, `QueryOwned`, `AnswerRight`, `AccountNotStale`, `QueryEnds`,
`CallsReturn`. Two calls are a query or a scan and the change that overtakes it; what
holds of three (a query, the change that disowns it and its successor) and of more is
proved. `AccountNotStale` asks less of the refresh of the account than of the
queries that go with a scan: it reads the settings outside the operation lock, so
it may use the executable of before a change.

`FairSpec`: the threads of commands run and get the locks they wait for again and
again (strong fairness of `CallStep`), and an account query ends, at the latest by
its deadline of 15 seconds (weak fairness of `FetchAccount`). Cancellations are not
assumed. Deadlock is not checked: when every call has returned nothing is left to do.

For any set of calls and any `MaxWindow` and `MaxChanges`, under
`DashboardAssumption`, these are proved:

| Theorem | Statement |
|---|---|
| `TypeCorrect` | `Spec => []TypeOK` |
| `InvCorrect` | `Spec => []DashboardInv` |
| `ScanIsCurrent` | `Spec => []ScanCurrent` |
| `QueryIsOwned` | `Spec => []QueryOwned` |
| `AnswerIsRight` | `Spec => AnswerRight` |
| `AccountIsNotStale` | `Spec => AccountNotStale` |

`DashboardInv` has five parts: who is inside the operation lock (`LockInv`), that the
settings read there are not older than `applied` (`SettingsInv`), what window a call works for
(`WindowInv`), what the scan in memory was made with (`ScanInv`), and whose the
query is (`QueryInv`). `LockStep`, `DataStep` and `QueryStep` prove them preserved by
every step of a call; `Frame` says that a step leaves the other calls alone.
Liveness is only model-checked.

## 5. TokenMeter cleanup

`CleanupArchive` is `cleanup_preview` and `cleanup_apply`, one after the other under
the operation lock. A cleanup is a program of about twenty steps, each a group of
system calls that another process can come before:

1. a preview scans the sessions (`Scan`), which brings their usage into the cache and
   exports it to the ledger, and plans those whose usage both know (`PlanCleanup`);
2. applying takes the plan, whatever becomes of it, scans again, and collects the
   evidence anew (`RequestArchive`): the plan must still be the same;
3. the sources are opened and validated, written to an archive, the archive is
   inspected, published by a hard link and inspected again;
4. the sources are validated again, and renamed one by one into quarantine
   directories of their own, where each is verified: a source that is not the one
   expected is moved back if its path is free;
5. for each source the archive is inspected once more, the source verified and
   deleted;
6. the scan is repeated.

An error before the first deletion moves everything back, last source first; one
after it leaves the rest in quarantine and reports a partial removal. Every step
may fail, and the application may be killed before any step.

| Variable | Code |
|---|---|
| `home`, `quarantine` | what lies at the path of a source, and in the quarantine directory of a source and a cleanup |
| `zip`, `saved` | the archive of this cleanup; history: the files that a published archive holds |
| `cached`, `ledger` | what the usage cache has read at a path; the contents whose usage is exported |
| `plan` | `cleanup_plan`: the snapshot of a file and the content whose usage was cached |
| `op` | the step and the locals: the sources still to be moved, in quarantine, removed; `restored` of `rollback_all`; `strayed`, the source that could not be moved back |
| `result` | what the last cleanup reported |
| `born`, `arrivals`, `forgone`, `late` | history: the newest file of a path, how many files came to lie at one; the files somebody else gave up; the sources touched between the last check and the deletion or rename |

Others are actions of their own: a session grows, by its path or through a file that
Codex has open; a new file appears at the path, or is renamed over a session (with old
times, as a restored copy has); the other application scans between this one's scan
and its evidence; the archive is damaged. Snapshots compare identity, size and digest,
so a content is a file with or without more in it.

Run `Cleanup`: 2 sources, 1 later file per path, 2 cleanups, 1 damaged archive. Two
sources are the least for which a rollback has something to move back when a move
fails, and a partial removal has one removed and one retained; the second cleanup works
on what a failed or killed one has left. Deadlock is not checked: after the last cleanup
nothing is left to do.

- `ArchiveKept`: the types; every file is at its path, in quarantine or in a published
  archive unless somebody else gave it up (`NothingLost`, violated without the
  inspection before each deletion); the usage of what is removed is in the ledger
  (`UsageKept`, violated if a failed export did not stop the cleanup).
- `OthersSurvive`: a step of a cleanup destroys neither what Codex wrote since nor
  another file. Between the last verification and the `remove_file`, and between
  `exists` and `rename`, nothing protects them: these windows are the code's own
  limit, and the property excepts exactly the sources that were touched in them.
- `ReportExact`: the report is true of every source. It excepts one: a source that
  `quarantine` found to be another file, while a third one has appeared at its path,
  stays in quarantine, and the error is `SourceChanged` and not `RollbackFailed`.
  The scan at the end may fail, so an error is also reported after all sources were
  archived and removed; the property allows all or none.

For any number of sources, cleanups, new files and damaged archives these are proved:

| Theorem | Statement |
|---|---|
| `CleanupInvariant` | `Spec => [](Types /\ CleanupInv)` |
| `ArchiveIsKept` | `Spec => []ArchiveKept` |
| `OthersDoSurvive` | `Spec => OthersSurvive` |
| `ReportsAreExact` | `Spec => ReportExact` |

`CleanupInv` (in `CleanupProofs`) says where the sources of a cleanup are at each of its
steps (`OpInv`: to be moved, in quarantine, removed, restored or strayed, and these are
all); that what is planned was in the ledger before the request was accepted
(`LedgerInv`); that the quarantine directory of a cleanup is fresh, and everything in it
is accounted for (`FreshInv`, `KnownInv`, `HeldInv`); and what was verified of the source
at hand (`VerifiedInv`, `ReturningInv`). It needs that no file is at two places and that
new files are new (`PlaceInv`, `AgeInv`): a rename may put back only what it took.
`ArchiveKept` alone is not inductive, as a deletion is right only because the
inspection before it found the archive whole.

Left out: sessions without any usage, a file replaced by one of the same size and
time (the cache takes it for unchanged), the temporary file of the archive, unsafe
paths, and the pruning of empty directories. Quarantine directories are hidden and
no scan reads them: what a killed cleanup left there stays until the user moves it. A
rebuild (section 6) writes the ledger anew from the logs that are left, so the usage
of archived sessions leaves it; the model of the cleanup has no rebuild.

## 6. TokenMeter usage

One scan of `TokenMeterState::scan` (TM 594-674), step by step, over the cache
(`UsageCache`: one operator per transaction), the logs and Hermes (`TokenScan`) and the
ledgers (`SyncLedger`: lines, offsets, replacement). `TokenUsage` adds the exchange with
the sync folder, the environment and the properties; `UsageInvariant` states what holds
at every step of a scan, and `UsageProofs` proves it.

| Variable | Code |
|---|---|
| `cache` | the SQLite file: origins (path, size, identity, parser version), rows, checkpoints |
| `logs` | per path whole lines, a tail, and whether it changed recently |
| `meter`, `spent` | the counters of a Hermes session; history: what it really used |
| `ledger` | the files of the sync folder: identity, lines, tail, whether only in the cloud |
| `host` | the scan of an instance of the application, with its locals |
| `disturbed` | history: the scans that overlapped another change |
| `used` | what the bounds count |

Logs grow by whole or cut lines, are archived, copied and deleted; Hermes counts and
starts over; the cloud service delivers, replaces, evicts and removes ledgers. Scans are
of a window, of everything, or a rebuild, on a cache that is empty, current, or left by
an earlier version.

What can fail, each time with what the code does then:

* a read (`Works`): a root that cannot be listed makes the scan incomplete; a log whose
  new lines cannot be read is read whole, and one that cannot be read at all is stored as
  unreadable; a snapshot of the own ledger that cannot be taken tells the writer nothing;
* the list of the ledgers: none is shown; a ledger that cannot be opened or read, or is
  gone: it is skipped and counted (`sync_store.rs` 342-346), the scan is not `completed`,
  nothing in the cache is forgotten, and all ledgers are read without the cache, where
  each may fail once more (`Uncached`). `failed` names the ledgers counted so;
* the export (`FailExport`): nothing is left of it, or an append whole or in part, or the
  new file is in place already although the swap reports an error. The cache is not told
  of it, and the import goes on;
* a scan that is cancelled between two steps, or whose host ends (`Abort`).

Run `TokenUsage`: one host, one file of each kind, two devices, two lines, two scans,
two changes or errors at any step. A second scan is what increments are about; the
changes are shared with the errors (`Budget`), because each defect of an increment
takes one of them between the scans or inside one.

* `CountedExactly`: usage read on this device is shown once, although its log was
  appended to, archived, copied or read by an earlier version; a scan of all files
  misses none; a ledger written anew adds nothing unknown.
* `ImportExact`: other devices are shown exactly as their ledgers stand, read whole or
  from where the cache left off; of a ledger the scan counts as unreadable it shows
  nothing, and it skips no other. Before a scan nothing is shown that the ledgers do not
  hold now.
* `ExportComplete`: after a complete scan whose export did not fail the own ledger
  holds every event shown that was read here.
* `StoresSound`: the cache and the own ledger hold what they hold once, although the
  writer trusts the cache for what the ledger holds.

They are stated of a scan that was alone: one disturbed half way shows a mixture, and
the next makes it good. Deadlock is not checked: after the last scan nothing is left.

Limits of the code, outside of the bounds or the statements:

* Two instances: `clear()` of one (`cache.rs` 804) between the other's decision to trust
  the cache and its `append_sync_events` (`cache.rs` 433) leaves only the last rows
  known, and the next export repeats records.
* A device whose ledger cannot be read for a moment is shown without any usage, although
  the cache may hold all of it, and the status counts one unreadable file
  (`sync_store.rs` 342-346, 483-530).
* A log that could not be read stays unread until it changes or the cache is rebuilt: the
  error is stored for that size of the file (`scanner.rs` 322-349).
* A rebuild while Hermes is busy resets the checkpoints, so its counters start over
  while the own ledger keeps the old sequence: usage is counted twice.
* A full scan after an upgrade of the parser appends to the ledger and does not replace it.
* A Claude request that was exported early is never updated in the ledger.
* A scan that is cancelled between storing a log and removing the overlap of archived
  sessions leaves both; if the archived file is then deleted the overlap stays.

Abstractions: modification times (in the model every change of a file changes its size
or its identity), the refresh window of recent events, SQL and its failures, migrations
(one version number), a sync folder that is missing as a whole, the bytes of a record,
JSON parsing.

### Proofs

For any logs, Hermes sessions, devices, scans, changes and errors, under
`UsageAssumption`, `ProofAssumption` (finitely many logs and sessions, and `NoFile` is
no file) and for one instance of the application (`OneHost`):

| Theorem | Statement |
|---|---|
| `UsageInductive` | `Spec => []UsageInv` |
| `StoresSoundHolds` | `Spec => []StoresSound` |
| `ExportCompleteHolds` | `Spec => []ExportComplete` |
| `ImportExactHolds` | `Spec => []ImportExact` |

`OneHost` is no convenience: with two instances the invariant is false, by the first of
the limits above. The rest of the environment is unrestricted: ledgers of other devices
come, change and go at any step, logs grow and move, and reads and writes fail as above.

Everything rests on `CoherentInv`: as long as a ledger is the file the cache has read,
the rows of the cache stand for exactly the lines up to the cached size (`Covers`). An
import that continues from there (`StatInv`: the cache still ends where the read
begins) keeps it, one that starts anew restores it, and a ledger that was
replaced has another identity. From it the writer of the own ledger is told the truth
(`HintsInv`: the keys of the cache are those of the lines), so no line is written twice
(`LedgerInv`), also by an append that was cut half way, whose rest is a line nobody can
read. `ExportInv` says that what was exported stays in the ledger until the scan ends,
`ImportInv` which ledgers the cache has as they are while the import is under way (all
that were found, unless one was skipped), and `ShownInv` follows at its end, with the
ledgers that were counted as unreadable left out. `ScanInv` is what a scan holds at each of its steps: events
of different files have different identities, and a log is parsed into each identity
once. TLC checked `UsageInv` on the instance of the run (514 000 states) before it was
proved, and finds it violated when `replace_events` leaves the rows of the earlier file.

The lemmas come in that order: rows and origins under every operation of the cache, the
lines under appends, cuts and reads (`ReadFacts`), then one lemma per step of a scan and
per part of the invariant, and the environment. `CountedExactly` is not among the
theorems: it sums the usage of Hermes sessions, and a sum over a set is a fold, about
which only induction over data could say anything in general. Its part on logs (moved,
copied or read by an earlier version) would need an account of which rows of which
path survive the removal of an overlap; `UsageInv` only says that each path has one row
for each event. It is model-checked.

## 7. Charts

`UsageChart` is the pure part of the dashboard: ranges, buckets in local time, filters
and what of the events is loaded, as functions of events, zone, time and request. A zone
changes its offset once; `resolve_local` takes the first of two instants, and of none
the first after the gap.

Run `UsageChart`: two events in 12 half hours of three short days, zones that change
their offset by up to an hour either way, at four instants. Two events are what meets in
one bucket or must not. Events of different projects and models only in a zone
without a change (`OneVariety`): filters do not look at times beyond the range.

* `ChartExact`: every event of the range is in exactly one bucket of the chart, in every
  range and bucket size. It excepts what follows.
* `DashboardSound`: the events loaded from the start of the previous period on give the
  same dashboard as all events (`WindowEnough`), and the filters that are applied are
  among those offered and never hide all usage of a range that has some
  (`SelectionOffered`).

Where the code's chart is not exact:

* In an hour that the zone repeats, `filled_buckets` (`aggregation.rs` 426) ends at
  `bucket.start(now)`, which is the first of two instants (549-574): at the second 02:10
  a chart of the last hour has one bucket while the total counts everything.
* A midnight that the zone leaves out (Santiago, Cairo, Beirut), or an offset that is
  not a whole bucket (Lord Howe): the later buckets miss their keys.
* "All" with 801 to 2000 hourly or 401 to 2000 daily buckets is cut to the first 800 or
  400 (`dashboard.rs` 395, 341).

Left out: the filters of device and source, rows and their limits, `change_percent`.

## 8. Documents

`Documents` says what the calls do to a document, `Registry` what the stores promise: a
call takes effect at one instant on the document as it then is, or not at all; success
means it took effect; nobody sees a document half written. It has two exceptions, which
are what the code does: a configuration that cannot be read, damaged or not, is set aside
and replaced by an empty one (`SetAside`), which a successful call reports, and on Windows
a document may be lost (`Lose`). `LocalData` is the code:
lock, load, change, temporary file, replace, backup, recovery of a damaged file (STO
178-510), the same for the bindings (STO 63-149, `databases.rs`), and `stop_action` (RA 1054-1226), which
stops the containers of a worktree that no process uses any more.

| Variable | Code |
|---|---|
| `windows`, `alive` | the platform; the owners that run |
| `file`, `lock` | per document what is on disk, and the holder of the file lock |
| `call`, `answer` | per process the call with its draft, and the answer of the last |
| `origin`, `running`, `clean` | where an owner runs, the containers, the `stop_action` under way |
| `claims` | history: registrations reported as done and not released |

The desktop application and the CLI are processes alike. Every step may fail or be the
last one, and a document may be damaged or written by a newer version. The reads may fail
too: `fs::read(..).ok()` takes a good configuration that cannot be read for a damaged one
(`Readings`, STO 200-212 and 225-236), so `load` answers an empty one with a notice and an
update moves the good one aside; bindings that cannot be read are an error (STO 94-105).

Run `LocalData`: two processes, two repositories, two owners, one container, two calls
about one document (`OneDocument`: they share nothing), two faults (`TwoFaults`: the
second only in the recovery from the first).

* `ImplementsRegistry`: `LocalData` implements `Registry`, under the mapping that a
  document is in its backup while a replacement is being recovered. So no update is lost
  without a notice, but one may be lost with it: a failed read costs the whole
  configuration, which stays on the disk only under its `.corrupt-` name.
* `DatabaseInUseStays`: `docker stop` is not sent to a container that a live process
  has registered and not released.

Deadlock is not checked: the calls are bounded. Limits: a failed read of the configuration
gives it up (above), and if the call fails afterwards its error does not say so; on Windows a crash, or a second
failure, in the recovery of a failed `ReplaceFileW` loses the document (action `Lose` of
`Registry`); databases are never stopped on Windows (`verify_worktrees_idle`). Left out:
records of older versions without an identity, a container created anew under its name,
the process lease (STO 151-170): one application is assumed, and a `path.exists()` that is
false although the file is there (its metadata cannot be read).

### Proofs

For any number of processes, repositories, owners, worktrees, containers and faults,
under `DocumentsAssumption` and `LocalDataAssumption` (the values that stand for "none",
"no file", "damaged" and "unusable" are not documents, calls or processes):

| Theorem | Statement |
|---|---|
| `StoreInvariant` | `Spec => []IInv` |
| `RegistryIsImplemented` | `Spec => ImplementsRegistry` |
| `DatabaseIsKept` | `Spec => DatabaseInUseStays` |

What makes a store right is that a draft is still good when it is written: `CallSound`
says that a call past its change holds the lock of its document, that the change is one
of the document *as it still is* (`Prepared`), and that a document being recovered is in
its backup and nowhere else. With it every step is mapped: `Replace` and a recovery that
succeeds are the instant of the call (`TakeEffect`), a recovery that fails twice, or
whose process dies, is `Lose`, a call that cannot read its configuration is `SetAside` at
its beginning (`BeginMaps`; by `Reading` what it reads is the document, or the damage it
takes it for), the rest leaves what others see alone (`Seen`, by the
lemmas on it) or is the step of the same name.

`DatabaseInUseStays` relates a registration, made by one process, to a decision of
another: `ClaimsStored` says that every claim is in the bindings, and in the draft of
every call that is about to replace them; it needs that nobody works on the same
registration (`ClaimsApart`, which a call that is not `alone` cannot claim) and that a
call drops only owners that have exited, so that no draft loses a live one
(`OwnersKnown`: who is registered has run, and a pid with its start time does not
run twice). `CleanSound` adds that the cleanup decides under the lock of the bindings,
so what it saw of them is so when it sends the stop. On Windows, where a
document may be lost, `ClaimsStored` is not claimed; there nothing is ever stopped
(`clean.safe => ~windows`). Neither property is inductive without these. TLC checked
`IInv` on the instance of the run before it was proved.

## 9. Observation, view and reviews

| Module | Models |
|---|---|
| `ProcessTable` | the processes of macOS: born, ended, pids used again, directories, ports; who was born below whom |
| `ProcessRelations` | which worktree a process belongs to (`relations.rs`) |
| `Worktrees` | git's worktrees, their order by stored keys, recent ones, navigation (`repository.rs`, `git.rs`) |
| `RuntimeView` | status, stop of a process, links, arranging, navigation (RA, `observe.rs`, STO 520-640) |
| `ActionReview` | plan, confirm, restart, and the edits of an action and its repository (RA 908-1052, `actions.rs`) |
| `MCRuntimeView` | the instance: each step of it is one of `Next` |
| `ViewProofs` | the proofs |

Sorting and filtering are written without recursion (`Arrange`: the element with k
indices up to it comes k-th; `SubtreeOf`: who is in every set that has the root and the
children of its members), so that proofs can speak of them.

`status` looks three times (listeners, directories, identities), a stop looks again at
each ancestor, lists the tree, reads the facts of its processes one by one, signals them
one by one and waits. Each look is a step, and the process table changes between any
two. What a launch does from the spawn on is `ActionSessions`.

Run `RuntimeView` has three focuses, as the parts meet in few variables: processes (a
shell, a server, a worker, one pid used again), worktrees (three, one change on disk,
`RecentLimit` 2), and reviews (two tokens, two definitions, the repository registered
anew), until no token is left to be given out or taken. Deadlock is not checked: calls and
tokens are bounded.

* `StopConfined`: a signal goes only to a process born below the run, the session or
  the database owner the user pointed at, however pids changed hands, and only if
  that process really listened there. This needs `OneHandover` (below), which one reuse
  of a pid per behaviour (`MaxReuse` 1) never breaks.
* `StopComplete`: a stop that reports success has ended every process that was below the
  root when the tree was listed. One that finds the supervisor of the session already
  ended (RA 1480-1488, 1817) lists nothing and reports success too; it promises no more
  than that the supervisor has ended (`ValidateSession`).
* `NavigationSound`: navigation and recent worktrees offer only worktrees the last
  snapshot showed as available, none twice.
* `OrderKept`: worktrees that are recognised stay in the user's order, whatever the others
  do. One is recognised by its folder, or, in a folder nobody arranged, by its head if no
  worktree arranged before it had the same one. Two of the three worktrees of the instance
  start detached at one commit: of those, any that moves takes the place of the first.
* `LaunchReviewed`: what is launched is what the user was shown under that token, once,
  still defined so and in worktrees that were there at the last look before the start
  (`LastLook`, RA 1323); no run is stopped for a restart whose action has changed since.

### Proofs

For any pids, births, reuses, worktrees, places, definitions and reviews, under
`ProcessAssumption` and `ViewAssumption`, and from any processes, records and worktrees
the application may find when it starts (`ViewInit`):

| Theorem | Statement |
|---|---|
| `WorktreeInvariant` | `Spec => []WorktreeInv` |
| `NavigationIsSound` | `Spec => []NavigationSound` |
| `OrderIsKept` | `Spec => []OrderKept` |
| `StopInvariant` | `Spec => [](KernelInv /\ StopInv)` |
| `StopIsComplete` | `Spec => []StopComplete` |
| `StopIsConfined` | `Spec /\ []OneHandover => []StopConfined` |
| `LaunchesAreReviewed` | `Spec => LaunchReviewed` |

`WorktreeInv` says that no two worktrees share a folder (heads they may share),
that the stored keys are those of the worktrees the user arranged, pairwise (`OrderInv`),
and that recent paths and navigation lie in the last snapshot (`NavInv`). `OrderKept`
then follows from what sorting does: `Positions` (every index has its own position),
`Ranked` (a recognised worktree has the rank of the place it was given) and the
stability of `SortWorktrees`.

`StopInv` says at every step of a stop what the looks so far have established although
the processes went on: `WitnessInv` (the target is among the processes that really
listened there), `ChainInv` (each fact of the ancestry names as parent the last process
born under that pid before it, `Honest`, hence a true ancestor), `RootInv`, `TreeInv` (no
process was born under a member's pid between that member and the listing), and
`TruthInv` (whoever was below the root at the listing is in the list, later in the tree,
or dead). From `TruthInv` a stop is complete without any further premise.

Confinement is not: `verified_tree` accepts a child whose parent pid is the listed one
and whose parent started before it (OBS 87-91). When two pids of the listing are
handed out anew while it reads the facts, the second one born below the first, that
test is passed by a process that was never below the root, and the tree takes it in; TLC
finds that behaviour with `MaxReuse` 2. `OneHandover` excludes just this: at most one
pid of the listing is reused while the tree is verified. That takes a wrap-around of the
pid counter within milliseconds, twice.

`ReviewInv` (a token stands for one review until it is confirmed, then for at most one
launch; a run is stopped only under the definition that was reviewed) and `WorktreeInv`
give `LaunchReviewed`.

### Limits and abstractions

Limits of the code: children started after the listing survive; a displayed server that
leaves the tree between ancestry and listing is not stopped although success is
reported; the stop of a session whose supervisor ends before the tree is listed reports
success with the server possibly alive (RA 1480-1488); of several worktrees detached at
one commit any that moves takes the place of the first (`repository.rs` 181); a worktree
that vanishes between the last look of a launch and its spawn (RA 1323, 1333) is not
noticed; on Windows the directory is
unknown, so a process is never stopped, and a stale parent pid makes `verified_tree`
refuse; a linked worktree registered beside its repository lists every worktree twice and
makes relations ambiguous (RA 1649, STO 520): the model has one registration at a time;
beyond 20 worktrees the navigation reaches only 20.

Abstractions: the check of an identity and the
signal that follows in one step, zombies, process names, ports, the spelling of paths,
`link_process` in one step. Refusal during an update is in `ActionSessions`.

## 10. Bounded commands

`BoundedCommand` is `output_with_timeout` (`command.rs` 15-180): spawn, drain both pipes
without blocking (macOS) or with a thread each behind a job object (Windows), poll for
the end, kill the group or job at the deadline, reap. The command and its descendants
fork, write, close their ends, leave the group (`setsid`), end, or never do.

Run `BoundedCommand`: two descendants (one to hold a pipe, one to escape), a pipe of one
chunk, two reads in a row, output counted up to two chunks, a deadline of one tick.

* `AnswerHonest`: output is returned only whole, after the end of the command and of
  everything that could write; an error leaves nothing in the group or job.
* `CallReturns`: the call returns, whatever the command does.

Fairness: the thread of the call runs, time passes, and what was killed ends. That any
step fails is never assumed. Deadlock is not checked: a call that returned is over.
Proved for any number of descendants, any pipe, deadline and output:
`CommandInvariant` (`Spec => [](Types /\ CommandInv)`) and `AnswerIsHonest`
(`Spec => []AnswerHonest`). `CommandInv` says what is left of the group, the job and
the ends of the pipes at every step of the call, and what the reader has concluded.

Left out: systems other than the two, and reuse of a process-group id (after the child
is reaped, with only an escaped process holding a pipe, `kill(-pid)` could meet one).

## 11. Coverage, limits and plan

Proved for all values of the constants: the theorems of sections 2, 3, 4, 5, 6, 8, 9 and 10,
that is every safety property of their runs but `CountedExactly` (`ImplementsSlots` as
long as the sessions file is not damaged, `StopConfined` under `OneHandover`, section 6
under `OneHost`). Only model-checked, on the bounds named
above:

* liveness, out of the prover's reach: `OperationEnds`, `WatchedRunEnds`,
  `DeadRecordSwept`, `QueryEnds`, `CallsReturn` and `CallReturns`;
* `CountedExactly` (section 6): the usage of a Hermes session is a fold over the events
  shown, whose general statement needs induction over data;
* section 7: `UsageChart` walks a calendar with recursive operators, which the prover
  cannot reason about.

### Not modelled

* `SUP` on Windows (jobs, consoles) and the signal handlers of macOS in full: the
  supervisor is an automaton whose command ends by `CommandEnds`.
* The conversation with the Codex process and the history of account limits
  (`account_service.rs`): only the query in flight and its answer are.
* Docker, git, lsof and ps as programs, and the parsing of what they print; log line
  parsers; templates, quoting and redaction: string processing without state.
* The interface (it polls and shows), printing of the CLI, build scripts.
* The process lease: one application is assumed, except in section 6, which is written
  for any number, and checked and proved for one.

### Plan

1. `SupervisorUnix`: signal handlers, alarm and process group, to justify
   `CommandEnds`; then `SupervisorWindows`.
2. `AccountService`: one query in flight, its deadline, the history and its pruning.
3. `DashboardView`: the interface of TokenMeter, which orders answers by sequence numbers.
