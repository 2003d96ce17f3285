# opensip-cli: TLA+ models

opensip-cli is a command line host for code-quality tools (`packages/*`). Most
of the repository is pure: parsers, rules, formatters, schemas. What is hard to
get right is the coordination below them. Commands, the commands they spawn,
an MCP server and maintenance operations run as separate processes over one
user directory (`~/.opensip-cli`) and many project directories. There is no
server between them, only files, and any of them may die at any system call.
The models here are about that layer.

| module | what it is |
| --- | --- |
| `FileLock` | `packages/core/src/lib/file-lock.ts`, one action per system call |
| `FileLockProofs` | its theorems, and that `FileLock` implements `LeaseTable` |
| `RuntimeLease` | `packages/core/src/lib/runtime-lease.ts`, one action per critical section |
| `LeaseTable` | what the leases promise: a table of grants that never clash |
| `RuntimeLeaseProofs` | its theorems, and that `RuntimeLease` implements `LeaseTable` |
| `RuntimeStoreProofs` | theorems about its files: recovery records, leaks, bounds, order of newcomers, no circular wait |
| `UserRemoval` | `packages/cli/src/commands/uninstall`, the crash-recoverable uninstall |
| `DirectoryRemoval` | what the uninstall promises: a directory is taken away as a whole, then deleted |
| `UserRemovalProofs` | its theorems, and that `UserRemoval` implements `DirectoryRemoval` |
| `UnitExecution` | `packages/core/src/lib/execution`, as the recipe services of fit and sim use it |
| `UnitExecutionProofs` | its theorems |
| `CatalogGeneration` | the generations of the MCP server's graph catalog, `packages/mcp/src/catalog-generation*.ts` |
| `CatalogGenerationProofs` | its theorems |
| `RuntimePromotion` | the journaled transactions of `opensip init`: `packages/cli/src/commands/init/runtime-promotion-*.ts` and `authored-state-transaction-*.ts` |
| `RuntimePromotionProofs` | its theorems: types, and that nothing is lost |
| `RuntimeOutcomeProofs` | its theorem about the outcome of a closed promotion |
| `MC*` and `MC*_*.cfg` | instances for TLC |

`PROJECT.json` maps every definition to the lines it translates.

## Inventory

Components that keep state or run concurrently come first, in the order of
their importance.

**Interprocess file lock** (core, `file-lock.ts`). State: one lock file per
resource, a temporary per attempt, heartbeat timers. Operations:
`withFileLock`, `withFileLockAsync`. A lock is published by a hard link, so a
crash can leave a record with two names; a contender settles that, or recovers
the record of a dead owner, without a lock of its own. Correct when two
callbacks do not run at once, when a live owner's record stays, and when every
call ends. Hard: every step is a system call that interleaves with those of
other processes and hosts.

**Runtime leases** (core, `runtime-lease.ts`). State: per project and for the
user a directory of reader records with reference counts and sequences, a queue
of writers with phases, an Init promotion journal per project, a receipt of the
user uninstall. Operations: acquire and release of shared, project-exclusive and
global leases, inheritance from the parent process, recovery postures, the
changes of the recovery records. Used by every command (`startup-runtime-lease.ts`,
`host-runtime-access.ts`), by init, uninstall, status and the pruning of
ephemeral runtimes. Hard: order among readers and writers, re-entrance, cleanup
after failures, a child that would wait for its own parent.

**User-level uninstall** (cli, `commands/uninstall`). State: the user root, a
tombstone, a marker file in either, the receipt. Operations: inspect, confirm,
acquire, then a journaled rename-and-delete; the same code recovers. Hard: a
crash between any two calls, and again during the recovery; a user root that
reappears; a view of the receipt that is stale after the user has answered.

**Unit execution** (core, `execution/`). A unit's work, its budget and the
interrupt race; a sliding window of units must drain after a stop. Correct when
each unit is reported once and the schedule always settles.

**Graph catalog generations** (mcp, `catalog-generation.ts`). One loaded
generation, a coalesced capture, a single refresh in flight, against another
process that writes the catalog. Correct when a query sees one generation, a
failure keeps the previous one and a forced refresh rebuilds.

**Runtime promotion and authored-state transaction** (cli, `commands/init`). A
journal per project with forward, rollback and cleanup phases, around a second
journaled transaction over authored files. Correct when a crash anywhere leads
to the committed or to the original state. Hard: each of the mutations of the
file system can be the last one before a crash, and so can each of its replay's.
The journal's interface to the leases (open, closed and malformed journals, and
who may change them) is part of `RuntimeLease`.

**Others.** Suite orchestration (steps, stop conditions, a run ledger), external
tool workers (request and reply with a forked process that may die), session
retention (bounded passes of short transactions), ephemeral runtimes (pruning
against live owners), graph shards (workers, one published catalog), datastore
(SQLite transactions, checkpoints under the file lock), agent evaluation
(process trees). They are candidates for later modules. The rest (checks,
language adapters, configuration, targeting, output, dashboard, contracts, the
tool adapters) computes results from inputs and keeps no state between calls.

How they interact: every command takes a startup lease before it reads state,
releases it or hands it to its action, and the actions of init and uninstall
take exclusive leases of their own. All lease state is changed inside one
coordination mutex. The datastore uses the file lock, independently of the leases.
A child process finds its parent's registration in the reader records.

## FileLock

A process moves through the calls of `tryAcquireLock` and
`evaluateLockContention`; `lock` is the record at the path and `temp` the
temporaries that are still linked to it. The identity of a record is owner, call and heartbeat, so two
records are the same exactly when inode and content are. `Tick` is one heartbeat
period: asynchronous owners have their timers run in time, synchronous owners
cannot beat. A foreign owner is condemned after `Horizon` unchanged periods; an
owner on the same host by a probe of its process. Crashes are limited to
`MayCrash`, calls to `MaxCalls`, heartbeats to `MaxBeats`.

* `filelock_foreign` (1.0 M states): three processes, two hosts, one crash.
  Exclusion unless raced, the callback owns its record, no live record is removed
  by others.
* `filelock_live` (23 k states): every call returns, and a proven-dead owner's
  record goes, also when a corrupt record is there to begin with. Fairness: weak
  for the next call of a live process, its heartbeat timer, the end of its
  callback and the clock, which the operating system schedules; strong for the
  deadline, as a loop that keeps passing the deadline check meets it late.
* `MCFileLock_exclusion.cfg`, `MCFileLock_publication.cfg` and
  `MCFileLock_malformed.cfg` are counterexamples, kept to be run by hand: two
  contenders can recover one dead owner's record such that the slower one unlinks
  the faster one's new record, and two callbacks run; a contender can complete the
  publication of a live owner, whose call then fails; a contender can call a
  healthy successor malformed. `MCFileLock_table.cfg`, by hand too, passes: it
  checks the refinement below on the instance of `filelock_foreign`.

Three processes are enough for the races: an owner, and two contenders that
disagree about it. Two heartbeats within a horizon of two let a record age, be
replaced and age again.

*Proved* (`FileLockProofs`, for all processes, hosts, calls and heartbeats):
`TypeCorrect`, `CallbackOwnsRecord`, `ExclusionUnlessRaced`, `LiveRecordsStay`.
The first counterexample is excluded by the ghost `raced`, which is set when an unlink
or rename hits another record than the one just compared. Assumption:
`HorizonAssumption`: the horizon spans two heartbeats or more, which
`normalizeLockPolicy` ensures, and when a synchronous callback is used, which
blocks its own heartbeat, all processes are on one host. The invariant says which
records a reader may have in its hands: none of a call that has not published
(`Fresh`), none of an active owner once it is condemned (`Innocent`), because
nobody can age the record of an owner whose heartbeat is in time (`Timely`), and a
process that is about to unlink its own record holds its own (`OwnDrop`).

`LockImplementsTable` (`ImplementsTable`): the lock refines `LeaseTable`, the promise
that the runtime leases refine. A caller holds the one exclusive lease of the path from
`linkSync` until it drops its record, fails, times out or dies; every other call of the
protocol stutters. The mapping (`Granted`) voids the table at the first race, so the
theorem needs no hypothesis and says nothing of what follows a race. The link is the
one granting step: the path was free, and by `Protected` a caller that publishes or is
inside would have had its record there.

What is not guaranteed: the two hazards of `PROJECT.json` at `file-lock.ts:418` and at
`506` (and `629`) have no property that would catch them, because the code admits them. The
counterexamples above show what they lead to; the properties and theorems speak of runs
in which no such race has happened. The `lstat` and the `unlink` of a temporary
(`SettleTemp`) are one step.

Not modelled: records of unproven hosts and legacy formats (refused or
treated as foreign), the caching of a probe's answer beyond one call.

## RuntimeLease and LeaseTable

A handle is one call of an acquire function and the lease it returns. A critical
section of the coordination mutex is one action: `Register` and `Inherit` for
readers, `Enqueue` and `Progress` for writers, `LeaveShared` and `LeaveWriter`
for the release and for the cleanup of a failed call. Between them the caller
polls. `reader[d][o]` is the record of owner `o` in dimension `d` (a project or
`User`); its references are the handles it counts. `writer[o]` is the request of
an owner, queued or with its intent declared. Failures (`Faulty`) strike inside
of a section where the code can leave half of its work, crashes between sections;
`Hasty` handles may meet their deadline; the holder of a `Supervisors` handle
waits for the calls of its child processes. Menus in `MCRuntimeLease` choose the
requests each handle may make.

* `lease_mix`: exclusion, held leases are recorded, intents are the oldest of
  their scope, nothing is left behind (checked in this run only), and the step-by-step refinement of
  `LeaseTable`. Two leases of one owner, so that references, added dimensions and
  user state under a project writer all occur. The first handle is the one whose
  sections fail, and it may ask for a project and user state at once, so a section
  can also write or remove one of two records and fail at the other.
* `lease_spawn`: a command, its child, a writer and one more caller, with room
  for two readers and one reference: no circular wait, nothing passes a declared
  writer, every record stays parseable at its bound.
* `lease_recovery`: every recovery record a crash can leave, every posture:
  a recovery record is changed only under its own exclusive lease, and nothing
  reads a scope that needs recovery. Under fair polling every call ends, also
  when the writer in front of it dies.
* `lease_add_project`: a finding. An owner that adds a project to user state can
  deadlock with two writers until a deadline. `MCRuntimeLease_adduser.cfg`, to be
  run by hand, is its counterpart: an owner that adds user state to a project
  lease takes a new place in the order.

`CHECK_DEADLOCK FALSE` in these runs: `MaxCalls` calls per handle and then the
callers have finished.

Fairness is weak and only on `AcquireShared`, `AcquireWriter` and `Leave`: the
acquire loops poll on a timer, and a lease's holder releases it. A call whose
deadline can pass is not assumed to use it.

*Proved* (`RuntimeLeaseProofs`): `TypeCorrect`, `Exclusion`, `HeldRecorded`,
`IntentOrder` and `LeasesImplementTable`. None of the properties is inductive.
The invariant adds: an owner's writer record belongs to a call that is under way
(`OwnWriter`), a held reference is inscribed in each dimension it covers
(`OwnReader`), writers' sequences have been issued (`WritersIssued`), a declared
intent is older than every conflicting request (`IntentIsOldest`), and the scope
of a writer that was acquired, also while its release is retried, has no live
reader (`Emptied`). Exclusion among writers
follows from the order of intents, and between a writer and readers from
`Emptied` and `OwnReader`. The
refinement maps held handles to grants; every other step stutters.

*Proved* (`RuntimeStoreProofs`, on top of that invariant):
`RecoveryIsIsolated` and `RecoveryIsExclusive` (a lease finds the records right
when it is granted; whoever changes them has its intent on record and its scope
drained, so the lease excludes it), `NothingIsLeaked` (a second invariant, `Owed`:
each request and each reference of a live owner belongs to a call of that owner,
of the right kind and scope, that still uses it or has to undo it),
`StoreStaysReadable` (a third, `Bounded`: a section adds one record or reference
to a set it has just found below its bound, after sweeping it) and
`WritersAreNotPassed` (`NoBarging`). Assumptions: those named in `RuntimeLease`;
`BoundAssumption` asks for at least one reference per owner, as a bound of zero
would make the first registration unreadable.

`NoCircularWait` (`NoDeadlock`), under a hypothesis on the callers, `CallersKeepOrder`.
The API promises no such thing by itself: the finding is a menu that breaks the
property. Its three parts are (a) `KeepsToProject`: an owner token names the same
project, or none, whenever it asks for a shared lease. A command's startup asks for
its project and user state in one call (`startup-runtime-lease.ts:266-273`). The
menu of `lease_add_project` breaks (a): it first asks for user state alone. So would
`runWithUserStateOwnership` (`host-runtime-access.ts:355-379`) if it were given the
token of a lease that reads a project only. (b) `ChildrenInherit`: a command that
waits for its children reads user state, and they ask to inherit, as every startup
does. (c) `FiniteDescent`: processes do not descend from themselves. `lease_spawn`
is an instance of all three; the theorem puts no limit on depth or number.

The invariant it needs, `Ordered`, says that all records of a live owner are at one
sequence, and that a reader is before every live writer that covers it. A
registration keeps it because an owner takes the place it has, a new one is barred
by those writers, and a child takes the place of a parent that precedes them. It
follows that an owner that holds a reader and queues no writer waits for nobody in the
queue (`ReaderQuiet`), nor does a child (`ChildQuiet`), and that a writer waits only
for writers ahead of it or for such readers (`WriterWaits`). In any set of owners, then,
if one waits only for its children, the one lowest in the descent waits for nobody;
otherwise the first of the writers does.

`PlaceIsKept` (`KeepsPlace`), from the same invariant and (a) alone: an owner that
adds a dimension keeps the place it has, so the global writers behind it stay behind
its new record. `MCRuntimeLease_adduser.cfg` shows what happens without (a).

Only model-checked: `EveryCallSettles`, a liveness property.

Abstractions: the coordination mutex (3016-3711) is taken as atomic; all owners
are on one proven host, so staleness is death; one owner token per process
start; scaffold cleanup and the inspection functions are not modelled; a
deferred release after a successful release does nothing.

## UserRemoval

`root` and `tombs` are the user root and the tombstones: entries, the marker, the
temporaries of a marker. A digest is the content it identifies. `receipt` is the
receipt (a closed receipt has the phase `"closed"`), `tmp` a temporary beside it,
`tx` the variables of the run that holds the lease. One action per file-system
call of the transaction; the phases are those of
`user-removal-transaction.ts`, and `Unsafe` is the disjunction of all its
`recoveryFailure` conditions. `Start`, `Inspect`, `Collect` and `Acquire` are the
unlocked part of `user-removal.ts`. Processes in `Gated` start as the command
does, with a startup lease; the others call the exported `executeUninstall`.

* `removal_resume` (228 k states): two users, one gated, two crashes or failing
  calls anywhere, two recreated roots. Recovery never meets a state it refuses
  (`NeverUnsafe`); every tombstone and marker is accounted for by the open receipt
  (`Accounted`); nothing is moved or deleted that the receipt has
  not announced (`WriteAhead`); a reported removal is one (`RemovedMeansGone`);
  and an interrupted removal is finished (`Recovers`). `MCUserRemoval_promise.cfg`, to
  be run by hand, checks the refinement below with two entries in the root.
* `removal_cli`: the finding. When every run is started as the command, one
  crash is enough: the startup lease asks for user state, the open receipt
  refuses it, and no run reaches the recovery. Only `status` is inspection-only
  (`host-leaf-command-specs.ts:84-100`), and only init has a probe that recovers
  before the startup lease (`lightweight-command-probe.ts:258`).

Two faults allow a crash in the recovery of a crash; two recreated roots reach
`MAX_REMOVAL_RECEIPTS`. Three operations and three markers suffice, as a name is
in use only while a draft, a marker, the receipt or a run's view mentions it.
`MaxTransitions` is the code's 10.

Fairness: weak for the steps of a run and the answer to its question; strong for
a persistent user who starts the command again, with and without
`--discard-recovery`, and confirms. Without the strong form nobody recovers
because nobody tries; the second user has no such fairness. That the persistent
user also tries `--discard-recovery` matters for the library: a crash within a
write of the receipt leaves a temporary, the unlocked inspection then reports a
malformed receipt and ends, and only a critical section (of another command, or
of the refused discard) removes it.

Abstractions: another program only creates a missing root; no record is damaged,
so a discard is always refused; a dry run ends as a cancelled one does; symbolic
links are not modelled; the death of the holder frees lease and mutex at once
(their recovery is `RuntimeLease`'s subject); a crash is of the process, not of
the machine, so renames and links are durable.

*Proved* (`UserRemovalProofs`, for any processes, users, identifiers, faults and
recreated roots): `TypeCorrect`, `RecoveryIsSafe` (`NeverUnsafe`),
`NothingIsOrphaned` (`Accounted`), `AnnouncedFirst` (`WriteAhead`) and
`RemovalIsTrue` (`RemovedMeansGone`), from `NamesAssumption` and
`BoundsAssumption`. None of them is inductive: `NeverUnsafe` says that a recovery
never meets a disk its receipt does not account for, which depends on what every
earlier holder knew when it wrote. The invariant `IInv` adds
`Explained` (the receipt says where the root is and how much of it may be gone),
`Held` (whoever is inside of the transaction holds the lease, so that nobody else
changes receipt or disk), `Following` (what the holder knows of both is true, and
a write that is due is explained by the disk already), `Counted` (a run makes no
more transitions than its phase has predecessors, so the bound
`MaxTransitions` is never what stops it) and `Reporting`. The liveness
property `Recovers` is only model-checked.

`UninstallImplementsRemoval` (`ImplementsRemoval`): `UserRemoval` refines
`DirectoryRemoval`, which knows neither receipts nor runs nor crashes. There a
removal is opened, the directory is claimed, taken away in one step with all its
entries while nothing else is doomed, deleted entry by entry, and closed when nothing
is left of it and the live directory bears no claim. The live root maps to itself, the
tombstones that are there to what is doomed, and a receipt that is open to an open
removal. A crash, a failing call, a lease and a recovery by another user all stutter,
so what an interrupted removal has done is a prefix of one removal, whoever
goes on with it. The proof adds `Whole` (the live root has all its entries) to `IInv`.

## UnitExecution

One invocation of a recipe: `tool` (fit or sim), the window, the retries and
whether a failing unit stops the recipe are chosen in `Init`; a sequential
recipe is a window of one. A unit has a lifecycle in `runWithTimeout` and
`runWithRetry`: its work, its budget, a backoff between attempts, the listener
on the parent's signal, and the immediate (`Quiet`) in which an interrupted race
gives a result that is already there the chance to be seen. One action is one
macrotask or one chain of microtasks. The differences between the engines are
kept: a cancelled scenario rejects, a cancelled check is an error result;
only fit's service stops a recipe on a failed check.

* `units_recipes` (366 k states): three units under four recipes. The window is
  respected and a resolved recipe has drained (`WindowSound`); what guards an
  undecided race is there, and nothing of it is left after the decision
  (`RaceGuarded`); a result that was there before the interrupt survives it
  (`EvidenceSurvives`); nothing starts after a stop (`NothingStartsAfterStop`);
  an interrupted recipe settles although work may ignore its signal for ever
  (`InterruptSettles`); and one whose budgets end settles (`BudgetsSettle`).

Three units and a window of two give a unit that finishes, one in flight and one
that waits at every stop. One retry gives each attempt a successor.

Fairness: weak for continuations, immediates, the backoff timer and the drain.
The event loop runs them, the backoff timer as long as anything else keeps the process
alive: it is unref'd (`retry.ts:77`), as a budget's timer is, and if only it is left
the process exits in the middle of the recipe. That exit is not in the model.
`Finish`, the work itself, has none. A budget's timer
does not keep a process alive, so its fairness is not part of the specification:
`BudgetsSettle` assumes it in its premise.

*Proved* (`UnitExecutionProofs`): `TypeCorrect`, `WindowIsSound`, `RaceIsGuarded`,
`EvidenceIsKept` and `NothingStarts`, for any number of units and any window. The invariant: a unit that has not
started has nothing (`Untouched`), what a race owns fits its state (`Raced`), the
window counts the started and unsettled units (`Windowed`), and the promise of
the recipe settles after its units (`Promised`). Liveness is only model-checked.

Not modelled: yagni's single call of `runWithTimeout` (its parent cannot be
aborted before the call in that composition), what a unit reports.

## CatalogGeneration

One server process. `disk` is the catalog, which other processes replace
(a row is replaced in one transaction, and catalogs are told apart by `builtAt`);
`tree` is the version of the files; `generation` the loaded one, `refreshing` the request
whose refresh is under way, and each request a state machine that is split at its awaits.
A capture is one synchronous block, between whose reads other processes write.
Verification and rebuild read the files at some time between their start and
their end. The expiry of a burst is a nondeterministic choice.

* `catalog_mix` (1.15 M states): three plans of three requests (a refresh and two
  forced ones; two queries and a forced refresh; a query, a refresh and a forced
  one), three catalogs, an edit, a fault. Queries never go back
  to an older catalog (`NeverGoesBack`). One flight works at a time; a forced call
  that succeeds has rebuilt; and a flight answers with files no older than the
  flight (`RefreshSound`, whose last part is `FreshEnough`). A capture takes all
  parts from one catalog or fails (`CaptureAllOrNothing`), and every request is
  answered (`EveryRequestAnswered`).
* `MCCatalogGeneration_retained.cfg`, to be run by hand: `FailureRetains`, the
  sentence of ADR-0148:67 that a failed refresh keeps the previous generation,
  has a counterexample (a capture loads a newer one while the refresh awaits).

What `FreshEnough` says exactly: a generation that a flight has rebuilt is of files no
older than the flight's beginning; one that it reuses likewise, or it is of files no
older than the beginning of a verification of that same catalog which was running when
the flight began, and which the flight may join (`verify` shares it although the cached
verdict was dropped). Both are history: a flight notes the version of the files
(`floor`) and the verifications that run (`early`) as it begins. The promise is made to
the flight, not to the call: one that joins a flight gets what was current when that
flight began, which may be older than its own request. Two mutants break the property:
a flight that keeps the cached verdict, for which the third plan is there (a query
fills the cache that the refresh would trust), and one that forgets it was forced.

One edit and one fault in three requests reach every join, every retained
generation and every retry; a third catalog is needed to be newer than one that
was newer.

What the model shows besides: a refresh that joins another may answer with an
older catalog than a query answered before, which is why `NeverGoesBack` is about
queries; and a catalog that could not be persisted is served until the next
capture, which drops it.

Fairness: one weak condition on everything that can go on by itself (timers,
continuations, the completion of a verification or rebuild).

*Proved* (`CatalogGenerationProofs`): `TypeCorrect`, `QueriesNeverGoBack`,
`RefreshIsSound` and `CaptureIsAllOrNothing`. The
invariant: versions only grow (`Forward`), what a capture has read so far fits the
disk (`Loading`), a generation that is being verified exists (`Verified`), no query was
answered from a catalog newer than the row or than a result that may still be shared
(`Serving`), the flight under way is that of the one request that works (`Owned`), and
a force that was requested of a flight is remembered until it rebuilds (`Latched`).
`FreshEnough` needs two parts more. `Recency`: what a flight knows is recent, and so is
whatever it may still be told, by the cache, by the cache that a failing capture puts
back, and by the verifications that run. A verdict names its catalog by a key only, so
`Named` says that a key names one catalog among all that are still held anywhere: a
verdict on a key is a verdict on the files of that catalog. `EveryRequestAnswered` is
only model-checked.

A verification with `forceFresh` (`sqlite-context-read-port.ts:142`) passes over the
cached verdict (`catalog-freshness-controller.ts:71`); it is the second branch of
`BeginVerify`, which a verification without it takes when the cache does not serve.

Not modelled: `lastLoadError`, which has no caller outside tests; the port's additional verification after a refresh; the index of
impacts and the inventory, which are shared flights of the same shape.

## RuntimePromotion

One project, and one process at a time that works on it (the lease sees to that).
`project` is what init finds: the route, whether the directory `opensip-cli` and a
runtime in it exist, the number of authored targets. `j` is the journal: phase,
pending intent, cursors, install state, owned slots. `fs` holds the trees (by what
their manifests can tell apart), the markers beside them, and the number of
authored files that are written. A write of the journal is one action. Between an
intent (`RecordIntent`) and its postcondition (`RecordPostcondition`) the process
runs the procedure of the intent: `Enter` expands a call into its steps after its
checks, `Mutate` makes one mutation of the file system, and `run.todo` is what is
left. The phases without an intent are actions of their own (`VerifySource`,
`DestinationReady`, `SealCommitted`, `BeginRollback`, `Close`, ...).

`Stop` is a crash between two steps, or within one that is not atomic: a torn
marker, a stage of which only a part is copied, a tree that has lost some entries.
`Fail` is an error where the code may roll back, `Refused` a check that does not
hold, after which the process ends and the journal stays. `Recover` is the next
run of init: it begins from the journal alone, and can be stopped in its turn.

* `promotion_recover` (23 k states): every route, every posture, up to two
  targets, five faults in all. The runtime that was there before, or a complete
  successor, exists at every moment (`NothingLost`); when the journal is gone
  the project is in the committed or in the original state, with no residue
  (`OutcomeExact`); and the journal goes in the end, a torn marker and four known
  states excepted (`Settles`).
* `promotion_recoverable`: the finding. Two faults, neither within a marker, lead
  to a journal that every recovery refuses.

The four states of `DeadEnd`, each of them necessary (without any one of them
`Settles` fails with two faults): `ParentGone`, the rollback of an installed
runtime opens the directory that its first attempt has removed; `StageGone`, the
stage is gone but its cleanup marker keeps the directory from being empty;
`OwnedParent`, the recovery asks for a runtime rollback that the policy of intents
does not allow in its phase; `UnmarkedStage`, a stage that is being discarded has
lost the marker of its owner first. A torn marker is refused on purpose: the user
removes it.

`NoResidue` says nothing of the files of the authored transaction beyond the one tree
`artifacts` (see the abstractions), and exempts one marker: where the directory was there before, a crash
between the removal of a stage and of its cleanup marker leaves that marker behind
after the journal is gone.

Two targets give a first, a last and a middle of every cursor, and both the
missing directory and a file in it. Five faults allow a failure, and a crash in
the rollback, in its recovery, in the recovery of that, and in the cleanup.

Fairness: weak for the progress of a process that runs, and weak for `Recover`: a
user runs init again until it is done. Faults have none.

*Proved* (`RuntimePromotionProofs`, for any projects, any number of targets and
any number of faults): `TypeCorrect` and `NothingIsLost`. `NothingLost` speaks
about trees only, and is far from inductive: whether a tree may go depends on what
the journal says of it and on how far the procedure of the pending intent has
come. The invariant says what `todo` can be for each pending intent and in which
phases an intent can be pending (`Shape`), how the terminal decision and the phase
agree (`Terminal`), which slots a route materializes (`Materialized`), where the
two cursors are (`Cursors`), that the files written are those of the cursors, give
or take the one in flight (`Written`), when the source is in place (`Retired`), and
where the old runtime is at each step of backup, install and rollback
(`BackedUp`).

*Proved* (`RuntimeOutcomeProofs`, on top of that invariant): `OutcomeIsExact`.
`OutcomeExact` looks at one moment, when the journal closes or goes, but what it
asks is decided long before, by every step that creates a tree or a marker and by
every procedure that has to remove one again. The invariant adds four parts.
`Unseen`: a tree or marker may be there only as long as the journal has a slot or
a pending intent that answers for it (`Open`), and no step that is left would
create it otherwise. `Cleared`: what the pending intent has to remove before its
postcondition (`Goals`) is gone already with no step left that brings it back, or
will be removed by a step that is left, after the last one that could create it
(`Tidies`). This is a statement about the order of the steps in `todo`, so
most of the lemmas are about sequences and about what each procedure's body
leaves. `Housed`: the directory goes last, when nothing is in it, and nothing is put
into it afterwards. `Routed`: which slots and installation states a route and a
phase allow. `Settles` is liveness and only model-checked, and so is `Recoverable`,
which is false.

Abstractions: the route `deduplicate-cache` runs as `keep-project` does. The
artifacts of the authored transaction are one slot and one tree: in the code they are
three (`authoredStage`, `authoredBackup`, `replayManifest`), each with a cleanup intent
and a file of identity evidence of its own. The evidence files are not in the state, so
neither `OutcomeExact` nor `NoResidue` says anything of them. A target is a file, or the
directory, that is created. Writing one is two renames
(`authored-state-transaction-target-mutations.ts:266` and `316`, the blob to a temporary
and that to the target) and one step here; a retry finds either done. Of the stops
within the authored artifacts one dead end is left out: under a restrictive umask, a
crash after a blob is opened and before its `fchmod`
(`authored-state-transaction-durable-fs.ts:40-54`) leaves a blob whose mode the recovery
rejects (`authored-state-transaction-artifact-recovery.ts:149`), which would be a
further exception to `Settles`. Nobody else changes these files; identities (inode,
device) of the trees are kept as far as their contents show them. The postures that the
preflight rejects write no journal.

## Findings

`PROJECT.json` quotes the lines. In short: (1) an added dimension can deadlock,
against the test that says it may be added ahead of a later writer; (2) the user
uninstall cannot be resumed by its own command; (3) init can leave a journal that
no recovery ends, against ADR-0170. The other configurations that are said to be
run by hand show surprising behaviours that no document or test speaks about
directly, except `MCCatalogGeneration_retained.cfg`, and except
`MCFileLock_table.cfg` and `MCUserRemoval_promise.cfg`, which pass.

## Running

`tlc -config MCFileLock_foreign.cfg MCFileLock.tla` (and so on), `tlapm
FileLockProofs.tla` and the other `*Proofs` modules. Each run takes between a
second and about three minutes with two workers.

## Limits of the proofs

Liveness and enabledness are left to TLC. No definition is recursive. The
theorems hold for every value of the constants under the named assumptions of
the modules, which the runs evaluate on their instances.

## What remains

1. `RuntimeMutex`: the publication of the coordination mutex by linked creation
   (3016-3711) and that it implements the atomic sections used here; then leases
   across hosts, and the cleanup of an empty scaffold.
2. Retention, ephemeral pruning, suite ledger, worker protocol.

## Not modelled

The model covers the coordination of processes and the recovery from crashes, in
`packages/core`, `packages/cli` and `packages/mcp`. Most of the implementation is
out of its reach because it has no protocol: rules, language adapters, parsers,
formatters, report and dashboard code, configuration schemas compute a result from
their inputs and keep no state between calls. The scripts of the platform
acceptance and of the release verification drive the built program from outside.
Suite orchestration, external tool workers, session retention, ephemeral runtimes,
the graph's shard workers and the agent evaluation do have protocols; their rows in
`PROJECT.json` say what they are, and the list above puts them last because each
is confined to one process or to one database transaction.
