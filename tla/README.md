# A verification of stateful_core in TLA+

stateful_core coordinates coding agents that edit one working tree. Agents run
*tasks*, prove with *read evidence* that they have seen what they are about to
change, obtain exclusive *lease batches* over files, entries and directory trees,
and announce every *write attempt* to a local service before they touch the disk.
Agents that collide wait in one *queue of lease requests* and are offered their
batch in order. This project models the service and the clients around it, checks
them with TLC, and proves their safety properties with TLAPS.

## The system and its parts

| Part | Source | Here |
|---|---|---|
| Task lifecycle | `stateful-store/src/store_v2.rs` | `LeaseTables`, `LeaseStore` |
| Lease batches, request queue, offers | `store_v2.rs` | `LeaseTables`, `LeaseStore`, `PromoteLoop` |
| Write attempts | `store_v2.rs` | `LeaseStore`; their results in `Evidence` and `Workspace` |
| Maintenance loop | `store_v2.rs`, `stateful-server/src/lib.rs` | `LeaseStore`, without clean-up of evidence and audit rows |
| Read evidence, resource generations | `store_v2.rs` | `Evidence` |
| Command receipts | `store_v2.rs` | `OmpOutbox` (write.complete), `CodexOwners` (task.start) |
| Observations and operation validation | `stateful-core/src/resource.rs` | `Operations` |
| Resource keys and overlap | `resource.rs` | a relation, derived from files in `Evidence` |
| Opening and migrating the database | `stateful-store/src/migration_v2.rs`, `schema_v2.rs` | `StoreLayouts`, `Migration`, abstractly `AtomicStore` |
| OMP extension with its durable outbox | `stateful-cli/assets/stateful-omp-extension.js` | `OmpOutbox` |
| OMP and Codex hooks | `stateful-cli/src/hook.rs` | `OmpOutbox`, `Evidence` (as its clients), `CodexOwners` |
| Structured commit | `stateful-cli/src/commit.rs` | `StructuredCommit`, in `Wrappers` |
| Sandbox runner | `stateful-cli/src/sandbox.rs` | `SandboxMutation`, in `Wrappers`; the staged mutation only |
| Server lifecycle, start lock | `stateful-cli/src/server_lifecycle.rs`, `lib.rs` | `ServerLifecycle` |
| HTTP server, protocol | `stateful-server/src` | its mutex is the interleaving of `LeaseStore` |
| Client transport | `stateful-cli/src/runtime.rs` | what may become of a call, in `OmpOutbox` and `CodexOwners` |
| Installer, registry, push, wrappers, CLI, bench | `stateful-cli/src`, `stateful-bench` | not modelled |

An agent's client (a hook, the commit command, the sandbox runner) sends a command
over HTTP. The server holds a mutex around the store while it executes the command;
the maintenance loop takes the same mutex every second. The store runs a command in
one SQLite IMMEDIATE transaction. `accepted_command` first looks for a receipt of
the request id, then expires tasks and leases at the command's `observed_at`,
promotes waiters, and runs the operation. An error rolls everything back, the expiry
included. The clients observe files before and after, change them, and report; none
of this is atomic with the commands.

`PROJECT.json` lists every component with its status, the source lines behind each
definition, and the hazards of the code with the properties that would catch them.

## Modules

The lease service:

- **`LeaseTables`**: a database is a record `s` of five tables. The module has one
  operator per query and per helper function of the store, each a function from a
  database to a database.
- **`LeaseStore`**: the commands. The variables are `db`, the committed database, and
  `clock`. One action per outcome of a command: `TaskStart`, `TaskHeartbeat`,
  `TaskEnd`, `TaskEndDeferred`, `PrepareRefused`, `PrepareQueued`, `PrepareReady`,
  `LeaseActivate`, `LeaseRelease`, `LeaseReleaseDeferred`, `WriteComplete`,
  `NoTableChange` (successful commands that only run the preamble) and `Maintain`.
  Every command starts from `AcceptedCommand(now)`. The properties are stated here, of
  `db`, with the predicates of a database that `LeaseTables` ends with.
- **`MCLeaseStore`**: instances for TLC, symmetry and view.
- **`PromoteLoop`**: the loop of `promote_waiters` written recursively, and the
  property that the promotion used everywhere else is what it computes. TLC only.
- **`LeaseTableProofs`** has what each table update does to the invariant (updates that
  only give back, the walk of `promote_waiters`, queueing, activating an offer, acquiring
  for a write), **`LeaseStoreProofs`** the results of writes, the commands and the
  theorems.

How tables correspond to the code:

- `tasks[t]`: status, the terminal status a draining task will get, the expiry that
  heartbeats move. A task id has a fixed owner: `require_task_owner` refuses others.
- `leases[t]`: `active_leases` joined with `lease_resources`. Its `slot` function is
  `in_flight_attempt_id`; `attempts` holds the attempts prepared under the batch,
  which replaces batch ids. `release_pending` is not kept: each statement that sets
  it also sets the state to draining.
- `requests[q]`: `lease_requests`, indexed by `queue_sequence`.
- `attempts[a]`: `write_attempts`.

`promote_waiters` is a loop in which each decision depends on the earlier ones.
`PromoteWaiters` defines its outcome without recursion, as the assignment of a
verdict to each queued request that agrees with the loop body everywhere. That keeps
recursion out of the modules the proofs use. The loop has a separate test whether the
waiting task itself has a lease; `Blocked` leaves it out, because a lease carries its
task's agent and so also fills the agent's slot. `PromoteLoop` has both tests.

Abstractions: resources are atoms with an overlap relation; an offer id and a version
stand for the only offer a request ever gets; times are integers; whether evidence
suffices is any Boolean, so every property holds whatever the evidence tables say.
A command that errors changes nothing and is a stuttering step.

The service with its readers and writers:

- **`Evidence`** extends `LeaseStore` by the tables `resources`, `read_attempts` and
  `resource_evidence`, the files, and one client per task. Here the verdicts that
  `LeaseStore` leaves open are computed. A client observes, its command is executed
  later, and its I/O later still, so that other tasks come in between. A tree is a
  resource that stands for the files below it. Time stands still in this module, and
  a task does one thing at a time; its header says what follows from that.
  **`MCEvidence`** has the instance, its symmetry and its view, **`EvidenceProofs`** the
  theorems, which use those of `LeaseStoreProofs`.

The service and one client, with faults:

- **`OmpOutbox`**: the extension's memory, its outbox directory, the file, and the
  part of the server that decides about writes of one agent. A handler is a loop over
  outbox records, because `spawnSync` blocks the extension. Each hook call is
  answered, executed with its answer lost, or never executed; the extension crashes
  anywhere. A retry recomputes its payload from the file, under the same request id.
  **`OmpOutboxProofs`** has its theorems.
- **`CodexOwners`**: the owner record of each turn, submit and stop hooks, heartbeat
  helpers, the tasks and the receipt of task.start. Reading a record and renaming a
  changed copy over it are two steps; creating one is one hard link, one step. A hook
  is killed anywhere, a submit is delivered twice, a stop hook is late or missing, the
  session is resumed in another process. Codex is assumed not to start a prompt or a
  stop while a submit hook of the session is running. **`CodexProofs`** has its theorems.

The wrappers:

- **`Operations`**: what is observed of a workspace (objects, entries, trees with
  their inodes), and `validate_operation_start` and `validate_operation_transition`
  as predicates on sets of observations.
- **`Workspace`**: files, HEAD, index and the coordinator as the wrappers see it:
  permits, evidence, leases that drain, results.
- **`SandboxMutation`**: `run_staged_mutation`, a step for each look at the
  workspace, each request and each change. **`StructuredCommit`**: `stateful commit`,
  from the observation of the batch to the write of what hooks changed.
- **`Wrappers`** composes one of each, for two tasks, with people who edit, stage and
  commit without asking. **`MCWrappers`** has the instance, **`WrapperProofs`** the
  theorems.

Processes and files:

- **`ServerLifecycle`**: commands and server processes around `server.json`,
  `server.lock` and the ports. **`MCServerLifecycle`** has the instance,
  **`ServerProofs`** the theorems.
- **`StoreLayouts`**: what the code tells apart in a database file.
  **`Migration`**: `open_file` by several processes, one file operation per step; each
  may stop anywhere. **`AtomicStore`**: what this promises, with one variable,
  `logical`. `Migration` implements it under the mapping `Logical`: the backup while a
  manifest beyond `backup_pending` names one, otherwise the main file.
  **`MCMigration`** has the databases that may be there, **`MigrationProofs`** the
  theorems, the refinement among them.

## What is checked

Two workers need up to about two minutes for each run.

| Run | Properties | Instance | Result |
|---|---|---|---|
| `queue` | `ExclusiveHolders`, `WaitersKeepOrder`, `NoOvertaking` | 3 tasks of 3 agents, a tree over 2 files, 2 attempts, 3 requests | pass, about 41,000 states |
| `agents` | `OneBatchPerAgent`, `OnePendingPerTask`, `NoMissedPromotion` | 3 tasks, 2 of one agent, 1 attempt, 3 requests | pass, about 59,000 states |
| `drain` | `TypeOK`, `WritesAreCovered`, `EndedTasksHoldNothing`, `DrainingBatchesOnlyEnd` | 2 tasks, batches of up to 2 files, 2 attempts, clock to 2, commands late by 1 | pass, about 69,000 states |
| `liveness` | `WaitersAreSettled`, `IdleLeasesGo` | 2 tasks, 1 file, clock to 2, fairness | pass, about 6,000 states |
| `loop` | `PromoteIsLoop` | as `queue`, 1 attempt | pass, about 10,000 states |
| `uncertain` | `UncertainLeaseStays` | 2 tasks, 2 files, 2 attempts | violated, see below |
| `evidence` | `EvidenceIsCurrent`, `NoEvidenceUnderWrites`, `NoLostUpdate` | a task on a file, one on the tree over it, 2 contents, 2 attempts, 2 requests | pass, about 298,000 states |
| `outbox` | `KeptUntilSettled`, `OutcomeIsTheCallsOwn`, `TerminalsAreDelivered` | 2 tool calls, any number of crashes and losses, fairness | pass, about 8,900 states |
| `codex` | `SerialTurns`, `OneLiveOwner`, `TasksEnd` | 2 turns, 2 processes, 2 deliveries, fairness | pass, about 410,000 states |
| `wrappers` | `CommitsNamedPathOnly`, `ResultsAreTrue`, `NoLostEdit`, `NoLostCommit` | 8 operations, a commit, 4 paths, 2 contents, 1 outside change | pass, about 997,000 states |
| `lifecycle` | `Discoverable`, `ComesUp` | 2 commands, 3 server processes (1 of another executable), 2 addresses, 3 disturbances, fairness | pass, about 98,000 states |
| `migration` | `LegacyKept`, `NoMixedGenerations`, `ServesTheMainFile`, `RefinesAtomicStore` | 2 openers, 10 databases, 2 aborts, fairness | pass, about 49,000 states |

In words:

- Two tasks never hold, and are never promised, overlapping resources. The unique
  index of the schema cannot ensure this, because overlap is not equality.
- An agent has one batch and one offer at most. A task has one pending request at
  most, only while it is active and holds nothing.
- No request is offered past an older overlapping one, and no grant, direct or by
  activation, overtakes a pending request except one behind the activated offer.
- No transaction ends with a waiter that could be promoted.
- As long as a write executes, its batch exists, covers it and is marked with it. A
  draining batch gains nothing and never becomes active again. An ended task holds
  nothing. A lease with an uncertain write is draining.
- If all clients stop, the maintenance loop still settles every waiter and removes
  every lease without a write in flight.
- Nobody overwrites what they have not seen (`NoLostUpdate`): when a client does its
  I/O, the files are still as it observed them before its permit. Evidence is always
  of the recorded state, and there is none of what somebody is writing.
- A terminal result that the extension has stored reaches the server, once, and is the
  outcome of that very call although retries look at the file again.
- Turns of a Codex session are serial, one owner record is live, and a task whose
  record is disabled, gone or of a dead process ends.
- A wrapper replaces only what it has seen, a commit loses no other commit and
  contains only the named path, and both report what happened.
- A serving server is the one that can be found, and after crashes, hangs and stops
  one serves again if `server start` is tried often enough.
- An interrupted migration looks atomic to whoever opens the database, and a store in
  use is the one at the main path unless its opener meddled with a migration.

### Windows named in the models

Some pairs of steps of the code are protected by nothing but the pace of the processes.
The models take them apart, and the behaviours in which somebody comes between are
behaviours of the models. What the code then does is wrong, so the properties except
them by name; `PROJECT.json` lists them as hazards that no property covers.

- `ServerLifecycle`: a stale lock is examined and then unlinked by its path; a
  launcher polls its child and then rewrites `server.json`; `server stop` kills and
  then unlinks `server.json`; a server takes the file over from one that lives and
  does not answer. `raced` records that another process came between, or that the
  takeover happened; both properties speak of behaviours without that. In a behaviour
  with it a server can end up running unfound.
- `Migration`: `open_file` tests for a manifest and for the main file without the
  lock. If a migration begins in between, the opener usually finds the V1 database and
  queues for the lock. But it may come when the migration has taken the main file away,
  and create a new one, or when the migration has just promoted its own, and open that
  (`Meddles`). `raced` records this. From then on a store may be in use that the
  migration or its recovery replaces; TLC shows it when the exception is dropped from
  `ServesTheMainFile` or `NoMixedGenerations`. `LegacyKept` and `RefinesAtomicStore` need
  no exception.
- `Wrappers`: between the last look at a path and the change to it, the lease alone
  protects, and outsiders do not ask for leases; between the look at a hook's target
  and the read recorded of it, nothing does (`Unprotected`, `late`). A sandbox that
  cannot observe the state after a failure reports the state before (`blind`).
- `OmpOutbox`: a record that is persisted after the heartbeat timer was stopped is sent
  once and then waits for the next startup (`Listening` without `timer`).

One assumption about pace remains: a live process holds the start lock for less than the
30 seconds after which it counts as stale, except while it waits for a hung server.

Some reads that the code makes one after the other are one step here: the target, HEAD,
the refs and the index in the observation of a commit batch, and the two paths of a rename
or a hardlink in `observe_expected_post`. The models do not have the mixture that a change
in between would produce, only a failed observation (`Sees`); in the code the comparison
that follows, with the same reads, finds the difference. The two renames of `replace_directory` are one step as well, with the outcome that the
first succeeded and neither the second nor its rollback did (`Lost`).

### Bounds

Three requests over a tree and two files are the least in which a waiter left queued
blocks a younger one that meets no holder; two attempts let two holders run at once.
Two tasks of one agent and one of another separate the rules about agents from those
about tasks. Two attempts in a batch of two files are what growth in flight and a
sibling's completion need. All time-outs are 1; a clock of 1 or 2 has states before
and after each expiry, and `MaxLag` lets a command be executed with an older time
than its predecessor's. `Window` ends at `MaxClock`, so that everything granted in an
instance can expire in it. The theorems do not depend on any of these bounds.

`evidence`: a file and the tree over it are two resources that overlap without being
equal; two contents let a file change back, which the generations are there for; two
attempts let a task write after another one did. `outbox`: two calls are a call and a
later one that could be mistaken for it. `codex`: two turns are a turn and its
predecessor, two processes a session and its continuation. `wrappers`: the paths are
those the operations need; one outside change can hit any window, and the instance with
`MaxEdits = 2`, too long for a regular run (10 million states), also passes.
`lifecycle`: three processes are one that serves, one that starts and one that comes
back, which is of another executable; two of them share an address, and three
disturbances are a start by hand, a hang and a crash or a failed kill. `migration`: a
first abort interrupts the migration and a second one the recovery.

Symmetry: `MCFullSymmetry` is used where every task has its own agent and every write
set is a singleton, since agents then matter only as distinct and the two files play
the same part. `MCView` of `MCLeaseStore` drops fields that nothing reads again: the
expiry of tasks that are no longer active, settled requests, finished attempts. The
views of `MCEvidence` and `MCWrappers` drop the same and what a finished client
remembers. Runs with liveness use neither; `lifecycle` stops at the first race, where
its properties say nothing any more.

### Fairness

- `LeaseStore`: time passes and the maintenance loop runs again and again
  (`run_maintenance_loop`: an interval ticker which logs a failing turn and goes on).
  No command of a client is assumed to happen. A lease with a write executing or
  uncertain is outside `IdleLeasesGo`: the code keeps such a lease until somebody
  reports or releases, so no such property holds of it.
- `OmpOutbox`: a running extension finishes its handlers and its interval fires; OMP
  is started again after a crash; a server that is asked again and again answers some
  time. The last is strong fairness: any finite number of losses is possible.
- `CodexOwners`: the helpers loop and time passes. Nothing is assumed of Codex, its
  hooks or the wrappers, so a write may stay in flight; `TasksEnd` excepts it.
- `ServerLifecycle`: processes go on, time passes, and a lock that is free again and
  again is obtained: the code polls for it, so this is an assumption about the scheduler.
  Nobody is assumed to ask for a server: hooks and wrappers only look for one, and it is
  `server start` or `restart` that starts one. `ComesUp` has this as its premise.
- `Migration`: a process that runs goes on, which its code guarantees, and an open that
  failed is tried again, which is an assumption about users; `AtomicStore` promises an
  end of an interrupted migration only to those who open the database again.

### Differences between documents and code

`docs/usage-reference.md` says of an uncertain write that "its lease remains draining
for explicit resolution", and a test of the store is named
`uncertain_write_keeps_a_draining_lease_until_explicit_release`. The lease is kept in
the scenario of that test. The run `uncertain` shows that other commands delete it:
a contended `write.prepare` of the owner gives it back (an uncertain attempt occupies
no slot), and so does the completion of another write of the same batch.

Other behaviour that modelling brought up, and that a property names or excepts:

- A retry from the outbox computes its payload anew. If the first answer was lost and
  the file has changed since, the server refuses the retry as another payload under a
  known request id, and the record stays in the outbox.
- `stopHeartbeatWhenIdle` does not count open write attempts, so the result of a tool
  that ends after `agent_end` is sent once and then waits for the next startup.
- The sandbox compares the workspace with what it saw before it queued. Behind a peer
  who changed the file it therefore always gives up with an error.
- When the sandbox cannot observe the state after an error it reports the state
  before (`unwrap_or_else` in `run_staged_mutation`), and a change that was applied is
  recorded as failed. A hardlink always takes this path: the post-state it observes
  has an observation more than `validate_expected_transition` accepts. A replaced
  directory has a new inode and is always reported as uncertain.
- A crash during the first initialisation leaves a database with the V2 marker and a
  part of its tables, which every later open refuses.

## What is proved

`LeaseStoreProofs` proves, for every finite or infinite set of tasks, agents,
resources and attempts, every reflexive and symmetric overlap relation and all
bounds, that `Spec` implies `[]` of `TypeOK`, `ExclusiveHolders`, `OneBatchPerAgent`,
`OnePendingPerTask`, `WaitersKeepOrder`, `NoMissedPromotion`, `WritesAreCovered` and
`EndedTasksHoldNothing`. The assumptions are those named in `LeaseTables` and
`LeaseStore`: the shape of constants, that overlap is reflexive and symmetric, and
that time-outs are natural numbers (the offer time-out positive).

No property is inductive alone. That an activation is exclusive needs that the
offer was; that an offer is exclusive needs the order of the walk; that deleting an
expired lease leaves no write uncovered needs the correspondence of markers and
attempts. So the inductive invariant is the conjunction

    IInv == Inv(db) /\ NothingToPromote(db) /\ clock \in Nat

where `Inv(s)` is a predicate of a database and collects the other seven. A command
is a chain of updates, and the lemmas follow the chain: each update keeps `Inv`, also
between the statements of a transaction (`LeaseTableProofs`). Most updates only give
something back, and `GivingBack` treats them together: whatever makes leases smaller or
draining, closes requests and ends tasks keeps `Inv`, if no running write loses its lease. The
updates that take are treated one by one: `SettleKeeps` (offers of a walk),
`EnqueueKeeps`, `ActivateKeeps`, `PrepareKeeps`, `RecordKeeps`. Activating and
preparing both give one task a new or larger lease; `GrantKeepsExclusive` and its
companions have what follows from that alone. `NothingToPromote`
does not hold inside a transaction. `SettleLeavesNothing` re-establishes it after
each walk, and `NothingKept` carries it over the updates that free nothing.

`LeaseStoreProofs` also proves the action properties `NoOvertaking` and
`DrainingBatchesOnlyEnd`. A step is a chain of updates, and most of a chain only takes
from the leases; `Sheds` says so of the table before and after and is transitive, and a
step that sheds satisfies both properties. What remains are the two updates that give:
preparing a write, which looks for waiters in the way and for an active lease before it
does, and activating an offer, which `WaitersKeepOrder` puts before every waiter it
overlaps except those behind it.

`OmpOutboxProofs` proves, for any set of tool calls and any number of lost requests,
lost answers and crashes, that `FairSpec` of `OmpOutbox` implies `[]` of
`KeptUntilSettled` and `OutcomeIsTheCallsOwn` (no assumption; fairness is not used).
The invariant `OInv` adds what both rest on: the server lets one write at a time be in
flight (`OneInFlight`), so the file is still as the call left it while the outcome is
not known (`FileIsTheCallsOwn`), whichever retry observes it; and a receipt exists only
for an attempt that is over (`Stages`), so a replayed answer never removes the record
of one that is not.

`WrapperProofs` proves of `Wrappers`, for any finite workspace, any declared operations
and any `MaxEdits`, that `Spec` implies `NoLostCommit`, `[]CommitsNamedPathOnly`,
`NoLostEdit` and `[]ResultsAreTrue`. It assumes that no path is its own parent
(`ParentAssumption`), that the commit's target has nothing below it
(`TargetAssumption`), that operations name paths of the workspace
(`OperationAssumption`), and that `None` is no file and there is an inode number left for
a new one (`NodeAssumption`: a workspace is finite; stated as what is used of it).

- The commit. The temporary index is made from HEAD later than HEAD was observed, and
  HEAD may move between the two and after. What makes it right is in `Based`: HEAD never
  becomes shorter, so if the compare-and-swap finds it as long as observed, nobody has
  committed since, and the index agrees with it, also after the hooks, because a hook that
  stages another path does not pass `AssertOnlyDeclared`. `Knows` divides the command's labels
  into those before and after the commit; the reports are true because no error path
  leads back. Together this is `CInv`.
- What wrappers overwrite. `WInv` says that the look before a change is good until
  somebody changes the files beside the protocol (`Looked`, `HookLooked`). This holds
  because the other wrapper stays away: leases are disjoint, a permitted sandbox has its
  paths leased, and the other task has no evidence of them left with which it could get
  a permit (`Leases`). So while a hook's change is permitted, the sandbox's operation is
  not about the commit's target (`TargetIsElsewhere`). It could still reach the target's
  file under a second name; `FilesOK` says that the target has none unless the sandbox's
  own operation, applied to the target, gave it one.
- What wrappers report. The sandbox compares observations and nothing else, so its report
  is true only if an applied operation always changes what is observed of it
  (`AppliedIsSeen`, one case for each kind of operation: a new inode, a link more, an
  entry gone; `LostFacts` for a directory that was only moved away) and if this stays so
  until it looks (`Reports`).

`ServerProofs` proves of `ServerLifecycle`, for any number of commands, processes,
addresses, crashes and hangs, that `FairSpec` implies `[]Discoverable` and that the start
lock excludes (`StartLockExcludes`), both until one of the races that the model names
happens (`raced`; fairness is not used). `ProcAssumption` keeps commands, servers and what
else the lock file can hold apart. `Discoverable` speaks of servers that
serve. `SInv` has to say it from the registration on (`Named`); it needs that only the
holder of the lock registers or retires a server (`Exclusive`), that what the holder has
read of `server.json` is still there (`Found`), and that whoever is about to remove the
file has killed the server it read there (`Killed`). A call that ends with an error, such
as one that meets a server of another executable, drops the lock and changes nothing.

`EvidenceProofs` proves of `Evidence`, for any files, trees, contents and clients, that
`ESpec` implies `[]EvidenceIsCurrent`, `[]NoEvidenceUnderWrites` and `NoLostUpdate`. It
assumes in addition that a client names at least one resource (`TargetAssumption`) and
that overlap is having a file in common (`UnderAssumption`). `EInv` is `IInv` with the
first two properties, the shape of the rows, and `Sound`: a client with a permit has a
slot in flight on everything it observed, and what it observed is what is on disk; before
the permit this is so as far as its task has evidence. That nobody overwrites unseen work
comes from both components: the evidence check shows that the disk is as observed when
the permit is given, and `ExclusiveHolders` and `WritesAreCovered` of the lease store that
nobody else writes there until the result is reported. The commands of the store enter
the argument only by what they do to slots in flight; each command of another task leaves
those of a client alone (`Calm`, `StepOf`).

`CodexProofs` proves of `CodexOwners`, for any number of turns, processes and
deliveries, that `FairSpec` implies `[]SerialTurns` and `[]OneLiveOwner` (`None` is not a
record nor a number; fairness is not used). A record is read in one step and written back
in another, so the invariant `CInv` has to say what a hook still has to do: while a submit
hook runs, each earlier turn that has an enabled record or a running task is on its list
or in its hands (`Cleaning`), and it comes to its own record only with an empty list
(`SubmitOK`). A stop hook works on its own turn and not beside a submit hook of that turn
(`StopOK`). The result is stronger than `OneLiveOwner`: one record is *enabled*, even when
the process named in it has died.

`MigrationProofs` proves of `Migration`, for any number of openers and of stops, that
`Spec` implies `[]LegacyKept` and the safety part of `AtomicStore` under the mapping
`Logical` (`OpenFileIsAtomic`), whoever meddles. `FoundAssumption` says what may be there
at first: databases, of which one without objects is empty in all respects. `MInv` says where the V1 database is at each stage of the manifest
(`Interrupted`), what the holder of the lock has done so far (`HolderOK`), and that a
connection opened before the migration finds what it is going to write over
(`WriterOK`); `OriginKept` is `LegacyKept` in terms of the mapping. `PInv` adds the
sidecars and what each opener relies on (`RelianceOK`): inside the lock that nobody has put
a main file back, outside it nothing any more once a migration has begun. It is kept by
every step that does not meddle, so `MInv /\ (~raced => PInv)` is inductive, and
`[]NoMixedGenerations` and `[]ServesTheMainFile` follow from it.

TLC has checked each of these inductive invariants on the instances of the runs.

Only model-checked:

- liveness (`WaitersAreSettled`, `IdleLeasesGo`, `TerminalsAreDelivered`, `TasksEnd`,
  `ComesUp` and the fairness of `RefinesAtomicStore`), since fairness and `ENABLED` are
  out of the prover's reach;
- `PromoteIsLoop`, which is about a recursive operator: the theorems are about the
  promotion in one step that this property equates with the code's loop.

Every other property of a passing run is a theorem. `UncertainLeaseStays` is the one
property that does not hold.

## What is not modelled

- Concurrent reads and parallel tool calls of one task, and with them `read_intents`.
  Two wrappers of the same task are not protected from each other by leases.
- A read that spans a peer's whole write: it ends with the state on record, so it
  becomes evidence although it may have seen a mixture. Readers of one file at a time
  do not have this; a tree's snapshot is checked for stability while it is taken.
- Receipts of commands other than write.complete and task.start.
- The text of paths, digests and timestamps. Timestamps are compared as text in SQL and
  as parsed times in Rust; the models have one order.
- Symbolic links and entry-only operations, which the modelled wrappers refuse.
- The copy that the sandbox stages is taken without comparing it with the observation
  before; a file that changes and changes back around the copy is not noticed.
- Power failures that reorder changes to a directory.
- The unique indexes are not enforced by the model: `OneBatchPerAgent`,
  `OnePendingPerTask` and `ExclusiveHolders` show that no command leaves rows they
  would refuse. Overflow of the queue sequence and of versions ends in an error, thus
  in a rollback, and is left out.
- Audit rows and status queries, which no command reads; sandbox profiles and process
  trees; argument and hook-input parsing; the installer, the repository registry, push
  and the benchmark. These are sequential I/O or pure text, without state that several
  processes share, except the registry file, which two people can edit at once.
