# A TLA+ development for smolvm

smolvm runs micro virtual machines. Its server (`src/src/api`) creates, forks,
pauses, checkpoints and deletes machines for its clients. The parts of it whose
correctness depends on the order of events are the ones that keep durable rows,
background loops and locks. This development covers four of them: the **warm fork
pools with one-shot leases**, **saved executions** (pause and resume), the
**supervision** of machines beside the requests that start, stop and delete them,
and the **live resize** of CPUs, RAM and disks. It says below what follows.

## 1. Inventory

| Component | State it keeps | Operations | Interacts with | What is hard |
|---|---|---|---|---|
| Fork pool tables (`db.rs` 1046-2278, `pool.rs`) | `fork_pools`, `fork_pool_slots`, `fork_leases`, the `held` bit of `vms` | one immediate SQLite transaction per operation | handlers, controller, fills | two tables that must agree; idempotency; counters |
| Pool controller (`pool_controller.rs`) | running fills, back-off per pool | recover once, then expire / check ready / check leased / delete / finalize / fill for ever | tables, `delete_one`, `fork_held_machines` | listings used long after they were read; restarts |
| Pool handlers (`handlers/pools.rs`) | a detached activation task per claim | create, resize, delete, acquire, heartbeat, complete | tables, `release_held_fork` | requests that outlive their pool; late commits |
| Held forks, deletion (`handlers/machines.rs`) | lifecycle lock per machine, source lock per golden | prepare and boot a batch, release, delete | controller, users | lock order; what is registered when |
| Adaptive admission (`admission.rs`) | limit per pool and device, telemetry window | `limit`, `note_blocked`, `observe` | claims | stale answers |
| Memory pressure guard (`memory_pressure.rs`) | cool-down | pause the newest child, resume the oldest | saved executions, leases | a paused worker has no process |
| Saved executions (`embedded/runtime.rs`, `portable_checkpoint.rs`) | saved artefact, state and operation id of the row | pause, resume, checkpoint, restore | guard, users, supervisor | a crash between the stages |
| In-flight fences (`embedded/inflight.rs`, `api/inflight.rs`) | counters, closing flags | enter, leave, drain | commands, stop and delete | everyone waits on everyone |
| Machine registry (`api/state.rs`) | names reserved, machines loaded, locks | reserve, complete, remove, load | all handlers | two creates of one name; a crash between row and entry |
| Supervisor (`supervisor.rs`) | scheduled restarts; counts in the row and in the registry entry | check, restart with back-off | registry, users | a restart racing a stop; two copies of the restart configuration |
| Live resize (`live_resize.rs`, `db/resize.rs`, `resize_controller.rs`) | one intent per machine, one receipt per operation | the stages of CPU, RAM and disk resizes, recovery | users, captures, the VMM and its guest | a crash in every stage; a VMM replaced meanwhile; power loss |
| Artifact cache (`artifact_cache.rs`) | references, leases on artefacts | acquire, release, collect | creates, deletes | collection against a create |
| Checkpoint store (`smolvm-checkpoint`, `checkpoint_retention.rs`) | chunks and manifests | publish, retain, collect | captures | collection against a publication |
| Fused rollouts (`rollout.rs`) | adapters, submissions, executors | publish, submit, complete | leases | a second control plane |
| VM manager, launcher, agent, protocol, network, CUDA, packs, registry, S3, shim, CLI | processes, sockets, packets, files | | | I/O; not candidates for a state model |

`PROJECT.json` lists every component with its sources and its status.

### What makes the pools correct

* a worker serves one lease in its life, whatever is retried or lost;
* the lease table and the slot table agree, so that no worker is lost and none
  is deleted under its client;
* an outcome is decided once;
* targets and limits hold although they are read by one party and used by another;
* what retires is deleted, what is deleted goes away, nothing waits for ever.

### What makes saved executions correct

* an execution is running or saved: no crash, retry or concurrent request loses
  it, and what is saved is all of it;
* memory and disks are of one moment;
* a machine with a saved execution is never booted afresh;
* a retry key starts a pause once;
* a guest that is frozen has somebody to wake it, and nobody takes it for dead
  meanwhile.

### What makes supervision correct

* a machine has one VMM, whichever of the supervisor and the handlers boots it,
  and whatever the row and the registry have lost track of;
* a machine its user stopped stays stopped; one that should run comes back;
* restarts are bounded although the count is kept twice;
* a delete leaves no process, and an entry without a row goes away.

### What makes live resize correct

* a capture never sees a machine that is only partly resized;
* a resize reaches the VMM it was asked of and no other;
* the recorded answer of an operation is final and true;
* what was interrupted is finished.

## 2. Modules

| Module | What it is |
|---|---|
| `ForkPool` | the pools: tables, handlers, activation tasks, controller, fills, the world around them; all properties |
| `OneShot` | what a pool promises its clients, abstractly: a worker is stocked, granted to one lease, opened, ended, removed, forgotten; `ForkPool` implements it (`KeepsPromise`) |
| `MCForkPool` | the values of the constants for TLC and the symmetry sets |
| `ForkPoolProofs` | the inductive invariant of `ForkPool` and the theorems that follow from it |
| `ForkPoolPromise` | the theorems about `ForkPool` that count, and the proof that it implements `OneShot` |
| `SavedExecution` | pause and resume of one machine, with the starts, stops and checkpoints they meet; all properties |
| `MCSavedExecution` | its symmetry set for TLC |
| `SavedExecutionProofs` | its theorems |
| `Supervisor` | one machine in the server: row, registry entry, VMM and pid file under the supervisor and all lifecycle requests; all properties |
| `MCSupervisor` | its model values and symmetry set for TLC |
| `SupervisorProofs` | its theorems |
| `LiveResize` | live resize of one machine: intent, receipts, the job that holds the source lock, runtime and guest; all properties |
| `MCLiveResize` | its root for TLC |
| `LiveResizeProofs` | its theorems |

### How `ForkPool` corresponds to the code

*Tables.* `pools`, `slots` and `leases` are the three tables, as functions from
the primary key to a row or `None`. `vms` keeps of a machine's row the golden it
was forked from, the `held` bit, and whether its VMM process is up, gone, or gone
with a saved execution (`paused`). A lease's `expires_at` is kept as the number
of ticks `left`, so that the clock needs no bound of its own.

*Transactions.* Each function of `db.rs` runs in one immediate transaction, so
each is one step: `CreatePool`, `ResizePool`, `DeletePool`, `Claim`,
`ClaimRefused`, `Heartbeat`, `CompleteLease`, `ExpireLeases`, `FinalizePools`,
`FillReserve`, and the conditional updates `MoveSlot` and `Transition` that
several actions share.

*Tasks.* What the code does between two transactions is a program counter:
`act[l]` of the activation task (look the machine up, release it, commit), `beat`
of a heartbeat between its transaction and its look at the worker, `ctl` of the
controller (the phase it is in and what is left of the listing it read), `fill[p]`
of a fill (queued for the golden's lock, reserving, waiting for the source lock and
the forkpoint, booting, draining). Between any two steps of one task any step of
another may happen.

*Locks.* `GoldenLocked`, `SourceLocked` and `CloneLocked` derive from the fills
who holds a lock; `delete_one` (`DeleteRetired`, `UserDeletes`), pause and resume
wait for the clone's lock.

*The world.* `Tick` moves the clock; `WorkerExits` ends a process; users delete
and pause workers; `Restart` stops the server at any point, which loses every
task and keeps the tables and the workers' processes; `PassFails` ends a pass of
the controller, or its recovery, at a database error.

*Abstractions.* Payloads, tokens, rollout access and worker-ready assignments do
not influence which rows move. The batch endpoint is a sequence of single claims.
A claim takes the first acceptable worker in name order; names are random, so any
may be the first, and the unacceptable ones before it are any subset. `generate_short_id`
yields a name nothing refers to. A clone boots or does not. The row removal after
`delete_one` is one step with the deletion, because the state between them is the
one `UserDeletes` leaves. The retained GPU checkpoint is not modelled.

### How `SavedExecution` corresponds to the code

*State.* `rec` is the machine's row (state, `paused_checkpoint`, pid with its start
time), `ops` the table `vm_pause_operations`, `vmm` the one VMM process with the
amount of work its memory holds (`at`), whether its vCPUs are stopped (`frozen`)
and whether its disks are still the files in the machine's directory (`own`).
`arts` holds the work a complete artifact contains, `disk` the work on the disks,
`marker` the record of `record_paused_disks`. `known` is a history variable: the
work done by the VMM the row names.

*Work.* Memory and disks are abstracted to a number that grows when the guest
runs. That is enough to tell an old execution from a new one and old disks from
new ones, which is what the properties are about.

*Requests.* `task[p]` is the request process `p` serves: its program counter, its
retry key, the row it read (`seen`), the artifact it writes, the VMM it launched.
The steps are the points at which the code writes the row, talks to the VMM,
renames a file, or waits for a lock. Actions are named for their handler: `Pause...`
(`pause_machine_inner` and the capture), `Resume...` (`resume_machine_inner`,
`resume_vm`, `prepare_paused_restore`), `Start...`, `Stop...`, `Checkpoint...`,
`Implicit...` (`ensure_running_and_persist`, for an exec or a file operation) and
`Restart...` (the supervisor's `check_machine` and `restart_machine`). `PauseFails` and
`ResumeFails` let each step fail; `PauseWakes` is the drop of the guard that holds the
guest. `SaveFails` is a SAVE or PREPARE_SAVE that fails, with the guest running or, when
its reply is lost, frozen before there is a guard; `GuardFails` is a guard whose RESUME
fails, which is logged and leaves the guest frozen.

*Locks.* `SavedFree` and `SourceFree` derive from the program counters who holds
the operation lock and the source lock. The members of `Unlocked` are command
lines: their `start` takes no source lock, kills an orphan by its pid file, looks for
a saved execution once more before it launches (`StartEnsure`), and goes on after a
recovery that found nothing to do, where the server refuses. Implicit starts and
restarts take no source lock either and look only once, at their beginning. A start
in an embedding program takes none, but never kills what it finds.

*Loose starts.* `loose` is a history variable: a start that takes no source lock was in
service together with another request, or was killed between launching its VMM and
recording it. The code has no rule for these, and most properties are false then
(section 4); the properties that need it say so in their hypothesis, and
`SpentOperationsRest` and `FrozenIsGuarded` do not.

*The world.* `GuestWorks`, `VmmExits`, `Crash` (a process is killed and its locks
go; the VMM stays, as it does with a detached launch) and `Reload` (a server
starts). With `watch_parent` a VMM ends with its parent: a `Crash` and a `VmmExits`.

*Abstractions.* One machine, so the lifecycle and name locks, which only serialize
requests of one process, are the rule that a process serves one request at a time;
the supervisor is a request of its server, so a restart that waits for the lifecycle
lock behind other requests is one of another process. A row that says Failed is a
Stopped one.
Replacing the disks is one step: cut short, it leaves disks the marker does not
match, which the next attempt replaces. The VMM's configuration is the row's, so no
launch restarts a VMM because it changed.

### How `Supervisor` corresponds to the code

*State.* `row` is the record in the database; `entry` is the `MachineEntry` of the
registry: the child handle, state and `vm.lock` of its `AgentManager`, and its own
copy of the restart count and of `user_stopped`. `vms` are the processes that are
alive, `mute` those whose agent does not answer, `pidfile` the process the pid file
names, `sock` the one behind the agent's socket, `scope` those in the machine's systemd
scope, `clean` the exit codes the server has not collected yet. `born` is the process of
a launch that has no pid file yet; `lost` (history) are those that never got one. `sched` is
`next_restart_at`. `tries` is a history variable that counts the supervisor's boots.

*The supervisor* is the program counter `sup`: `SupTick` (which forgets a deleted
machine), `SupProbe`, `SupRead` (the row and the exit code), `SupDecide`
(`should_restart` and `restart_timing`), `SupSettle` or `SupBump`, `SupLock`, then
`SupAdopts`, or `SupLaunch` and then `SupBoot` or `SupFails`. Between two of them anything may
happen: only the last steps hold the lifecycle lock.

*Requests.* `req[r]` is a request in service: `Start...`, `Stop...`, `Delete...`,
`Wake...` (`ensure_running_and_persist`, the implicit start of an exec or a file
operation), `Drain...`, `Pause...` and `Resume...`. Their steps are the writes of row and
entry and the calls that end or make a process.

*Launches.* A launch spawns the VMM (`Spawn`), moves it into the scope (`LaunchScopes`,
which systemd refuses while the scope has a process), writes the pid file (`LaunchNames`;
in `LaunchUnnamed` the write fails, which is only logged) and waits for the agent (`Ready`).
The server may be killed between any two of these.

*Locks.* `LifeFree` is the lifecycle lock; a drain does not take it. `SourceFree` is
the file lock of `lock_fork_source`; the supervisor and implicit starts do not take
it, and a drain drops it before it writes the row. `EntryLocked` is the mutex of the
entry, held by a boot.

*The world.* `VmmExits` with code 0 or not, `GuestHangs`, `ExternalDelete` (the
command line deletes the machine), `ServerStops` (anywhere, also in a launch) and
`ServerStarts` (`load_persisted_machines`, which may skip a machine).

*Abstractions.* One machine, since the supervisor treats them one by one; it is
persistent, has no clones and needs no nested virtualization. The
host has systemd scopes; `Sweep` kills what is in the machine's. A pid file that
names a dead process reads like none. No boot is needed because the configuration
changed. Pause and resume are coarse, since their stages are `SavedExecution`.
Refused requests change nothing and are left out. The command line's
`start`, `stop` and `monitor` are not modelled here (its `start` is in `SavedExecution`).
"Always" stands for unless-stopped too: `should_restart` treats them alike.

### How `LiveResize` corresponds to the code

*State.* For each resource `row` is the recorded size, `made` what the VMM has
created (vCPUs, registered RAM, bytes of the disk file), `used` what the guest uses
(CPUs online, RAM plugged, bytes of the filesystem). `intent` and `receipts` are the
two tables of `db/resize.rs`. `vmm` with `bootid` is the `RuntimeIdentity`; a pid and
its start time may recur after a reboot (`spent`). `synced` is the row as of the last
commit that waited for the disk: `with_durable_resize_write` commits do, a plain
`update_vm` does not, and a power loss may undo it. `file` is the size of the disk
file. `said` is whether the row says that the machine runs, which a start writes last;
`plan` is the row as a start has read it, `upd` a machine update under way. `leaks` is a
history variable of the VMM that runs or starts: a machine update wrote the row after the
start had read it (`crossed`), RAM was registered by a command computed for another VMM,
which had booted with other RAM (`stray`), or the intent was cleared for want of memory
statistics when its RAM was registered already (`unread`).

*The job.* `job` is the resize that holds the source lock, of the server, the command
line or the controller. Its steps are those of `grow_target_locked`: the durable
intent (`GrowBegin`), the runtime (`Make`), the row (`SetRow`), the guest (`GuestGrows`),
the end of the intent (`Finish`), the receipt (`Settle`); a CPU shrink takes CPUs
offline first (`OfflineCpus`). `MakeUnconfirmed`, `GuestStalls`, `MemRefused`, `Refused` and
`Crash` are the ways it ends early. `Reconcile` is `reconcile_pending`.

*The world.* `machine update`, and the disk growth of a stopped machine, look at the
state (`UpdateLooks`), expand the file (`UpdateExpands`) and write the row (`UpdateWrites`),
under no lock that a start would wait for. A start reads the row (`StartReads`), boots what
it read (`StartBoots`) and records that the machine runs (`StartPersists`). Both may be
killed in between. The server's starts wait for the lifecycle lock; with `CliStarts` a
command line, which does not, starts the machine too. `Exit` and `Reboot` end the VMM.

*Abstractions.* One managed disk (storage and overlay disks take the same path). The
machine is not deleted and its name not used again, so the intent's token is left
out. The VMM's commands (external) are atomic and refuse to shrink. The last read-back
and the write of the row are one step. There is one start and one update at a time, and
an update changes one resource.

## 3. Runs

| Run | Instance | Shows |
|---|---|---|
| `leases` | 1 pool of size 1, 2 workers, 2 leases, 2 keys, 1 fault | `TypeOK`, `LeaseOwnsSlot`, `OneLeasePerWorker`, `NoOverfill`, `FillOwnsBatch`, `OneLeasePerKey`, `RetiringIsFinal`, `EndedLeaseStays` |
| `capacity` | 2 pools on one GPU | `WithinCapacity` |
| `live` | 1 pool name, 2 goldens, 1 worker, 1 lease, 1 fault, fairness | `ClaimedWorkerMatches`, `DeletingPoolDrains`, `KeepsPromise` (every step is a step of `OneShot` or leaves its state alone), and the liveness properties `RetiringIsDeleted`, `DeletingIsFinalized`, `ActivationEnds`, `FillsEnd` |
| `orphan` | 1 pool resized to 0 and 1 | finding: `NoOrphanWorker` is violated |
| `paused` | 1 pool, pausable workers | finding: `PausedWorkerKept` is violated |
| `saved` | a server and a command line, 1 retry key, 1 kill | `TypeOK`, `PausedIsSaved`, `MemoryMatchesDisks`, `UnkilledRunsOnItsDisks`, `LockedKillsOnlyZombies`, `SpentOperationsRest`, `StopsOnlySaved`, `NoFreshBoot`, `FrozenIsGuarded` |
| `reinstall` | 2 servers, 1 retry key, 1 kill | finding: `RunsOnItsDisks` is violated |
| `zombie` | a server and a command line | finding: `KillsOnlyZombies` is violated |
| `supervisor` | 2 requests at once, 2 in all, on-failure, 2 retries, 2 faults, fairness | `TypeOK`, `VmmIsNamed`, `WithinRetries`, `DeleteLeavesNoVmm`, `RestartsWanted`, `ForgetsDeleted` |
| `stopped` | 1 request at a time, restart always, no fault | finding: `StoppedStaysStopped` is violated |
| `resize` | CPU, RAM and disk of sizes 1 and 2, 1 operation, 2 requests, 2 faults, 1 reboot, fairness | `TypeOK`, `LeaksAreKnown`, `RightIncarnation`, `AnswersAreTrue`, `UnfinishedEnds` |
| `capture` | as `resize`, 1 request | finding: `CaptureIsWhole` is violated |

Deadlock is checked except in `supervisor`, `stopped`, `resize` and `capture`: a deleted machine
ends everything about it, and a stopped machine may stay stopped.

*Bounds of the pools.* `Ttl = Grace = 1` lets a deadline be ahead or reached, which is all the
code compares. Two workers and two leases are enough for a stale listing, a second
claim, and a worker that is passed over; two keys for a retry beside a new
request. `MaxFaults` bounds restarts and failed passes; one puts a crash at every
point of a run. The set `Machines` bounds the workers that exist at one time, not
their number over time: a name whose rows are gone may be drawn again. Leases stay in their
table until the pool goes, so a run sees `Cardinality(Leases)` leases per life of
a pool. The `capacity` run does not go past a heartbeat, a failed fill or a
deletion (`QuietHost`); the other runs do.

*Bounds of saved executions.* Two processes are all that conflicts need, since each
conflict is between a request and the one that holds, or should hold, a lock.
`MaxWork = 2` tells apart what was saved, what came after and what came after a
resume. The sets `Arts` and
`Vmms` bound the names in use at one time; names are drawn again once nothing
refers to them. One kill puts a crash at every point. The constraint `Orderly` ends `saved`
at a loose start once there was a kill or work: the two properties that speak of loose
starts depend on neither, and the theorems are for all.

*Bounds of supervision.* Two requests beside the supervisor are three actors; a third
request would meet only pairs of them. Two process identities let one VMM be old, or
not recorded, while another is asked for. Two retries tell the first restart, which
fires at once, from a later one, which is armed and falls due, and from the last. Two
faults let a VMM exit and the server stop, or a guest hang and its machine be deleted
from outside, at any two points.

*Bounds of live resize.* Sizes 1 and 2 are a size before and after; the runtime has room
for 3 (`Capacity`), so that a command computed for another VMM may overshoot (`stray`). A
third size adds a target between, and a restart with yet another size of RAM; the theorems
are for every size. With two requests one resize meets another, a retry or an update; two
faults let a resize be interrupted and its recovery too; one reboot lets an identity recur.

*Symmetry.* Workers, leases, keys and (in `capacity`) pools are interchangeable:
no action compares them. Artifacts, VMM identities and retry keys likewise, and in
`stopped` requests and processes. The liveness runs use none.

*Fairness* (`Fairness`). The controller is a loop with a one-second ticker, its
fills are tokio tasks, time passes: weak fairness of their steps. Tokio's mutexes
are FIFO, so a fill that waits for the golden's or the source lock gets it: strong
fairness of `FillLock` and `FillPrepare \/ FillBatchFails`; a finished fill is
collected between two passes: strong fairness of `ReapFill`. `DeleteRetired` is
strongly fair: a deletion is tried on every pass, and the claim is that the
subsystem does not stall unless one machine's deletion fails for ever. Nothing is
assumed of clients, of activation tasks (`ActivateLost` may take any of them), of
workers or of restarts.

`FairSpec` of `Supervisor`: the supervisor is a loop with a ticker, back-offs elapse, a
request in service is served to its end, and a server that stopped is started again
(it runs as a service). `FairSpec` of `LiveResize`: a resize runs to its end, because
every call of it has a timeout, and the controller comes back every ten seconds.
Nothing is assumed of starts and updates. Faults are bounded, so a recovery is eventually left alone.

## 4. Findings

1. **A worker no table names** (`orphan`). A resize down, or a pool deletion,
   retires a slot whose fill still waits for the source lock or the forkpoint. The
   machine is not registered yet and its lifecycle lock is free, so `delete_one`
   answers `NotFound` and the controller removes the row
   (`pool_controller.rs` 480-488). The fill then registers and boots the
   machine; `mark_fork_pool_slot_ready` finds no row, and `retire_failed_provision`
   finds none to retire. The machine runs on, held, in no pool.
2. **A heartbeat retires a paused worker** (`paused`). `heartbeat_lease` asks
   only whether the VMM process lives; a paused worker has none. The controller's
   `leased_worker_is_live` explains why such a worker must be kept, and is tested
   for it.
3. **Disks replaced under a running VMM** (`reinstall`). `resume_vm` writes the pid
   after the launch. Killed in between, it leaves a VMM that runs and a row that
   says Paused without a pid. The next resume asks only the row whether the source
   has stopped, installs the disks of the artifact over the ones that VMM has open,
   and adopts the VMM because it answers. `verify_no_persisted_process` would have
   refused, but it guards launches only.
4. **A frozen guest taken for a zombie** (`zombie`). During a capture the guest does
   not answer and a plain checkpoint leaves the row Running, so a start on the
   command line resolves it to `Unreachable` and kills it. The server's start holds
   the source lock; the command line's takes none.
5. **A stopped machine boots again** (`stopped`). `should_restart` (`config.rs` 152) says
   "a machine the operator stopped must stay stopped", and
   `reconcile_confirmed_stopped_machine` (`machines.rs` 2459) that "An explicit stop must
   suppress the restart supervisor". It sets `user_stopped` in the row only. The
   supervisor asks the copy in the registry entry (`state.rs` 1458), which neither a
   stop nor a drain updates, and boots the machine at its next check.
6. **Registered RAM without an intent** (`capture`). `grow_memory_locked` clears its intent
   when the memory statistics of the VMM's cgroup cannot be read or leave no room
   (`live_resize.rs` 486-508): "every earlier attempt on this VMM stopped at this same
   check, so no RAM was registered under the intent". An earlier try may have passed it,
   registered the RAM and then lost its reply or been killed. If the next try finds the
   statistics unreadable, the intent goes, and `require_completed_resize` ("an unfinished
   operation cannot leak partially applied geometry", `db/resize.rs` 161) lets a capture
   see RAM that the row and the guest do not have.

### Remarks without a run

*Saved executions.* Starts that take no source lock (the command line's, the embedding
program's, implicit ones and the supervisor's) are not excluded from anything. An implicit
start that has looked for a saved execution (`state.rs` 1770), while the command line
pauses the machine, or a restart that was decided, and waits for the lifecycle lock behind
a start and a pause of the same server, boots the paused machine afresh, although
"A paused machine must be resumed, never booted fresh" (`state.rs` 1719). The command
line's start has one more look, but a whole pause fits between it and the launch. Without
`~loose` TLC finds `NoFreshBoot`, `PausedIsSaved`, `MemoryMatchesDisks`, `StopsOnlySaved`
and `UnkilledRunsOnItsDisks` violated. Such a start that is killed between launching its
VMM and recording it leaves a row that names the VMM before it; if a pause of that machine
fails after its commit, the row stays Paused, and a resume replaces the disks under the VMM. A SAVE whose reply is lost, and a guard whose
RESUME fails, leave a guest frozen in a row that says Running or Pausing; only the next
pause or resume of a row that says Pausing, or a start that takes it for a zombie, ends
that. A capture that fails after its commit wakes the guest; if the
VMM exits before the row is taken back, the row keeps the artifact, which is
older than the guest was, and the next resume replays it. A machine that says
Pausing, whose VMM is gone and whose artifact is incomplete, can only be
deleted. The memory guard writes `pause_reason` after the pause: killed in between,
it does not resume the machine by itself.

*Pools.* The comment in `acquire_lease_inner` that an unsuccessful claim commits
nothing is not exact; a claim that finds no acceptable worker commits the retirement
of those it passed over (`ClaimRefused`). That is harmless. `acquire_lease` reads the
pool's admission mode once and then waits: a pool created anew in the other mode
meanwhile is claimed without the device's limit (`pools.rs` 841). A recovery that stops
at a database error is not repeated until the next restart, and the rows it did not
reach count against the target until then (`pool_controller.rs` 124). A fill that panics
clears the set of all running fills (`pool_controller.rs` 187).

*Supervision.* An explicit start registers the entry from a record it read before it
clears `user_stopped` and the restart count in the row (`machines.rs` 4382, 4517), so
the two copies disagree until the server restarts. `WithinRetries` therefore counts
from a registration, and allows one boot decided before it. A delete on the command
line while the supervisor boots the machine finds no running machine in the row and
leaves a VMM without a row (`vm_common.rs` 3002); `VmmIsNamed` speaks of machines that
exist. "Failed agent reconnect must not authorize opening the surviving process's disks a
second time" (`manager.rs` 2713) is kept by the pid file and the row alone. A server killed
between the spawn (3674) and the pid file (2888) leaves a VMM that neither names, and a
file that cannot be written leaves one too until the row has it. If that VMM is in the
scope, systemd refuses the scope of a second one, which is then killed; if it is not yet,
and its agent does not answer, a second VMM boots beside it on the same disks, and a
delete does not find it. `VmmIsNamed` and `DeleteLeavesNoVmm` name these cases (`lost`).

*Live resize.* A RAM resize on the command line holds the source lock only; the
supervisor and implicit starts take only the lifecycle lock. If the VMM exits after the
intent is written and such a start replaces it, with another size of RAM, the command
(`live_resize.rs` 510), which is a difference to the size the old VMM had booted with,
goes to the new one. The read-back notices and the resize fails. If the new VMM booted
with the target or more, `clear_met_memory_intent` (262-289) then drops the intent: "so
the target is met". The VMM keeps RAM that the row does not know of, and captures are
allowed (`stray`). `machine update` asks for the state (`cli/machine.rs` 7151) and writes the
row later (7276), under no lock, and a row says Stopped until a boot is recorded: the row
may change under a VMM that boots with the old sizes (`crossed`). No resize is unfinished
then, so `CaptureIsWhole`, which is about those, does not count it; `LeaksAreKnown` says
that there is no fourth way. The intent of a disk growth whose VMM is gone, and whose disk was then
grown past its target offline, can never be finished: a retry is refused
(`machines.rs` 6793, `db/resize.rs` 171 "retry its original target"). `UnfinishedEnds`
excepts it (`Outgrown`). With `CliStarts`, a start between the check of the identity and
the intent lets the resize reach the next VMM (`live_resize.rs` 89), and
`RightIncarnation` fails. A resize that was applied, killed
before its receipt, and undone by another, is Rejected when its retry fails, although
it did change resources for a while (`api/errors.rs` 40 says "refused before changing
resources"). `AnswersAreTrue` therefore promises of Rejected only that the guest has now
what was recorded when the operation was opened.

## 5. Proofs

Every safety property of a passing run is a theorem, for every value of the constants:
any number of pools, workers, leases, processes, requests, identities and operations,
any sizes, limits and bounds, any number of faults. What remains with TLC alone is
liveness.

| Module | Theorem | States |
|---|---|---|
| `ForkPoolProofs` | `TypeCorrect` | `Spec => []TypeOK` |
| | `LeasesOwnTheirSlots` | `Spec => []LeaseOwnsSlot` |
| | `WorkersAreOneShot` | `Spec => []OneLeasePerWorker` |
| | `DeletionDrains` | `Spec => []DeletingPoolDrains` |
| | `FillsOwnTheirBatches` | `Spec => []FillOwnsBatch` |
| | `RetiringWorkersStay` | `Spec => RetiringIsFinal` |
| | `EndedLeasesStay` | `Spec => EndedLeaseStays` |
| `ForkPoolPromise` | `KeysAreServedOnce` | `Spec => []OneLeasePerKey` |
| | `WorkersMatchTheirPools` | `Spec => []ClaimedWorkerMatches` |
| | `PoolsAreNotOverfilled` | `Spec => []NoOverfill` |
| | `CapacityIsKept` | `Spec => []WithinCapacity` |
| | `PromiseIsKept` | `Spec => KeepsPromise`: `ForkPool` implements `OneShot` |
| `SavedExecutionProofs` | `Types` | `Spec => []TypeOK` |
| | `SpentKeysRest` | `Spec => []SpentOperationsRest` |
| | `PausedMachinesAreSaved` | `Spec => []PausedIsSaved` |
| | `MemoryAndDisksAgree` | `Spec => []MemoryMatchesDisks` |
| | `UnkilledMachinesKeepTheirDisks` | `Spec => []UnkilledRunsOnItsDisks` |
| | `OnlyZombiesAreKilled` | `Spec => []LockedKillsOnlyZombies` |
| | `SavedMachinesAreNotBooted` | `Spec => NoFreshBoot` |
| | `StoppedVmmsAreSaved` | `Spec => StopsOnlySaved` |
| | `FrozenGuestsAreGuarded` | `Spec => FrozenIsGuarded` |
| `SupervisorProofs` | `Types` | `Spec => []TypeOK` |
| | `OneVmmPerMachine` | `Spec => []VmmIsNamed` |
| | `RetriesAreBounded` | `Spec => []WithinRetries` |
| | `DeletesAreComplete` | `Spec => DeleteLeavesNoVmm` |
| `LiveResizeProofs` | `Types` | `Spec => []TypeOK` |
| | `Captures` | `Spec => []LeaksAreKnown` |
| | `Answers` | `Spec => AnswersAreTrue` |
| | `Incarnations` | `Spec => []RightIncarnation`, if `CliStarts = FALSE` |

*Assumptions.* The named ASSUMEs of the four models: bounds are in `Nat` and times
positive, request values have their types, command lines are processes, and `None` is
none of the values it stands beside. One hypothesis is in a theorem itself:
`CliStarts = FALSE` says that every start waits for the lifecycle lock; without it
`RightIncarnation` is false (section 4). The exceptions `loose`, `lost` and `leaks` are in the
properties, so that the theorems and the runs state the same.

### Pools

*The inductive invariant* is
`IInv == TypeOK /\ LeaseOwnsSlot /\ OneLeasePerWorker /\ DeletingPoolDrains /\ FillOwnsBatch`.
No part stands alone. `LeaseOwnsSlot` is threatened by the steps that write a
slot row without looking at its state: `retire_failed_provision` and the row
removal after a deletion. `FillOwnsBatch` says that a fill only holds rows that are
provisioning, retiring or gone, and that a deletion listing only holds retiring
ones; that in turn needs `RetiringIsFinal` of every step, which needs that a
live lease's worker is not retiring, which is `LeaseOwnsSlot`. `OneLeasePerWorker`
needs that a ready worker was never leased. `DeletingPoolDrains` is what lets
`FinalizePools` remove leases without leaving slots behind.

*Layout*: types per group of actions; ownership lemmas per kind of table update
(retire, move, transition, claim, end several leases), then one step per action;
`RowSteps`, what any step may do to one row, from which the two action properties
and `DeletingPoolDrains` follow; `FillFrame` and `FillChange`, what a step outside
or inside a fill must respect to keep `FillOwnsBatch`.

*Counting* (`ForkPoolPromise`). `StepKinds` says that every step but a claim, an
activation, a reservation, the removal of a row and the removal of drained pools is
`Quiet`: it adds and removes no row, opens no lease and moves none back. From it follow
`NewLeases` and `NewSlots`: only a claim inserts a lease and only a reservation a slot,
each in a transaction that has just compared the count with its limit. That the tables are
finite (`FiniteTables`) is proved by the same induction, so no set of names is assumed
finite. `WithinCapacity` needs a strengthening that speaks of devices instead of pools
(`WithinDevices`), because a pool may go and come back while leases of others on its
device go on.

*Refinement* (`PromiseIsKept`). The mapping gives each worker its stage in `OneShot`
from the two tables. Quiet steps are stutters or ends; `ClaimGrants`, `CommitOpens`,
`ReserveStocks`, `DeleteRemoves` and `FinalizeForgets` are the steps that are not.

### Saved executions

The invariant is `Base /\ (loose \/ Calm)`. `Base == TypeOK /\ Locks /\ Equipped /\ Chosen /\ Keyed`
holds with loose starts too: each lock has one owner at most, a request carries the
artifact, row and VMM that its next steps use, a paused row names an artifact, and the
key of a pause in service is active because keys are retired only under the lock of the
saved execution. `SpentKeysRest` and, step by step, `FrozenGuestsAreGuarded` follow from it.

`Calm == Lonely /\ Inv`. `Lonely` says that a start without the source lock is the only
request in service: `loose` is set when that ends. `Inv` adds what the row says of the world
(`RowTrue`), what the disks and their record say (`DisksTrue`), what each request relies on at
each of its steps (`At`), and that without kills a VMM is named by the row or on its way into
it (`Unkilled`). The argument is about who may be where. Whoever holds the lock of the saved
execution while something is saved is alone (`Alone`); while nothing is saved, beside a
request that holds the source there are only pauses that wait for it or clean up (`Meek`);
a start without the lock is alone by `Lonely`. So a step disturbs no other request (`InvMove`)
and each action is left with its own `At`. A row that says Running names the VMM there is,
unless a lonely start is about to record a new one (`Recording`), which is why its death in
between makes it loose. An artifact is complete and current from `PausePack` to the resume
because the guest stays frozen until its VMM is ended, or is woken, after which `stop_paused`
no longer ends it; that is `RowTrue`'s clause for a paused row whose VMM lives.

### Supervision

`Inv == TypeOK /\ Locks /\ Down /\ Present /\ OneVmm /\ Counts`, where
`OneVmm == VmmIsNamed /\ Births /\ Scoped /\ RowNames /\ Held /\ EntryNames`.
`VmmIsNamed` is threatened by the steps that write or clear the pid file for a process
they remember rather than see. All of `OneVmm` speaks of the VMMs that are not lost (`Kept`).
`Births` says that a launch without a pid file is that of a holder of the lifecycle lock,
`Scoped` that every kept VMM but that one is in the scope, `RowNames` that a live VMM in the
row is the only one. `Held` says that what the holder of the lifecycle lock
boots, adopts or is about to stop is the only VMM there is, and that none but a lost one
outside the scope is left when a delete removes the row, which is `DeletesAreComplete`;
`EntryNames` says the same of the child of a manager, which later requests trust; `Present` and
`Down` that row and entry do not vanish under whoever looked them up. `Counts` bounds `tries` by either copy of
the restart count and by where the supervisor is: a restart decided before a start may run
after it, which is where the one more of `WithinRetries` comes from.

### Live resize

`Inv` says which resource may be unfinished (`Covered`: only the one of the intent, or one
that a leak excuses), that the intent in the database is the one of the job (`Journal`), what
a job knows at each step as long as the VMM it wrote its intent for is running (`Progress`),
and what is left of the RAM when another one is (`Replaced`, `RamOfIntent`). `Starting`: a start
that has not booted boots what the row says, unless an update crossed it. `Identities` keeps a
VMM's identity from recurring within a boot of the host while anything refers to it.
`DiskHolds`: a disk file is never smaller than the row, durable or not, says, so a power loss
may undo the row. `Receipted` relates a receipt to its resize, for `AnswersAreTrue`: that
Rejected is true then follows from `Covered`, since without an intent the guest has what the
row says. `Conditional` is what `Incarnations` needs in addition.

### Only model-checked

`RetiringIsDeleted`, `DeletingIsFinalized`, `ActivationEnds`, `FillsEnd`,
`RestartsWanted`, `ForgetsDeleted` and `UnfinishedEnds` are liveness under fairness, which is
out of the prover's reach. The six properties of section 4 are false. Each inductive invariant
was checked with TLC on the instance of its run before it was proved.

## 6. Not modelled, and the plan

Left out for good: guest agent, protocol framing, network stack, CUDA remoting,
packs, registry, S3, credentials, CLI: I/O and formats rather than state shared
between actors. These are most of the repository's lines; the modules above cover
the code that keeps durable rows and background loops, and the share of lines they
map is small for that reason.

Next, in this order:

1. Proofs: abstract specifications of a saved execution and of a resize, and their
   refinement.
2. The rest of `SavedExecution`: deletion, the memory guard as a client of it, the
   download of an artifact; the abstract promise that an execution is running or
   saved.
3. `Admission`: growth and back-off of the limit.
4. `InflightFence`: enter, leave, drain.
5. Name reservations of the registry: two creates of one name.
6. `ArtifactCache` and the checkpoint store: references against collection.
