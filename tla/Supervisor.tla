----------------------------- MODULE Supervisor -----------------------------
(***************************************************************************)
(* The life of one machine in the server: its row in the database, its     *)
(* entry in the in-memory registry, its VMM process and pid file, under    *)
(* the supervisor's health check and the start, stop, delete, drain,       *)
(* pause, resume and implicit-start requests the server handles at once.   *)
(*                                                                         *)
(* The supervisor checks machines one after the other and shares nothing   *)
(* between them but its loop, so one machine is modelled. A request that   *)
(* is refused, or that finds nothing to do, changes nothing and is left    *)
(* out. A pid stands for a process and its start time; the machine has no  *)
(* fork clones and does not need nested virtualization. The command line   *)
(* deletes the machine but does not start it. The host has systemd, so a   *)
(* launched VMM is moved into the machine's scope.                         *)
(***************************************************************************)
EXTENDS Naturals

CONSTANTS
    Reqs,        \* requests the server can have in service at one time
    Vmms,        \* identities of VMM processes
    Policy,      \* the restart policy; "Always" stands for unless-stopped too
    MaxRetries,  \* max_retries, 0 for unlimited
    MaxOps,      \* bound: requests served
    MaxFaults,   \* bound: VMM exits and hangs, server restarts, external deletes,
                 \* pid files not written
    None

ASSUME PolicyAssumption == Policy \in {"Never", "Always", "OnFailure"}
ASSUME BoundAssumption == MaxRetries \in Nat /\ MaxOps \in Nat /\ MaxFaults \in Nat

VARIABLES
    row,      \* the record in the database, None once deleted
    entry,    \* the registry entry, None when the server knows no machine
    vms,      \* the VMM processes of this machine that are alive
    mute,     \* those among them whose agent does not answer
    pidfile,  \* the process the pid file names, None when that one is dead
    sock,     \* the process behind the agent socket, None when that one is dead
    scope,    \* the processes in the machine's systemd scope
    born,     \* the process of a launch whose pid file is not written yet
    lost,     \* history: processes whose launch ended without a pid file
    clean,    \* processes known to the server to have exited with code 0
    sup,      \* where the supervisor's check of this machine is
    sched,    \* next_restart_at: no restart scheduled, armed, or due
    req,      \* the requests in service
    up,       \* is the server running?
    tries,    \* history: boots by the supervisor since a start registered the machine
    ops, faults

procs == <<vms, mute, pidfile, sock, scope, born, lost, clean>>
vars == <<row, entry, procs, sup, sched, req, up, tries, ops, faults>>

Opt(S) == S \cup {None}
Rows == [state : {"Created", "Running", "Stopped", "Failed", "Paused"}, pid : Opt(Vmms),
         paused : BOOLEAN, count : Nat, stopped : BOOLEAN, clean : BOOLEAN]
\* A MachineEntry: its AgentManager's child, state and vm.lock, and its copy of
\* the restart configuration.
Entries == [child : Opt(Vmms), run : BOOLEAN, flock : BOOLEAN, count : Nat, stopped : BOOLEAN]

\* None stands for the absence of each of these.
ASSUME NoneAssumption == None \notin Vmms \cup Reqs \cup Rows \cup Entries

StartPcs == {"sLaunch", "sBoot", "sPersist"}
StopPcs == {"tKill", "tCommit"}
DeletePcs == {"dKill", "dRemove"}
SavedPcs == {"pStop", "rBoot"}
WakePcs == {"wLaunch", "wBoot", "wPersist"}
DrainPcs == {"nKill", "nCommit"}
SupPcs == {"idle", "probe", "read", "decide", "settle", "bump", "lock", "launch", "boot"}
Tasks == [pc : {"idle"} \cup StartPcs \cup StopPcs \cup DeletePcs \cup WakePcs \cup DrainPcs
               \cup SavedPcs,
          vm : Opt(Vmms), own : BOOLEAN, count : Nat, stopped : BOOLEAN]
Idle == [pc |-> "idle", vm |-> None, own |-> FALSE, count |-> 0, stopped |-> FALSE]

TypeOK ==
    /\ row \in Opt(Rows) /\ entry \in Opt(Entries)
    /\ vms \subseteq Vmms /\ mute \subseteq vms /\ clean \subseteq Vmms \ vms
    /\ scope \subseteq vms /\ lost \subseteq vms
    /\ pidfile \in Opt(Vmms) /\ sock \in Opt(Vmms) /\ born \in Opt(Vmms)
    /\ sup \in SupPcs /\ sched \in {"none", "armed", "due"}
    /\ req \in [Reqs -> Tasks]
    /\ up \in BOOLEAN /\ tries \in Nat
    /\ ops \in 0..MaxOps /\ faults \in 0..MaxFaults

\* A machine just registered: never booted, its entry built with its row.
Init ==
    /\ row = [state |-> "Created", pid |-> None, paused |-> FALSE, count |-> 0,
              stopped |-> FALSE, clean |-> FALSE]
    /\ entry = [child |-> None, run |-> FALSE, flock |-> FALSE, count |-> 0, stopped |-> FALSE]
    /\ vms = {} /\ mute = {} /\ scope = {} /\ lost = {} /\ clean = {}
    /\ pidfile = None /\ sock = None /\ born = None
    /\ sup = "idle" /\ sched = "none"
    /\ req = [r \in Reqs |-> Idle]
    /\ up = TRUE /\ tries = 0 /\ ops = 0 /\ faults = 0

-----------------------------------------------------------------------------
(* Locks, probes and the agent manager.                                     *)

\* lifecycle_lock: per machine, within the server. A drain does not take it.
LifeFree ==
    /\ sup \notin {"launch", "boot"}
    /\ \A r \in Reqs : req[r].pc \in {"idle"} \cup DrainPcs
\* lock_fork_source: a file lock. The supervisor and implicit starts do not
\* take it, and a drain drops it before it writes the row.
SourceFree ==
    \A r \in Reqs : req[r].pc \notin SavedPcs \cup StartPcs \cup StopPcs \cup DeletePcs

\* The agent answers a ping on its socket; a guest is not up before its launch
\* has its pid file.
Reachable == sock \in vms \ mute /\ sock # born

\* A boot holds the mutex of the entry.
EntryLocked == sup = "boot" \/ \E r \in Reqs : req[r].pc = "wBoot"

\* is_machine_alive: the child handle, else the pid file; an entry that is
\* locked by a boot counts as alive.
EntryAlive ==
    /\ entry # None
    /\ \/ EntryLocked
       \/ (IF entry.child # None THEN entry.child ELSE pidfile) \in vms

\* resolve_state.
Resolved ==
    CASE row.state # "Running" -> row.state
      [] Reachable -> "Running"
      [] ~Reachable /\ row.pid \in vms -> "Unreachable"
      [] OTHER -> "Stopped"

\* A request begins with the row it read.
Begin(r, pc) ==
    /\ req' = [req EXCEPT ![r] = [Idle EXCEPT !.pc = pc, !.vm = IF row = None THEN None ELSE row.pid]]
    /\ ops' = ops + 1
Goto(r, pc) == req' = [req EXCEPT ![r].pc = pc] /\ ops' = ops
Done(r) == req' = [req EXCEPT ![r] = Idle] /\ ops' = ops
CanBegin(r) == up /\ req[r].pc = "idle" /\ ops < MaxOps

\* update_vm: a row that is gone stays gone.
Write(new) == IF row = None THEN None ELSE new
\* mark_stopped: forget the child and release vm.lock.
Released(e) == IF e = None THEN None ELSE [e EXCEPT !.child = None, !.run = FALSE, !.flock = FALSE]
SetState(state, pid) == Write([row EXCEPT !.state = state, !.pid = pid])

\* reconcile_confirmed_stopped_machine
Reconcile(explicitly) ==
    /\ entry' = Released(entry)
    /\ row' = Write([row EXCEPT !.state = "Stopped", !.pid = None,
                                !.stopped = @ \/ explicitly])

\* v unless it is among the dead.
Unless(dead, v) == IF v \in dead THEN None ELSE v
Gone(dead) ==
    /\ vms' = vms \ dead /\ mute' = mute \ dead /\ scope' = scope \ dead /\ lost' = lost \ dead
    /\ UNCHANGED clean
\* Processes die and their files are left behind; every reader of the pid file
\* asks whether the process it names is alive.
Dead(dead) ==
    /\ Gone(dead) /\ pidfile' = Unless(dead, pidfile) /\ sock' = Unless(dead, sock)
    /\ UNCHANGED born

\* AgentManager::stop of the registered manager: what it signals, and when it
\* succeeds (a guest that cannot acknowledge is left alive). A manager that knows
\* no process signals none; the socket goes when there was anything to clean up.
StopTarget == IF entry.run /\ entry.child # None THEN entry.child ELSE pidfile
StopsCleanly == StopTarget \in vms => Reachable
Stop ==
    /\ Gone({StopTarget}) /\ pidfile' = None /\ UNCHANGED born
    /\ sock' = None \/ (~entry.run /\ sock' = Unless({StopTarget}, sock))
\* shutdown_machine_process without a manager: the guest acknowledges, or the
\* process the row named is dead already; then the scope is swept.
ShutsDown(vm) == Reachable \/ (vm # None /\ vm \notin vms)
Sweep(vm) == Dead({vm} \cup scope)

\* prepare_for_launch: vm.lock is free, neither the pid file nor the row names
\* a process that is alive, and the disks exist.
VerifyRowOnly == row # None /\ row.pid \notin vms   \* Mutant: the pid file is not read.
VerifyNoPersistedProcess == row # None /\ row.pid \notin vms /\ pidfile \notin vms
Fresh(v) ==
    /\ v \notin vms /\ v # pidfile /\ v # sock
    /\ row # None => v # row.pid
    /\ entry # None => v # entry.child
    /\ \A r \in Reqs : v # req[r].vm
SpawnKeepsExit(v) ==   \* Mutant: the exit code of a recycled process is kept.
    /\ Fresh(v) /\ VerifyNoPersistedProcess
    /\ vms' = vms \cup {v} /\ sock' = v /\ born' = v
    /\ UNCHANGED <<mute, pidfile, scope, lost, clean>>
\* start_via_subprocess spawns the VMM, which takes over the agent's socket.
Spawn(v) ==
    /\ Fresh(v) /\ VerifyNoPersistedProcess
    /\ vms' = vms \cup {v} /\ sock' = v /\ born' = v
    /\ clean' = clean \ {v} /\ UNCHANGED <<mute, pidfile, scope, lost>>
\* abort_failed_launch: the child that was not adopted or did not get ready is
\* killed.
Abort(v) == Gone({v}) /\ pidfile' = None /\ sock' = Unless({v}, sock) /\ born' = None

-----------------------------------------------------------------------------
(* A launch between its VMM and its pid file. One is under way at most: its *)
(* launcher holds the lifecycle lock.                                       *)

\* One of the boundedly many things that go wrong.
Fault == faults < MaxFaults /\ faults' = faults + 1
LaunchKeeps == UNCHANGED <<row, entry, vms, mute, sock, clean, sup, sched, req, up, tries, ops>>
\* adopt_into_scope: systemd refuses a name whose scope has a process.
LaunchScopes ==
    /\ born \in vms \ scope /\ scope = {}
    /\ scope' = {born}
    /\ UNCHANGED <<pidfile, born, lost, faults>> /\ LaunchKeeps
\* finalize_launch writes the pid file; a failure is only logged.
LaunchNames ==
    /\ born \in scope
    /\ pidfile' = born /\ born' = None
    /\ UNCHANGED <<scope, lost, faults>> /\ LaunchKeeps
LaunchUnnamed ==
    /\ born \in scope /\ Fault
    /\ lost' = lost \cup {born} /\ born' = None
    /\ UNCHANGED <<scope, pidfile>> /\ LaunchKeeps
LaunchStep == LaunchScopes \/ LaunchNames \/ LaunchUnnamed
\* wait_for_ready: the launched process v answers.
Ready(v) == born = None /\ v \in vms \ mute

-----------------------------------------------------------------------------
(* The supervisor: check_machine and restart_machine.                       *)

\* RestartConfig::should_restart, on the copy in the registry entry.
ShouldRestart ==
    /\ ~entry.stopped
    /\ MaxRetries > 0 => entry.count < MaxRetries
    /\ \/ Policy = "Always"
       \/ Policy = "OnFailure" /\ ~(row # None /\ row.clean)

Quiet == UNCHANGED <<req, up, ops, faults>>
Rest == sup' = "idle" /\ sched' = "none"

\* forget_deleted_machine under try_lock of the lifecycle lock.
SupTickNeverForgets ==   \* Mutant: a machine without a row is checked like any other.
    /\ up /\ sup = "idle" /\ entry # None /\ LifeFree
    /\ sup' = "probe" /\ UNCHANGED <<entry, sched>>
    /\ UNCHANGED <<row, procs, tries>> /\ Quiet
SupTick ==
    /\ up /\ sup = "idle" /\ entry # None /\ LifeFree
    /\ IF row = None THEN entry' = None /\ Rest
                     ELSE sup' = "probe" /\ UNCHANGED <<entry, sched>>
    /\ UNCHANGED <<row, procs, tries>> /\ Quiet

SupProbe ==
    /\ sup = "probe"
    /\ IF EntryAlive THEN Rest ELSE sup' = "read" /\ sched' = sched
    /\ UNCHANGED <<row, entry, procs, tries>> /\ Quiet

\* A saved execution, or a row that still names a live VMM, is left alone;
\* otherwise the exit code is collected, once, and recorded.
SupRead ==
    /\ sup = "read"
    /\ IF row # None /\ (row.paused \/ row.pid \in vms)
       THEN Rest /\ UNCHANGED <<row, clean>>
       ELSE /\ sup' = "decide" /\ sched' = sched
            /\ IF row = None \/ row.pid = None THEN UNCHANGED <<row, clean>>
               ELSE row' = [row EXCEPT !.clean = row.pid \in clean] /\ clean' = clean \ {row.pid}
    /\ UNCHANGED <<entry, vms, mute, pidfile, sock, scope, born, lost, tries>> /\ Quiet

\* restart_timing: a first restart (a backoff of one second) fires at once, a
\* later one is armed and fires on a tick after it is due.
TimingRearms ==   \* Mutant: a due restart is armed again.
    IF entry.count = 0 THEN sup' = "bump" /\ sched' = "none" ELSE sup' = "idle" /\ sched' = "armed"
RestartTiming ==
    CASE entry.count = 0 \/ sched = "due" -> sup' = "bump" /\ sched' = "none"
      [] OTHER -> sup' = "idle" /\ sched' = "armed"

SupDecide ==
    /\ sup = "decide" /\ ~EntryLocked
    /\ CASE entry = None -> Rest
         [] entry # None /\ ~ShouldRestart -> sup' = "settle" /\ sched' = "none"
         [] OTHER -> RestartTiming
    /\ UNCHANGED <<row, entry, procs, tries>> /\ Quiet

\* The state is written without any lock.
SupSettle ==
    /\ sup = "settle"
    /\ row' = SetState("Stopped", None)
    /\ Rest
    /\ UNCHANGED <<entry, procs, tries>> /\ Quiet

\* increment_restart_count
SupBumpRowOnly ==   \* Mutant: the registry's count is not raised.
    /\ sup = "bump" /\ ~EntryLocked
    /\ row' = Write([row EXCEPT !.count = @ + 1])
    /\ sup' = "lock" /\ UNCHANGED <<entry, procs, sched, tries>> /\ Quiet
SupBump ==
    /\ sup = "bump" /\ ~EntryLocked
    /\ entry' = IF entry = None THEN None ELSE [entry EXCEPT !.count = @ + 1]
    /\ row' = Write([row EXCEPT !.count = @ + 1])
    /\ sup' = "lock" /\ UNCHANGED <<procs, sched, tries>> /\ Quiet

\* restart_machine waits for the lifecycle lock, then looks again.
SupLock ==
    /\ sup = "lock" /\ LifeFree
    /\ sup' = IF EntryAlive \/ entry = None \/ row = None THEN "idle" ELSE "launch"
    /\ UNCHANGED <<row, entry, procs, sched, tries>> /\ Quiet

\* ensure_running_via_subprocess finds the agent answering and adopts it, under
\* the identity the pid file gives, if there is one.
Adopt == entry' = [entry EXCEPT !.child = IF pidfile # None THEN pidfile ELSE @, !.run = TRUE]
\* It stops what its manager still holds, or resets a stale state, then boots.
Launch(v) ==
    /\ ~Reachable /\ entry.child \notin vms /\ Spawn(v)
    /\ entry' = [entry EXCEPT !.child = v, !.run = FALSE, !.flock = TRUE]

SupAdopts ==
    /\ sup = "launch" /\ Reachable /\ Adopt
    /\ row' = SetState("Running", entry'.child)
    /\ sup' = "idle" /\ UNCHANGED <<procs, sched, tries>> /\ Quiet
SupLaunch(v) ==
    /\ sup = "launch" /\ Launch(v)
    /\ tries' = tries + 1
    /\ sup' = "boot" /\ UNCHANGED <<row, sched>> /\ Quiet
SupBoot ==
    /\ sup = "boot" /\ Ready(entry.child)
    /\ entry' = [entry EXCEPT !.run = TRUE]
    /\ row' = SetState("Running", entry.child)
    /\ sup' = "idle" /\ UNCHANGED <<procs, sched, tries>> /\ Quiet
\* The launch is refused, or the boot fails.
SupFails ==
    /\ \/ sup = "launch" /\ ~Reachable /\ UNCHANGED procs
          /\ entry' = IF entry.child \in vms THEN entry ELSE Released(entry)
       \/ sup = "boot" /\ Abort(entry.child) /\ entry' = Released(entry)
    /\ row' = SetState("Failed", None)
    /\ sup' = "idle" /\ UNCHANGED <<sched, tries>> /\ Quiet

\* The backoff elapses.
BackoffEnds ==
    /\ sched = "armed" /\ sched' = "due"
    /\ UNCHANGED <<row, entry, procs, sup, tries>> /\ Quiet

-----------------------------------------------------------------------------
(* Requests the server handles.                                             *)

Still == UNCHANGED <<sup, sched, up, faults>>
Calm == Still /\ UNCHANGED tries

\* start_machine of a machine that runs but is not registered.
FromRow == [child |-> None, run |-> FALSE, flock |-> FALSE, count |-> row.count, stopped |-> row.stopped]
StartRepairs(r) ==
    /\ CanBegin(r) /\ LifeFree /\ SourceFree
    /\ row # None /\ ~row.paused /\ Resolved = "Running" /\ entry = None
    /\ entry' = FromRow
    /\ ops' = ops + 1 /\ UNCHANGED <<row, procs, req>> /\ Calm

\* start_machine: an unreachable VMM is killed, the registered manager lets go
\* of vm.lock, and the restart configuration is read.
StartBegin(r) ==
    /\ CanBegin(r) /\ LifeFree /\ SourceFree
    /\ row # None /\ ~row.paused /\ Resolved # "Running"
    /\ IF Resolved = "Unreachable" THEN Dead({row.pid}) ELSE UNCHANGED procs
    /\ IF row.state \in {"Running", "Stopped"} THEN Reconcile(FALSE) ELSE UNCHANGED <<row, entry>>
    /\ req' = [req EXCEPT ![r] = [Idle EXCEPT !.pc = "sLaunch", !.count = row.count,
                                               !.stopped = row.stopped]]
    /\ ops' = ops + 1 /\ Calm

\* A new manager boots the machine, or adopts one that answers.
StartAdopts(r) ==
    /\ req[r].pc = "sLaunch" /\ Reachable
    /\ req' = [req EXCEPT ![r].pc = "sBoot", ![r].vm = pidfile]
    /\ UNCHANGED <<row, entry, procs, ops>> /\ Calm
StartLaunch(r, v) ==
    /\ req[r].pc = "sLaunch" /\ ~Reachable
    /\ entry # None => ~entry.flock
    /\ Spawn(v)
    /\ req' = [req EXCEPT ![r].pc = "sBoot", ![r].vm = v, ![r].own = TRUE]
    /\ UNCHANGED <<row, entry, ops>> /\ Calm
\* The machine is registered with the configuration read at the beginning.
StartRegister(r) ==
    /\ req[r].pc = "sBoot" /\ (req[r].own => Ready(req[r].vm))
    /\ entry' = [child |-> req[r].vm, run |-> TRUE, flock |-> req[r].own,
                 count |-> req[r].count, stopped |-> req[r].stopped]
    /\ tries' = 0
    /\ Goto(r, "sPersist")
    /\ UNCHANGED <<row, procs>> /\ Still
StartPersist(r) ==
    /\ req[r].pc = "sPersist"
    /\ row' = Write([row EXCEPT !.state = "Running", !.pid = req[r].vm, !.stopped = FALSE,
                                !.count = 0])
    /\ Done(r)
    /\ UNCHANGED <<entry, procs>> /\ Calm
\* The launch is refused or the boot fails; the image cannot be pulled.
StartFails(r) ==
    /\ \/ req[r].pc = "sLaunch" /\ ~Reachable /\ UNCHANGED <<row, entry, procs>>
       \/ req[r].pc = "sBoot" /\ req[r].own /\ Abort(req[r].vm) /\ UNCHANGED <<row, entry>>
       \/ req[r].pc = "sPersist" /\ Dead({req[r].vm}) /\ Reconcile(FALSE)
    /\ Done(r) /\ Calm

\* stop_machine: a machine found dead is only marked, unless it was never booted
\* or failed.
StopDead(r) ==
    /\ CanBegin(r) /\ LifeFree /\ SourceFree
    /\ row # None /\ ~row.paused /\ Resolved \notin {"Running", "Unreachable"}
    /\ row.state \in {"Running", "Stopped"}
    /\ Reconcile(TRUE)
    /\ ops' = ops + 1 /\ UNCHANGED <<procs, req>> /\ Calm
StopBegin(r) ==
    /\ CanBegin(r) /\ LifeFree /\ SourceFree
    /\ row # None /\ ~row.paused /\ Resolved \in {"Running", "Unreachable"}
    /\ Begin(r, "tKill")
    /\ UNCHANGED <<row, entry, procs>> /\ Calm
StopKill(r) ==
    /\ req[r].pc = "tKill"
    /\ IF entry # None
       THEN StopsCleanly /\ Stop /\ entry' = Released(entry)
       ELSE ShutsDown(req[r].vm) /\ Sweep(req[r].vm) /\ UNCHANGED entry
    /\ Goto(r, "tCommit") /\ UNCHANGED row /\ Calm
StopCommit(r) ==
    /\ req[r].pc = "tCommit"
    /\ Reconcile(TRUE)
    /\ Done(r) /\ UNCHANGED procs /\ Calm
\* The guest does not confirm its flush: the VMM is left alive.
StopFails(r) ==
    /\ req[r].pc = "tKill"
    /\ Done(r) /\ UNCHANGED <<row, entry, procs>> /\ Calm

\* delete_one_transaction: kill without ceremony, sweep the scope, then remove
\* the data, the row and the entry.
DeleteBegin(r) ==
    /\ CanBegin(r) /\ LifeFree /\ SourceFree /\ row # None
    /\ Begin(r, "dKill")
    /\ UNCHANGED <<row, entry, procs>> /\ Calm
DeleteKillsRecorded(r) ==   \* Mutant: only the process the row names is killed.
    /\ req[r].pc = "dKill"
    /\ Dead({req[r].vm})
    /\ Goto(r, "dRemove") /\ UNCHANGED <<row, entry>> /\ Calm
DeleteKill(r) ==
    /\ req[r].pc = "dKill"
    /\ Sweep(req[r].vm)
    /\ req[r].vm = None => sock' \notin vms' \ mute'
    /\ Goto(r, "dRemove") /\ UNCHANGED <<row, entry>> /\ Calm
\* The row named no process and an agent still answers after the sweep.
DeleteGivesUp(r) ==
    /\ req[r].pc = "dKill"
    /\ req[r].vm = None /\ Sweep(None) /\ sock' \in vms' \ mute'
    /\ Done(r) /\ UNCHANGED <<row, entry>> /\ Calm
DeleteRemove(r) ==
    /\ req[r].pc = "dRemove"
    /\ row' = None /\ entry' = None /\ pidfile' = None /\ sock' = None
    /\ Done(r) /\ UNCHANGED <<vms, mute, scope, born, lost, clean>> /\ Calm
DeleteFails(r) ==
    /\ req[r].pc = "dRemove"
    /\ row' = Write([row EXCEPT !.state = "Stopped", !.pid = None, !.stopped = TRUE])
    /\ entry' = Released(IF entry = None THEN None ELSE [entry EXCEPT !.stopped = TRUE])
    /\ Done(r) /\ UNCHANGED procs /\ Calm

\* ensure_running_and_persist: a request that needs the machine up. It takes
\* the lifecycle lock only, and uses the registered manager.
WakeBegin(r) ==
    /\ CanBegin(r) /\ LifeFree /\ entry # None
    /\ row # None => ~row.paused
    /\ Reachable \/ ~EntryAlive
    /\ Begin(r, "wLaunch")
    /\ UNCHANGED <<row, entry, procs>> /\ Calm
WakeAdopts(r) ==
    /\ req[r].pc = "wLaunch" /\ Reachable /\ Adopt
    /\ Goto(r, "wPersist") /\ UNCHANGED <<row, procs>> /\ Calm
WakeLaunch(r, v) ==
    /\ req[r].pc = "wLaunch" /\ Launch(v)
    /\ Goto(r, "wBoot") /\ UNCHANGED row /\ Calm
WakeBoot(r) ==
    /\ req[r].pc = "wBoot" /\ Ready(entry.child)
    /\ entry' = [entry EXCEPT !.run = TRUE]
    /\ Goto(r, "wPersist") /\ UNCHANGED <<row, procs>> /\ Calm
WakePersist(r) ==
    /\ req[r].pc = "wPersist"
    /\ row' = Write([row EXCEPT !.state = "Running", !.pid = entry.child, !.stopped = FALSE])
    /\ entry' = [entry EXCEPT !.stopped = FALSE]
    /\ Done(r) /\ UNCHANGED procs /\ Calm
WakeFails(r) ==
    /\ \/ req[r].pc = "wLaunch" /\ ~Reachable /\ UNCHANGED procs
          /\ entry' = IF entry.child \in vms THEN entry ELSE Released(entry)
       \/ req[r].pc = "wBoot" /\ Abort(entry.child) /\ entry' = Released(entry)
    /\ Done(r) /\ UNCHANGED row /\ Calm

\* drain_machines: the list is read first, each stop takes the source lock
\* only, and the row is written after the lock is dropped.
DrainBegin(r) ==
    /\ CanBegin(r) /\ row # None /\ row.state = "Running" /\ row.pid \in vms
    /\ Begin(r, "nKill")
    /\ UNCHANGED <<row, entry, procs>> /\ Calm
DrainKill(r) ==
    /\ req[r].pc = "nKill" /\ SourceFree
    /\ ~EntryLocked
    /\ IF entry # None
       THEN StopsCleanly /\ Stop /\ entry' = Released(entry)
       ELSE ShutsDown(req[r].vm) /\ Sweep(req[r].vm) /\ UNCHANGED entry
    /\ Goto(r, "nCommit") /\ UNCHANGED row /\ Calm
DrainCommit(r) ==
    /\ req[r].pc = "nCommit" /\ ~EntryLocked
    /\ Reconcile(TRUE)
    /\ Done(r) /\ UNCHANGED procs /\ Calm
DrainFails(r) ==
    /\ req[r].pc = "nKill" /\ SourceFree
    /\ Done(r) /\ UNCHANGED <<row, entry, procs>> /\ Calm

\* saved_execution_operation: the row records the saved execution before the
\* VMM is stopped. The capture itself is module SavedExecution.
PauseBegin(r) ==
    /\ CanBegin(r) /\ LifeFree /\ SourceFree
    /\ row # None /\ ~row.paused /\ row.state = "Running" /\ row.pid \in vms /\ Reachable
    /\ row' = [row EXCEPT !.state = "Paused", !.paused = TRUE]
    /\ Begin(r, "pStop")
    /\ UNCHANGED <<entry, procs>> /\ Calm
PauseStop(r) ==
    /\ req[r].pc = "pStop"
    /\ Gone({req[r].vm}) /\ pidfile' = None /\ sock' = None /\ UNCHANGED born
    /\ row' = [row EXCEPT !.pid = None]
    /\ entry' = Released(entry)
    /\ Done(r) /\ Calm
\* A manager of its own boots the saved execution and is dropped with its lock;
\* the restart configuration is left as it is.
ResumeLaunch(r, v) ==
    /\ CanBegin(r) /\ LifeFree /\ SourceFree
    /\ row # None /\ row.paused
    /\ Spawn(v)
    /\ entry' = Released(entry)
    /\ req' = [req EXCEPT ![r] = [Idle EXCEPT !.pc = "rBoot", !.vm = v]]
    /\ ops' = ops + 1 /\ UNCHANGED row /\ Calm
ResumeEnds(r) ==
    /\ req[r].pc = "rBoot" /\ Ready(req[r].vm)
    /\ row' = Write([row EXCEPT !.state = "Running", !.pid = req[r].vm, !.paused = FALSE])
    /\ Done(r) /\ UNCHANGED <<entry, procs>> /\ Calm
ResumeFails(r) ==
    /\ req[r].pc = "rBoot" /\ Abort(req[r].vm)
    /\ Done(r) /\ UNCHANGED <<row, entry>> /\ Calm

-----------------------------------------------------------------------------
(* The world.                                                               *)

Idly == UNCHANGED <<sup, sched, req, tries, ops>>

VmmExits(v, zero) ==
    /\ v \in vms /\ Fault
    /\ vms' = vms \ {v} /\ mute' = mute \ {v} /\ scope' = scope \ {v} /\ lost' = lost \ {v}
    /\ pidfile' = Unless({v}, pidfile) /\ sock' = Unless({v}, sock)
    /\ clean' = IF zero /\ up THEN clean \cup {v} ELSE clean
    /\ UNCHANGED <<row, entry, born, up>> /\ Idly
GuestHangs(v) ==
    /\ v \in vms \ mute /\ Fault
    /\ mute' = mute \cup {v}
    /\ UNCHANGED <<row, entry, vms, pidfile, sock, scope, born, lost, clean, up>> /\ Idly

\* delete_vm of the command line, under the source lock only. It stops what it
\* can name of a machine the row says is running, and refuses when the row's
\* process survives that.
ExternalDelete ==
    /\ row # None /\ SourceFree /\ Fault
    /\ Gone(CASE Resolved = "Running" -> {pidfile}
               [] Resolved = "Unreachable" -> {row.pid}
               [] OTHER -> {})
    /\ Resolved = "Running" => row.pid \notin vms'
    /\ row' = None /\ pidfile' = None /\ sock' = None
    /\ UNCHANGED <<entry, born, up>> /\ Idly

\* The server stops or is killed: its VMMs survive, its locks do not. A launch is
\* left where it is, and its guest comes up or does not.
ServerStops(answers) ==
    /\ up /\ up' = FALSE /\ Fault
    /\ entry' = None /\ clean' = {}
    /\ sup' = "idle" /\ sched' = "none"
    /\ req' = [r \in Reqs |-> Idle]
    /\ born' = None /\ lost' = lost \cup ({born} \cap vms)
    /\ mute' = IF answers THEN mute ELSE mute \cup ({born} \cap vms)
    /\ UNCHANGED <<row, vms, pidfile, sock, scope, tries, ops>>

\* load_persisted_machines: a machine whose manager cannot be made is not loaded.
ServerStarts(loaded) ==
    /\ ~up /\ up' = TRUE
    /\ row' = IF row # None /\ ~row.paused /\ row.pid # None /\ row.pid \notin vms
              THEN SetState("Stopped", None) ELSE row
    /\ entry' = IF row = None \/ ~loaded THEN None
                ELSE [FromRow EXCEPT !.run = Reachable,
                     !.child = CASE ~Reachable -> None
                                 [] Reachable /\ row.pid \in vms -> row.pid
                                 [] OTHER -> pidfile]
    /\ UNCHANGED <<procs, faults>> /\ Idly

SupStep ==
    \/ SupTick \/ SupProbe \/ SupRead \/ SupDecide \/ SupSettle \/ SupBump \/ SupLock
    \/ SupAdopts \/ (\E v \in Vmms : SupLaunch(v)) \/ SupBoot \/ SupFails
Request(r) ==
    \/ StartRepairs(r) \/ StartBegin(r) \/ StopDead(r) \/ StopBegin(r) \/ DeleteBegin(r)
    \/ WakeBegin(r) \/ DrainBegin(r) \/ PauseBegin(r) \/ \E v \in Vmms : ResumeLaunch(r, v)
Serve(r) ==
    \/ StartAdopts(r) \/ (\E v \in Vmms : StartLaunch(r, v)) \/ StartRegister(r)
    \/ StartPersist(r) \/ StartFails(r)
    \/ StopKill(r) \/ StopCommit(r) \/ StopFails(r)
    \/ DeleteKill(r) \/ DeleteGivesUp(r) \/ DeleteRemove(r) \/ DeleteFails(r)
    \/ WakeAdopts(r) \/ (\E v \in Vmms : WakeLaunch(r, v)) \/ WakeBoot(r) \/ WakePersist(r)
    \/ WakeFails(r)
    \/ DrainKill(r) \/ DrainCommit(r) \/ DrainFails(r) \/ PauseStop(r)
    \/ ResumeEnds(r) \/ ResumeFails(r)

Next ==
    \/ SupStep \/ BackoffEnds \/ LaunchStep
    \/ \E r \in Reqs : Request(r) \/ Serve(r)
    \/ \E v \in Vmms : GuestHangs(v) \/ \E zero \in BOOLEAN : VmmExits(v, zero)
    \/ ExternalDelete \/ \E b \in BOOLEAN : ServerStops(b) \/ ServerStarts(b)

Spec == Init /\ [][Next]_vars

\* The supervisor's loop, the requests in service and the clock go on; a server
\* that stopped is started again. Nothing makes a client send a request.
FairSpec ==
    /\ Spec /\ WF_vars(SupStep) /\ WF_vars(BackoffEnds)
    /\ WF_vars(\E loaded \in BOOLEAN : ServerStarts(loaded))
    /\ \A r \in Reqs : WF_vars(Serve(r))

-----------------------------------------------------------------------------
(* What the machine's users rely on.                                        *)

\* What keeps a second VMM off the machine's disks (verify_no_persisted_process,
\* manager.rs), whatever the row and the entry say. While nothing is launched the
\* pid file names every VMM of a machine that exists, and a VMM is launched only
\* when none is left, but for the lost ones: the server was killed between
\* spawning them and writing the file, or that write failed. Of those, one that
\* was adopted still keeps every other out of the scope.
VmmIsNamed ==
    row # None => /\ vms \ lost \subseteq {IF born # None THEN born ELSE pidfile}
                  /\ \A v, w \in scope : v = w

\* Once a start has registered a machine the supervisor boots it at most
\* max_retries times, and once more when a restart decided before the start
\* runs after it (should_restart and increment_restart_count, across restarts of
\* the server and in spite of two copies of the count).
WithinRetries == MaxRetries > 0 => tries <= MaxRetries + 1

\* A delete the server reports leaves no VMM behind, even one whose identity was
\* erased from the row or never written (shutdown_machine_process sweeps the
\* scope), except one that its server was killed before moving into the scope.
DeleteLeavesNoVmm ==
    [][\A r \in Reqs : req[r].pc = "dRemove" /\ row' = None => vms' \subseteq lost' \ scope']_vars

\* A dead machine that its entry says to restart does not stay so.
Wanted ==
    /\ up /\ row # None /\ ~row.paused /\ entry # None /\ vms = {} /\ ShouldRestart
RestartsWanted == []<>~Wanted

\* An entry whose row was deleted elsewhere is forgotten (forget_deleted_machine).
ForgetsDeleted == []<>~(up /\ row = None /\ entry # None)

\* A machine its user stopped stays stopped: at rest, with no request in service,
\* the supervisor's next check would not boot it (should_restart, config.rs).
StoppedStaysStopped ==
    row # None /\ row.stopped /\ entry # None /\ sup = "idle" /\ (\A r \in Reqs : req[r].pc = "idle")
    => EntryAlive \/ ~ShouldRestart
=============================================================================
