-------------------------- MODULE SupervisorProofs --------------------------
(***************************************************************************)
(* Theorems about Supervisor, for every restart policy, every limit on     *)
(* retries and any number of requests in service, processes, exits and     *)
(* restarts of the server.                                                 *)
(*                                                                         *)
(* The inductive invariant says who holds the lifecycle lock, what each    *)
(* holder knows of the processes while it holds it, and how the two copies *)
(* of the restart count bound the boots.                                   *)
(***************************************************************************)
EXTENDS Supervisor, TLAPS

\* A request that holds the lifecycle lock.
Life(r) == req[r].pc \notin {"idle"} \cup DrainPcs
Booting == sup \in {"launch", "boot"}

\* The lifecycle lock has one holder: a request or the supervisor's restart.
Locks ==
    /\ \A r, s \in Reqs : Life(r) /\ Life(s) => r = s
    /\ Booting => \A r \in Reqs : ~Life(r)

\* Without the server there is neither registry nor request.
Down == ~up => entry = None /\ sup = "idle" /\ \A r \in Reqs : req[r] = Idle

\* What a holder of the lifecycle lock has looked up is still there.
Present ==
    /\ Booting => entry # None
    /\ \A r \in Reqs :
        /\ req[r].pc \in WakePcs => entry # None
        /\ req[r].pc \in {"pStop"} \cup DeletePcs => row # None

\* The VMMs whose launch wrote a pid file, or may still write it.
Kept == vms \ lost
Named == IF born # None THEN born ELSE pidfile

\* A launch whose pid file is not written yet is that of a holder of the
\* lifecycle lock.
Births ==
    born # None => \/ sup = "boot"
                   \/ \E r \in Reqs : \/ req[r].pc \in {"wBoot", "rBoot"}
                                      \/ req[r].pc = "sBoot" /\ req[r].own

\* Every VMM but the one being launched is in the scope.
Scoped == row # None => Kept \subseteq scope \cup {born}

\* A live VMM that the row names is the only one.
RowNames == row # None /\ row.pid \in vms => Kept \subseteq {row.pid}

\* A VMM that is booted, or adopted, or about to be stopped by a holder of the
\* lifecycle lock is the only one of the machine.
Held ==
    /\ sup = "boot" /\ row # None => Kept \subseteq {entry.child}
    /\ \A r \in Reqs : row # None =>
        /\ req[r].pc = "wBoot" => Kept \subseteq {entry.child}
        /\ req[r].pc \in {"sBoot", "sPersist", "pStop", "rBoot"} => Kept \subseteq {req[r].vm}
        /\ req[r].pc = "dRemove" => vms \subseteq lost \ scope

\* A manager's child is the only VMM, unless a start is about to replace the
\* manager.
EntryNames ==
    row # None /\ entry # None /\ entry.child # None /\ (\A r \in Reqs : req[r].pc # "sBoot")
    => Kept \subseteq {entry.child}

\* Boots since the last start, with the one counted and under way, stay within
\* either copy of the count, but for a restart that was decided before the start.
Decided == IF sup \in {"bump", "lock", "launch"} THEN 1 ELSE 0
Counted == IF sup \in {"lock", "launch"} THEN 1 ELSE 0
Counts ==
    /\ entry # None => tries + Counted <= entry.count + 1
    /\ row # None => tries + Counted <= row.count + 1
    /\ MaxRetries > 0 => tries + Decided <= MaxRetries + 1
    /\ \A r \in Reqs : req[r].pc = "sPersist" => tries = 0

OneVmm == VmmIsNamed /\ Births /\ Scoped /\ RowNames /\ Held /\ EntryNames

Inv == TypeOK /\ Locks /\ Down /\ Present /\ OneVmm /\ Counts

-----------------------------------------------------------------------------
(* The helpers the actions are made of.                                     *)

Pcs == {"idle"} \cup SavedPcs \cup StartPcs \cup StopPcs \cup DeletePcs \cup WakePcs \cup DrainPcs

\* Every request has a task.
LEMMA TaskTyped ==
    ASSUME TypeOK, NEW r \in Reqs
    PROVE  req[r] \in Tasks /\ req[r].pc \in Pcs /\ req[r].vm \in Opt(Vmms) /\ req[r].count \in Nat
  BY DEF TypeOK, Tasks, Pcs

\* A request that goes on keeps what it knows, and the others are left alone.
LEMMA GotoTask ==
    ASSUME TypeOK, NEW r \in Reqs, NEW pc \in Pcs, Goto(r, pc)
    PROVE  /\ req' \in [Reqs -> Tasks] /\ ops' = ops
           /\ req'[r].pc = pc /\ req'[r].vm = req[r].vm /\ req'[r].own = req[r].own
           /\ \A s \in Reqs : s # r => req'[s] = req[s]
<1>1. req[r] \in Tasks
  BY TaskTyped
<1>2. req' = [req EXCEPT ![r] = [req[r] EXCEPT !.pc = pc]]
  BY DEF Goto
<1>3. [req[r] EXCEPT !.pc = pc] \in Tasks
  BY <1>1 DEF Tasks, Pcs
<1>4. QED
  BY <1>1, <1>2, <1>3 DEF Goto, TypeOK, Tasks

\* A request that has been answered.
LEMMA DoneTask ==
    ASSUME TypeOK, NEW r \in Reqs, Done(r)
    PROVE  /\ req' \in [Reqs -> Tasks] /\ ops' = ops /\ req'[r] = Idle /\ req'[r].pc = "idle"
           /\ \A s \in Reqs : s # r => req'[s] = req[s]
  BY DEF Done, TypeOK, Tasks, Idle, Opt

\* A request that begins remembers the VMM its row named.
LEMMA BeginTask ==
    ASSUME TypeOK, NEW r \in Reqs, NEW pc \in Pcs, Begin(r, pc), CanBegin(r)
    PROVE  /\ req' \in [Reqs -> Tasks] /\ ops' \in 0..MaxOps
           /\ req'[r].pc = pc /\ (row # None => req'[r].vm = row.pid)
           /\ \A s \in Reqs : s # r => req'[s] = req[s]
<1> DEFINE t == [Idle EXCEPT !.pc = pc, !.vm = IF row = None THEN None ELSE row.pid]
<1>1. t \in Tasks /\ t.pc = pc /\ (row # None => t.vm = row.pid)
  BY DEF Idle, Tasks, Pcs, TypeOK, Opt, Rows
<1>2. req' = [req EXCEPT ![r] = t] /\ ops' = ops + 1 /\ ops < MaxOps
  BY DEF Begin, CanBegin
<1>3. ops' \in 0..MaxOps
  BY <1>2, BoundAssumption DEF TypeOK
<1>4. QED
  BY <1>1, <1>2, <1>3 DEF TypeOK

\* A start whose VMM is booting, or was adopted.
LEMMA BootTask ==
    ASSUME TypeOK, NEW r \in Reqs, NEW v \in Opt(Vmms),
           (StartAdopts(r) /\ v = pidfile) \/ StartLaunch(r, v)
    PROVE  /\ req' \in [Reqs -> Tasks] /\ req'[r].pc = "sBoot" /\ req'[r].vm = v
           /\ StartLaunch(r, v) => req'[r].own
           /\ \A s \in Reqs : s # r => req'[s] = req[s]
<1>1. PICK o \in BOOLEAN :
          req' = [req EXCEPT ![r] = [req[r] EXCEPT !.pc = "sBoot", !.vm = v, !.own = o]]
  <2>1. CASE StartAdopts(r) /\ v = pidfile
    <3>1. req[r] \in Tasks /\ req[r].own \in BOOLEAN
      BY TaskTyped DEF Tasks
    <3>2. req' = [req EXCEPT ![r] = [req[r] EXCEPT !.pc = "sBoot", !.vm = v]]
      BY <2>1 DEF StartAdopts
    <3>3. [req[r] EXCEPT !.pc = "sBoot", !.vm = v]
            = [req[r] EXCEPT !.pc = "sBoot", !.vm = v, !.own = req[r].own]
      BY <3>1 DEF Tasks
    <3>4. QED
      BY <3>1, <3>2, <3>3
  <2>2. CASE StartLaunch(r, v)
    BY <2>2 DEF StartLaunch
  <2>3. QED
    BY <2>1, <2>2
<1> DEFINE t == [req[r] EXCEPT !.pc = "sBoot", !.vm = v, !.own = o]
<1>2. t \in Tasks /\ t.pc = "sBoot" /\ t.vm = v
  BY TaskTyped DEF Tasks, StartPcs
<1>3. StartLaunch(r, v) => req'[r].own
  BY DEF StartLaunch, TypeOK, Tasks
<1>4. QED
  BY <1>1, <1>2, <1>3 DEF TypeOK

\* One more request is counted.
LEMMA OpsTyped ==
    ASSUME TypeOK, NEW r, CanBegin(r), ops' = ops + 1 PROVE ops' \in 0..MaxOps
  BY BoundAssumption DEF TypeOK, CanBegin

\* A row that is updated in place stays a row, and a deleted one is not recreated.
LEMMA SetStateTyped ==
    ASSUME TypeOK, NEW state \in {"Running", "Stopped", "Failed"}, NEW pid \in Opt(Vmms)
    PROVE  /\ SetState(state, pid) \in Opt(Rows)
           /\ SetState(state, pid) = None <=> row = None
           /\ row # None => SetState(state, pid).count = row.count
<1>1. CASE row = None
  BY <1>1 DEF SetState, Write, Opt
<1>2. CASE row # None
  <2>1. [row EXCEPT !.state = state, !.pid = pid] \in Rows
    BY <1>2 DEF TypeOK, Opt, Rows
  <2>2. QED
    BY <1>2, <2>1, NoneAssumption DEF SetState, Write, Opt, TypeOK, Rows
<1>3. QED
  BY <1>1, <1>2

\* mark_stopped: the child and the lock go, the restart configuration stays.
LEMMA ReleasedTyped ==
    ASSUME NEW e \in Opt(Entries)
    PROVE  /\ Released(e) \in Opt(Entries)
           /\ Released(e) = None <=> e = None
           /\ e # None => Released(e).count = e.count /\ Released(e).child = None
<1>1. CASE e = None
  BY <1>1 DEF Released, Opt
<1>2. CASE e # None
  <2>1. [e EXCEPT !.child = None, !.run = FALSE, !.flock = FALSE] \in Entries
    BY <1>2 DEF Opt, Entries
  <2>2. QED
    BY <1>2, <2>1, NoneAssumption DEF Released, Opt, Entries
<1>3. QED
  BY <1>1, <1>2

\* reconcile_confirmed_stopped_machine, in the row and in the registry.
LEMMA ReconcileTyped ==
    ASSUME TypeOK, NEW x \in BOOLEAN, Reconcile(x)
    PROVE  /\ row' \in Opt(Rows) /\ (row' = None <=> row = None)
           /\ row # None => row'.count = row.count
           /\ entry' = Released(entry)
<1>1. CASE row = None
  BY <1>1 DEF Reconcile, Write, Opt
<1>2. CASE row # None
  <2>1. [row EXCEPT !.state = "Stopped", !.pid = None, !.stopped = @ \/ x] \in Rows
    BY <1>2 DEF TypeOK, Opt, Rows
  <2>2. row' = [row EXCEPT !.state = "Stopped", !.pid = None, !.stopped = @ \/ x]
    BY <1>2 DEF Reconcile, Write
  <2>3. QED
    BY <1>2, <2>1, <2>2, NoneAssumption DEF Reconcile, Opt, TypeOK, Rows
<1>3. QED
  BY <1>1, <1>2 DEF Reconcile

\* The processes, by type.
ProcsOK ==
    /\ vms \subseteq Vmms /\ mute \subseteq vms /\ clean \subseteq Vmms \ vms
    /\ scope \subseteq vms /\ lost \subseteq vms
    /\ pidfile \in Opt(Vmms) /\ sock \in Opt(Vmms) /\ born \in Opt(Vmms)

\* Processes that die, and the files that are left.
LEMMA GoneTyped ==
    ASSUME TypeOK, NEW d, Gone(d),
           pidfile' \in {None, pidfile}, sock' \in {None, sock}, born' \in {None, born}
    PROVE  ProcsOK' /\ vms' = vms \ d /\ scope' = scope \ d /\ lost' = lost \ d
  BY DEF TypeOK, Gone, ProcsOK, Opt

\* The ways processes are made to die.
LEMMA DeadTyped ==
    ASSUME TypeOK, NEW d, Dead(d)
    PROVE  /\ ProcsOK' /\ vms' = vms \ d /\ scope' = scope \ d /\ lost' = lost \ d
           /\ born' = born /\ pidfile' = Unless(d, pidfile)
<1>1. pidfile' \in {None, pidfile} /\ sock' \in {None, sock} /\ born' = born
  BY DEF Dead, Unless
<1>2. QED
  BY <1>1, GoneTyped DEF Dead

\* abort_failed_launch leaves the types alone.
LEMMA AbortTyped ==
    ASSUME TypeOK, NEW v, Abort(v)
    PROVE  /\ ProcsOK' /\ vms' = vms \ {v} /\ scope' = scope \ {v} /\ lost' = lost \ {v}
           /\ born' = None /\ pidfile' = None
<1>1. pidfile' = None /\ sock' \in {None, sock} /\ born' = None
  BY DEF Abort, Unless
<1>2. QED
  BY <1>1, GoneTyped DEF Abort

\* AgentManager::stop leaves the types alone.
LEMMA StopTyped ==
    ASSUME TypeOK, Stop
    PROVE  /\ ProcsOK' /\ vms' = vms \ {StopTarget} /\ scope' = scope \ {StopTarget}
           /\ lost' = lost \ {StopTarget} /\ born' = born
<1>1. pidfile' = None /\ sock' \in {None, sock} /\ born' = born
  BY DEF Stop, Unless
<1>2. QED
  BY <1>1, GoneTyped DEF Stop

\* No launch is under way but that of the request, or of the supervisor, that
\* holds the lifecycle lock.
LEMMA NoBirth ==
    ASSUME Inv,
           \/ LifeFree \/ sup = "launch"
           \/ \E r \in Reqs : Life(r) /\ req[r].pc \notin {"sBoot", "wBoot", "rBoot"}
    PROVE  born = None
  BY DEF Inv, OneVmm, Births, Locks, Life, Booting, LifeFree, DrainPcs

\* A VMM that is launched is the only one of the machine that is not lost.
LEMMA SpawnAlone ==
    ASSUME Inv, NEW v \in Vmms, Spawn(v), born = None, row' = row
    PROVE  /\ ProcsOK' /\ row # None /\ Kept' = {v} /\ born' = v /\ born' # None
           /\ VmmIsNamed' /\ Scoped' /\ RowNames'
<1> TypeOK /\ VmmIsNamed /\ v # None
  BY NoneAssumption DEF Inv, OneVmm
<1>1. row # None /\ Kept = {}
  BY DEF Spawn, VerifyNoPersistedProcess, VmmIsNamed, Kept
<1>2. ProcsOK'
  BY DEF TypeOK, Spawn, ProcsOK, Opt
<1>3. Kept' = {v} /\ born' = v /\ scope' = scope
  BY <1>1 DEF TypeOK, Spawn, Fresh, Kept
<1>4. row.pid \notin vms'
  BY <1>1 DEF Spawn, VerifyNoPersistedProcess, Fresh
<1>5. VmmIsNamed' /\ Scoped' /\ RowNames'
  BY <1>3, <1>4 DEF VmmIsNamed, Scoped, RowNames, Kept
<1>6. QED
  BY <1>1, <1>2, <1>3, <1>5

-----------------------------------------------------------------------------
(* Types. Each step is one action: what it does to the row, the entry, the  *)
(* processes and the requests.                                              *)

\* A step of the supervisor, its clock or a launch.
Background == SupStep \/ BackoffEnds \/ LaunchStep

\* The supervisor's steps keep the types.
LEMMA SupTypes == ASSUME Inv, Background PROVE TypeOK'
<1> TypeOK
  BY DEF Inv
<1>1. CASE SupTick \/ SupProbe \/ SupLock \/ BackoffEnds
  BY <1>1 DEF SupTick, SupProbe, SupLock, BackoffEnds, Rest, Quiet, procs, TypeOK, SupPcs, Opt
<1>2. CASE SupRead
  <2>1. row' \in Opt(Rows)
    <3>1. CASE row' = row
      BY <3>1 DEF TypeOK
    <3>2. CASE row' # row
      <4>1. row \in Rows
        BY <1>2, <3>2 DEF SupRead, TypeOK, Opt
      <4> DEFINE b == row.pid \in clean
      <4>2. row' = [row EXCEPT !.clean = b]
        BY <1>2, <3>2, Zenon DEF SupRead
      <4>3. b \in BOOLEAN
        OBVIOUS
      <4> HIDE DEF b
      <4>4. QED
        BY <4>1, <4>2, <4>3 DEF Opt, Rows
    <3>3. QED
      BY <3>1, <3>2
  <2>2. clean' \subseteq Vmms \ vms'
    BY <1>2 DEF SupRead, TypeOK
  <2>3. QED
    BY <1>2, <2>1, <2>2 DEF SupRead, Rest, Quiet, TypeOK, SupPcs
<1>3. CASE SupDecide
  BY <1>3 DEF SupDecide, RestartTiming, Rest, Quiet, procs, TypeOK, SupPcs
<1>4. CASE SupSettle
  <2>1. row' \in Opt(Rows)
    BY <1>4, SetStateTyped DEF SupSettle, Opt
  <2>2. QED
    BY <1>4, <2>1 DEF SupSettle, Rest, Quiet, procs, TypeOK, SupPcs
<1>5. CASE SupBump
  <2>1. row' \in Opt(Rows)
    BY <1>5 DEF SupBump, Write, TypeOK, Opt, Rows
  <2>2. entry' \in Opt(Entries)
    BY <1>5 DEF SupBump, TypeOK, Opt, Entries
  <2>3. QED
    BY <1>5, <2>1, <2>2 DEF SupBump, Quiet, procs, TypeOK, SupPcs
<1>6. ASSUME NEW v \in Vmms, SupLaunch(v) PROVE TypeOK'
  <2>1. entry \in Entries
    BY <1>6 DEF SupLaunch, Inv, Present, Booting, TypeOK, Opt
  <2>2. entry' \in Entries
    BY <1>6, <2>1 DEF SupLaunch, Launch, Entries, Opt
  <2>3. ProcsOK'
    BY <1>6, SpawnAlone, NoBirth DEF SupLaunch, Launch
  <2>4. QED
    BY <1>6, <2>2, <2>3 DEF SupLaunch, Quiet, ProcsOK, TypeOK, SupPcs, Opt
<1>7. CASE SupBoot
  <2>1. entry \in Entries
    BY <1>7 DEF SupBoot, Inv, Present, Booting, TypeOK, Opt
  <2>2. entry' \in Entries
    BY <1>7, <2>1 DEF SupBoot, Entries
  <2>3. row' \in Opt(Rows)
    BY <1>7, <2>1, SetStateTyped DEF SupBoot, Entries
  <2>4. QED
    BY <1>7, <2>2, <2>3 DEF SupBoot, Quiet, procs, TypeOK, SupPcs, Opt
<1>8. CASE SupFails
  <2>1. row' \in Opt(Rows)
    BY <1>8, SetStateTyped DEF SupFails, Opt
  <2>2. entry' \in Opt(Entries)
    BY <1>8, ReleasedTyped DEF SupFails, TypeOK
  <2>3. ProcsOK'
    <3>1. CASE UNCHANGED procs
      BY <3>1 DEF procs, TypeOK, ProcsOK
    <3>2. CASE Abort(entry.child)
      BY <3>2, AbortTyped
    <3>3. QED
      BY <1>8, <3>1, <3>2 DEF SupFails
  <2>4. QED
    BY <1>8, <2>1, <2>2, <2>3 DEF SupFails, Quiet, ProcsOK, TypeOK, SupPcs
<1>9. CASE SupAdopts
  <2>1. entry \in Entries
    BY <1>9 DEF SupAdopts, Inv, Present, Booting, TypeOK, Opt
  <2>2. entry' \in Entries
    BY <1>9, <2>1 DEF SupAdopts, Adopt, Entries, TypeOK, Opt
  <2>3. row' \in Opt(Rows)
    BY <1>9, <2>2, SetStateTyped DEF SupAdopts, Entries
  <2>4. QED
    BY <1>9, <2>2, <2>3 DEF SupAdopts, Quiet, procs, TypeOK, SupPcs, Opt
<1>10. CASE LaunchStep
  <2>1. ProcsOK'
    BY <1>10 DEF LaunchStep, LaunchScopes, LaunchNames, LaunchUnnamed, LaunchKeeps, ProcsOK,
       TypeOK, Opt
  <2>2. faults' \in 0..MaxFaults
    BY <1>10, BoundAssumption
    DEF LaunchStep, LaunchScopes, LaunchNames, LaunchUnnamed, Fault, TypeOK
  <2>3. QED
    BY <1>10, <2>1, <2>2
    DEF LaunchStep, LaunchScopes, LaunchNames, LaunchUnnamed, LaunchKeeps, ProcsOK, TypeOK
<1> QED
  BY <1>1, <1>2, <1>3, <1>4, <1>5, <1>6, <1>7, <1>8, <1>9, <1>10 DEF SupStep, Background

\* A request's first step keeps the types.
LEMMA RequestTypes == ASSUME Inv, NEW r \in Reqs, Request(r) PROVE TypeOK'
<1> TypeOK
  BY DEF Inv
<1>1. CASE StartRepairs(r)
  <2>1. entry' \in Entries
    BY <1>1 DEF StartRepairs, FromRow, Entries, Rows, TypeOK, Opt
  <2>2. ops' \in 0..MaxOps
    BY <1>1, OpsTyped DEF StartRepairs
  <2>3. QED
    BY <1>1, <2>1, <2>2 DEF StartRepairs, procs, Calm, Still, TypeOK, Opt
<1>2. CASE StartBegin(r)
  <2>1. row' \in Opt(Rows) /\ entry' \in Opt(Entries)
    <3>1. CASE Reconcile(FALSE)
      BY <3>1, ReconcileTyped, ReleasedTyped DEF TypeOK
    <3>2. CASE UNCHANGED <<row, entry>>
      BY <3>2 DEF TypeOK
    <3>3. QED
      BY <1>2, <3>1, <3>2 DEF StartBegin
  <2>2. ProcsOK'
    <3>1. CASE UNCHANGED procs
      BY <3>1 DEF procs, TypeOK, ProcsOK
    <3>2. CASE Dead({row.pid})
      BY <3>2, DeadTyped
    <3>3. QED
      BY <1>2, <3>1, <3>2 DEF StartBegin
  <2>3. req' \in [Reqs -> Tasks]
    BY <1>2 DEF StartBegin, TypeOK, Tasks, Idle, StartPcs, Rows, Opt
  <2>4. ops' \in 0..MaxOps
    BY <1>2, OpsTyped DEF StartBegin
  <2>5. QED
    BY <1>2, <2>1, <2>2, <2>3, <2>4 DEF StartBegin, ProcsOK, Calm, Still, TypeOK
<1>3. CASE StopDead(r)
  <2>1. row' \in Opt(Rows) /\ entry' \in Opt(Entries)
    BY <1>3, ReconcileTyped, ReleasedTyped DEF StopDead, TypeOK
  <2>2. ops' \in 0..MaxOps
    BY <1>3, OpsTyped DEF StopDead
  <2>3. QED
    BY <1>3, <2>1, <2>2 DEF StopDead, procs, Calm, Still, TypeOK
<1>4. CASE StopBegin(r) \/ DeleteBegin(r) \/ WakeBegin(r) \/ DrainBegin(r)
  <2>1. req' \in [Reqs -> Tasks] /\ ops' \in 0..MaxOps
    BY <1>4, BeginTask DEF StopBegin, DeleteBegin, WakeBegin, DrainBegin, Pcs, StopPcs, DeletePcs,
       WakePcs, DrainPcs
  <2>2. QED
    BY <1>4, <2>1 DEF StopBegin, DeleteBegin, WakeBegin, DrainBegin, procs, Calm, Still, TypeOK
<1>5. CASE PauseBegin(r)
  <2>1. row' \in Rows
    BY <1>5 DEF PauseBegin, TypeOK, Opt, Rows
  <2>2. req' \in [Reqs -> Tasks] /\ ops' \in 0..MaxOps
    BY <1>5, BeginTask DEF PauseBegin, Pcs, SavedPcs
  <2>3. QED
    BY <1>5, <2>1, <2>2 DEF PauseBegin, procs, Calm, Still, TypeOK, Opt
<1>6. ASSUME NEW v \in Vmms, ResumeLaunch(r, v) PROVE TypeOK'
  <2>1. ProcsOK'
    BY <1>6, SpawnAlone, NoBirth DEF ResumeLaunch
  <2>2. ops' \in 0..MaxOps /\ entry' \in Opt(Entries)
    BY <1>6, OpsTyped, ReleasedTyped DEF ResumeLaunch, TypeOK
  <2>3. req' \in [Reqs -> Tasks]
    BY <1>6 DEF ResumeLaunch, TypeOK, Tasks, Idle, SavedPcs, Opt
  <2>4. QED
    BY <1>6, <2>1, <2>2, <2>3 DEF ResumeLaunch, ProcsOK, Calm, Still, TypeOK
<1> QED
  BY <1>1, <1>2, <1>3, <1>4, <1>5, <1>6 DEF Request

\* The later steps of a request keep the types.
LEMMA ServeTypes == ASSUME Inv, NEW r \in Reqs, Serve(r) PROVE TypeOK'
<1> TypeOK
  BY DEF Inv
<1> req[r] \in Tasks /\ req[r].vm \in Opt(Vmms) /\ req[r].own \in BOOLEAN
    /\ req[r].count \in Nat /\ req[r].stopped \in BOOLEAN
  BY DEF TypeOK, Tasks
<1> USE DEF Calm, Still
<1>1. CASE StartAdopts(r)
  <2>1. req' \in [Reqs -> Tasks]
    BY <1>1, BootTask DEF TypeOK
  <2>2. QED
    BY <1>1, <2>1 DEF StartAdopts, procs, TypeOK
<1>2. ASSUME NEW v \in Vmms, StartLaunch(r, v) PROVE TypeOK'
  <2>1. req' \in [Reqs -> Tasks]
    BY <1>2, BootTask DEF Opt
  <2>2. ProcsOK'
    BY <1>2, SpawnAlone, NoBirth DEF StartLaunch, Life, DrainPcs
  <2>3. QED
    BY <1>2, <2>1, <2>2 DEF StartLaunch, ProcsOK, TypeOK
<1>3. CASE StartRegister(r)
  <2>1. entry' \in Entries
    BY <1>3 DEF StartRegister, Entries
  <2>2. req' \in [Reqs -> Tasks] /\ ops' = ops
    BY <1>3, GotoTask DEF StartRegister, Pcs, StartPcs
  <2>3. QED
    BY <1>3, <2>1, <2>2 DEF StartRegister, procs, TypeOK, Opt
<1>4. CASE StartPersist(r)
  <2>1. row' \in Opt(Rows)
    BY <1>4 DEF StartPersist, Write, Rows, TypeOK, Opt
  <2>2. QED
    BY <1>4, <2>1, DoneTask DEF StartPersist, procs, TypeOK
<1>5. CASE StartFails(r)
  <2>1. ProcsOK'
    <3>1. CASE UNCHANGED procs
      BY <3>1 DEF procs, TypeOK, ProcsOK
    <3>2. CASE Abort(req[r].vm) \/ Dead({req[r].vm})
      BY <3>2, AbortTyped, DeadTyped
    <3>3. QED
      BY <1>5, <3>1, <3>2 DEF StartFails
  <2>2. row' \in Opt(Rows) /\ entry' \in Opt(Entries)
    BY <1>5, ReconcileTyped, ReleasedTyped DEF StartFails, TypeOK
  <2>3. QED
    BY <1>5, <2>1, <2>2, DoneTask DEF StartFails, ProcsOK, TypeOK
<1>6. CASE StopKill(r) \/ DrainKill(r)
  <2>1. ProcsOK'
    BY <1>6, StopTyped, DeadTyped DEF StopKill, DrainKill, Sweep
  <2>2. entry' \in Opt(Entries)
    BY <1>6, ReleasedTyped DEF StopKill, DrainKill, TypeOK
  <2>3. req' \in [Reqs -> Tasks] /\ ops' = ops
    BY <1>6, GotoTask DEF StopKill, DrainKill, Pcs, StopPcs, DrainPcs
  <2>4. QED
    BY <1>6, <2>1, <2>2, <2>3 DEF StopKill, DrainKill, ProcsOK, TypeOK
<1>7. CASE StopCommit(r) \/ DrainCommit(r)
  <2>1. row' \in Opt(Rows) /\ entry' \in Opt(Entries)
    BY <1>7, ReconcileTyped, ReleasedTyped DEF StopCommit, DrainCommit, TypeOK
  <2>2. QED
    BY <1>7, <2>1, DoneTask DEF StopCommit, DrainCommit, procs, TypeOK
<1>8. CASE StopFails(r) \/ DrainFails(r)
  BY <1>8, DoneTask DEF StopFails, DrainFails, procs, TypeOK
<1>9. CASE DeleteKill(r) \/ DeleteGivesUp(r)
  <2>1. ProcsOK'
    BY <1>9, DeadTyped DEF DeleteKill, DeleteGivesUp, Sweep
  <2>2. req' \in [Reqs -> Tasks] /\ ops' = ops
    BY <1>9, GotoTask, DoneTask DEF DeleteKill, DeleteGivesUp, Pcs, DeletePcs
  <2>3. QED
    BY <1>9, <2>1, <2>2 DEF DeleteKill, DeleteGivesUp, ProcsOK, TypeOK
<1>10. CASE DeleteRemove(r)
  BY <1>10, DoneTask DEF DeleteRemove, TypeOK, Opt
<1>11. CASE DeleteFails(r)
  <2>1. row' \in Opt(Rows)
    BY <1>11 DEF DeleteFails, Write, Rows, TypeOK, Opt
  <2> DEFINE e == IF entry = None THEN None ELSE [entry EXCEPT !.stopped = TRUE]
  <2>2. e \in Opt(Entries)
    BY DEF Entries, TypeOK, Opt
  <2>3. entry' \in Opt(Entries)
    BY <1>11, <2>2, ReleasedTyped DEF DeleteFails
  <2>4. QED
    BY <1>11, <2>1, <2>3, DoneTask DEF DeleteFails, procs, TypeOK
<1>12. CASE WakeAdopts(r) \/ WakeBoot(r)
  <2>1. entry \in Entries
    BY <1>12 DEF WakeAdopts, WakeBoot, Inv, Present, WakePcs, TypeOK, Opt
  <2>2. entry' \in Entries
    BY <1>12, <2>1 DEF WakeAdopts, WakeBoot, Adopt, Entries, TypeOK, Opt
  <2>3. req' \in [Reqs -> Tasks] /\ ops' = ops
    BY <1>12, GotoTask DEF WakeAdopts, WakeBoot, Pcs, WakePcs
  <2>4. QED
    BY <1>12, <2>2, <2>3 DEF WakeAdopts, WakeBoot, procs, TypeOK, Opt
<1>13. ASSUME NEW v \in Vmms, WakeLaunch(r, v) PROVE TypeOK'
  <2>1. entry \in Entries
    BY <1>13 DEF WakeLaunch, Inv, Present, WakePcs, TypeOK, Opt
  <2>2. entry' \in Entries
    BY <1>13, <2>1 DEF WakeLaunch, Launch, Entries, Opt
  <2>3. ProcsOK'
    BY <1>13, SpawnAlone, NoBirth DEF WakeLaunch, Launch, Life, DrainPcs
  <2>4. req' \in [Reqs -> Tasks] /\ ops' = ops
    BY <1>13, GotoTask DEF WakeLaunch, Pcs, WakePcs
  <2>5. QED
    BY <1>13, <2>2, <2>3, <2>4 DEF WakeLaunch, ProcsOK, TypeOK, Opt
<1>14. CASE WakePersist(r)
  <2>1. entry \in Entries
    BY <1>14 DEF WakePersist, Inv, Present, WakePcs, TypeOK, Opt
  <2>2. entry' \in Entries
    BY <1>14, <2>1 DEF WakePersist, Entries
  <2>3. row' \in Opt(Rows)
    BY <1>14, <2>1 DEF WakePersist, Write, Entries, Rows, TypeOK, Opt
  <2>4. QED
    BY <1>14, <2>2, <2>3, DoneTask DEF WakePersist, procs, TypeOK, Opt
<1>15. CASE WakeFails(r)
  <2>1. ProcsOK'
    <3>1. CASE UNCHANGED procs
      BY <3>1 DEF procs, TypeOK, ProcsOK
    <3>2. CASE Abort(entry.child)
      BY <3>2, AbortTyped
    <3>3. QED
      BY <1>15, <3>1, <3>2 DEF WakeFails
  <2>2. entry' \in Opt(Entries)
    BY <1>15, ReleasedTyped DEF WakeFails, TypeOK
  <2>3. QED
    BY <1>15, <2>1, <2>2, DoneTask DEF WakeFails, ProcsOK, TypeOK
<1>16. CASE PauseStop(r)
  <2>1. row' \in Rows
    BY <1>16 DEF PauseStop, Inv, Present, Rows, TypeOK, Opt
  <2>2. ProcsOK' /\ entry' \in Opt(Entries)
    BY <1>16, GoneTyped, ReleasedTyped DEF PauseStop, TypeOK
  <2>3. QED
    BY <1>16, <2>1, <2>2, DoneTask DEF PauseStop, ProcsOK, TypeOK, Opt
<1>17. CASE ResumeEnds(r)
  <2>1. row' \in Opt(Rows)
    BY <1>17 DEF ResumeEnds, Write, Rows, TypeOK, Opt
  <2>2. QED
    BY <1>17, <2>1, DoneTask DEF ResumeEnds, procs, TypeOK
<1>18. CASE ResumeFails(r)
  <2>1. ProcsOK'
    BY <1>18, AbortTyped DEF ResumeFails
  <2>2. QED
    BY <1>18, <2>1, DoneTask DEF ResumeFails, ProcsOK, TypeOK
<1> QED
  BY <1>1, <1>2, <1>3, <1>4, <1>5, <1>6, <1>7, <1>8, <1>9, <1>10, <1>11, <1>12, <1>13, <1>14,
     <1>15, <1>16, <1>17, <1>18 DEF Serve

\* A step of the world: an exit, a hang, a delete by the command line, the
\* server's end and its start.
World ==
    \/ \E v \in Vmms : GuestHangs(v) \/ \E zero \in BOOLEAN : VmmExits(v, zero)
    \/ ExternalDelete \/ \E b \in BOOLEAN : ServerStops(b) \/ ServerStarts(b)

\* The world keeps the types.
LEMMA WorldTypes == ASSUME Inv, World PROVE TypeOK'
<1> TypeOK
  BY DEF Inv
<1> USE DEF Idly
<1>0. Fault => faults' \in 0..MaxFaults
  BY BoundAssumption DEF Fault, TypeOK
<1>1. ASSUME NEW v \in Vmms, GuestHangs(v) PROVE TypeOK'
  <2>1. mute' \subseteq vms'
    BY <1>1 DEF GuestHangs, TypeOK
  <2>2. QED
    BY <1>0, <1>1, <2>1 DEF GuestHangs, TypeOK
<1>2. ASSUME NEW v \in Vmms, NEW zero \in BOOLEAN, VmmExits(v, zero) PROVE TypeOK'
  <2>1. ProcsOK'
    BY <1>2 DEF VmmExits, Unless, ProcsOK, TypeOK, Opt
  <2>2. QED
    BY <1>0, <1>2, <2>1 DEF VmmExits, ProcsOK, TypeOK
<1>3. CASE ExternalDelete
  <2>1. PICK d : Gone(d)
    BY <1>3 DEF ExternalDelete
  <2>2. ProcsOK'
    BY <1>3, <2>1, GoneTyped DEF ExternalDelete
  <2>3. QED
    BY <1>0, <1>3, <2>2 DEF ExternalDelete, ProcsOK, TypeOK, Opt
<1>4. ASSUME NEW b \in BOOLEAN, ServerStops(b) PROVE TypeOK'
  <2>1. req' \in [Reqs -> Tasks]
    BY <1>4 DEF ServerStops, Tasks, Idle, Opt
  <2>2. ProcsOK'
    BY <1>4 DEF ServerStops, ProcsOK, TypeOK, Opt
  <2>3. QED
    BY <1>0, <1>4, <2>1, <2>2 DEF ServerStops, ProcsOK, TypeOK, SupPcs, Opt
<1>5. ASSUME NEW loaded \in BOOLEAN, ServerStarts(loaded) PROVE TypeOK'
  <2>1. row' \in Opt(Rows)
    BY <1>5, SetStateTyped DEF ServerStarts, TypeOK, Opt
  <2>2. entry' \in Opt(Entries)
    <3>1. CASE row = None \/ ~loaded
      BY <1>5, <3>1 DEF ServerStarts, Opt
    <3>2. CASE row # None /\ loaded
      <4> DEFINE b == Reachable
                 c == CASE ~Reachable -> None
                        [] Reachable /\ row.pid \in vms -> row.pid
                        [] OTHER -> pidfile
      <4>1. entry' = [FromRow EXCEPT !.run = b, !.child = c]
        BY <1>5, <3>2, Zenon DEF ServerStarts
      <4>2. b \in BOOLEAN /\ c \in Opt(Vmms)
        BY <3>2 DEF Reachable, TypeOK, Opt, Rows
      <4>3. FromRow \in Entries
        BY <3>2 DEF FromRow, Entries, Rows, TypeOK, Opt
      <4> HIDE DEF b, c
      <4>4. QED
        BY <4>1, <4>2, <4>3 DEF Entries, Opt
    <3>3. QED
      BY <3>1, <3>2
  <2>3. QED
    BY <1>5, <2>1, <2>2 DEF ServerStarts, procs, TypeOK
<1> QED
  BY <1>1, <1>2, <1>3, <1>4, <1>5 DEF World

-----------------------------------------------------------------------------
(* Who holds the lifecycle lock, and what is there.                         *)

\* The later steps of a request are its own: they keep its locks or drop them,
\* and only the delete takes the entry or the row away.
LEMMA ServeShape ==
    ASSUME Inv, NEW r \in Reqs, Serve(r)
    PROVE  /\ sup' = sup /\ up' = up /\ req[r].pc # "idle"
           /\ \A s \in Reqs : s # r => req'[s] = req[s]
           /\ Life(r)' => Life(r)
           /\ req'[r].pc \in WakePcs => req[r].pc \in WakePcs /\ entry' # None
           /\ req'[r].pc \notin SavedPcs
           /\ req'[r].pc \in DeletePcs => req[r].pc \in DeletePcs /\ row' = row
           /\ entry # None /\ entry' = None => req[r].pc = "dRemove"
           /\ row # None /\ row' = None => req[r].pc = "dRemove"
           /\ row = None => row' = None
<1> TypeOK /\ entry \in Opt(Entries)
  BY DEF Inv, TypeOK
<1> USE DEF Calm, Still, Life, Pcs, StartPcs, StopPcs, DeletePcs, WakePcs, DrainPcs, SavedPcs
<1>1. CASE StartAdopts(r) \/ \E v \in Vmms : StartLaunch(r, v)
  <2>1. /\ req'[r].pc = "sBoot" /\ req[r].pc = "sLaunch"
        /\ \A s \in Reqs : s # r => req'[s] = req[s]
    <3>1. PICK v \in Opt(Vmms) : (StartAdopts(r) /\ v = pidfile) \/ StartLaunch(r, v)
      BY <1>1 DEF TypeOK, Opt
    <3>2. QED
      BY <3>1, BootTask DEF StartAdopts, StartLaunch
  <2>2. QED
    BY <1>1, <2>1 DEF StartAdopts, StartLaunch
<1>2. CASE StartRegister(r)
  <2>1. entry' \in Entries
    BY <1>2, TaskTyped DEF StartRegister, Entries, TypeOK, Tasks
  <2>2. req'[r].pc = "sPersist" /\ \A s \in Reqs : s # r => req'[s] = req[s]
    BY <1>2, GotoTask DEF StartRegister
  <2>3. entry' # None
    BY <2>1, NoneAssumption
  <2>4. QED
    BY <1>2, <2>2, <2>3 DEF StartRegister
<1>3. CASE StartPersist(r) \/ StopFails(r) \/ DrainFails(r)
  <2>1. (row' = None <=> row = None) /\ entry' = entry
    <3>1. CASE StartPersist(r) /\ row # None
      <4>1. row' \in Rows
        BY <3>1, TaskTyped DEF StartPersist, Write, TypeOK, Opt, Rows
      <4>2. QED
        BY <3>1, <4>1, NoneAssumption DEF StartPersist
    <3>2. QED
      BY <1>3, <3>1 DEF StartPersist, StopFails, DrainFails, Write
  <2>2. req'[r].pc = "idle" /\ \A s \in Reqs : s # r => req'[s] = req[s]
    BY <1>3, DoneTask DEF StartPersist, StopFails, DrainFails
  <2>3. QED
    BY <1>3, <2>1, <2>2 DEF StartPersist, StopFails, DrainFails
<1>4. CASE StartFails(r)
  BY <1>4, DoneTask, ReconcileTyped, ReleasedTyped DEF StartFails
<1>5. CASE StopKill(r) \/ DrainKill(r)
  BY <1>5, GotoTask, ReleasedTyped DEF StopKill, DrainKill
<1>6. CASE StopCommit(r) \/ DrainCommit(r)
  BY <1>6, DoneTask, ReconcileTyped, ReleasedTyped DEF StopCommit, DrainCommit
<1>7. CASE DeleteKill(r) \/ DeleteGivesUp(r)
  BY <1>7, GotoTask, DoneTask DEF DeleteKill, DeleteGivesUp
<1>8. CASE DeleteRemove(r) \/ DeleteFails(r)
  <2>1. row = None => row' = None
    BY <1>8 DEF DeleteRemove, DeleteFails, Write
  <2>2. QED
    BY <1>8, <2>1, DoneTask DEF DeleteRemove, DeleteFails
<1>9. CASE WakeAdopts(r) \/ WakeBoot(r) \/ \E v \in Vmms : WakeLaunch(r, v)
  <2>1. entry \in Entries /\ req[r].pc \in {"wLaunch", "wBoot"}
    BY <1>9 DEF WakeAdopts, WakeBoot, WakeLaunch, Inv, Present, Opt
  <2>2. entry' \in Entries
    BY <1>9, <2>1 DEF WakeAdopts, WakeBoot, WakeLaunch, Adopt, Launch, Entries, TypeOK, Opt
  <2>3. req'[r].pc \in WakePcs /\ \A s \in Reqs : s # r => req'[s] = req[s]
    BY <1>9, GotoTask DEF WakeAdopts, WakeBoot, WakeLaunch
  <2>4. QED
    BY <1>9, <2>1, <2>2, <2>3, NoneAssumption DEF WakeAdopts, WakeBoot, WakeLaunch
<1>10. CASE WakePersist(r)
  <2>1. entry \in Entries
    BY <1>10 DEF WakePersist, Inv, Present, Opt
  <2>2. entry' \in Entries
    BY <1>10, <2>1 DEF WakePersist, Entries
  <2>3. row' = None <=> row = None
    <3>1. row # None => row' \in Rows
      BY <1>10, <2>1 DEF WakePersist, Write, TypeOK, Opt, Rows, Entries
    <3>2. QED
      BY <1>10, <3>1, NoneAssumption DEF WakePersist, Write
  <2>4. QED
    BY <1>10, <2>2, <2>3, DoneTask, NoneAssumption DEF WakePersist
<1>11. CASE WakeFails(r)
  BY <1>11, DoneTask, ReleasedTyped DEF WakeFails
<1>12. CASE PauseStop(r)
  <2>1. row \in Rows
    BY <1>12 DEF PauseStop, Inv, Present, TypeOK, Opt
  <2>2. row' \in Rows
    BY <1>12, <2>1 DEF PauseStop, Rows, Opt
  <2>3. QED
    BY <1>12, <2>1, <2>2, DoneTask, ReleasedTyped, NoneAssumption DEF PauseStop
<1>13. CASE ResumeEnds(r) \/ ResumeFails(r)
  <2>1. row' = None <=> row = None
    <3>1. ResumeEnds(r) /\ row # None => row' \in Rows
      BY TaskTyped DEF ResumeEnds, Write, TypeOK, Opt, Rows
    <3>2. QED
      BY <1>13, <3>1, NoneAssumption DEF ResumeEnds, ResumeFails, Write
  <2>2. QED
    BY <1>13, <2>1, DoneTask DEF ResumeEnds, ResumeFails
<1> QED
  BY <1>1, <1>2, <1>3, <1>4, <1>5, <1>6, <1>7, <1>8, <1>9, <1>10, <1>11, <1>12, <1>13 DEF Serve

\* A request begins while the lifecycle lock is free, but for a drain, which
\* never takes it.
LEMMA RequestShape ==
    ASSUME Inv, NEW r \in Reqs, Request(r)
    PROVE  /\ sup' = sup /\ up' = up /\ up
           /\ \A s \in Reqs : s # r => req'[s] = req[s]
           /\ LifeFree \/ (req'[r].pc = "nKill" /\ UNCHANGED <<row, entry, procs>>)
           /\ req'[r].pc \notin {"sBoot", "sPersist", "wBoot", "wPersist", "dRemove"}
           /\ req'[r].pc \in WakePcs => entry' # None
           /\ req'[r].pc \in {"pStop"} \cup DeletePcs => row' # None
           /\ entry # None => entry' # None
           /\ row' = None <=> row = None
<1> TypeOK /\ entry \in Opt(Entries)
  BY DEF Inv, TypeOK
<1> USE DEF Calm, Still, Pcs, StartPcs, StopPcs, DeletePcs, WakePcs, DrainPcs, SavedPcs
<1>1. CASE StartRepairs(r)
  <2>1. req'[r].pc = "idle"
    BY <1>1 DEF StartRepairs, CanBegin
  <2>2. QED
    BY <1>1, <2>1 DEF StartRepairs, CanBegin
<1>2. CASE StartBegin(r)
  <2>1. req'[r].pc = "sLaunch" /\ \A s \in Reqs : s # r => req'[s] = req[s]
    BY <1>2 DEF StartBegin, TypeOK, Idle
  <2>2. QED
    BY <1>2, <2>1, ReconcileTyped, ReleasedTyped DEF StartBegin, CanBegin
<1>3. CASE StopDead(r)
  BY <1>3, ReconcileTyped, ReleasedTyped DEF StopDead, CanBegin
<1>4. CASE StopBegin(r) \/ DeleteBegin(r) \/ WakeBegin(r)
  BY <1>4, BeginTask DEF StopBegin, DeleteBegin, WakeBegin, CanBegin
<1>5. CASE DrainBegin(r)
  BY <1>5, BeginTask DEF DrainBegin, CanBegin
<1>6. CASE PauseBegin(r)
  <2>1. row' \in Rows
    BY <1>6 DEF PauseBegin, TypeOK, Opt, Rows
  <2>2. QED
    BY <1>6, <2>1, BeginTask, NoneAssumption DEF PauseBegin, CanBegin
<1>7. CASE \E v \in Vmms : ResumeLaunch(r, v)
  <2>1. req'[r].pc = "rBoot" /\ \A s \in Reqs : s # r => req'[s] = req[s]
    BY <1>7 DEF ResumeLaunch, TypeOK, Idle
  <2>2. QED
    BY <1>7, <2>1, ReleasedTyped DEF ResumeLaunch, CanBegin
<1> QED
  BY <1>1, <1>2, <1>3, <1>4, <1>5, <1>6, <1>7 DEF Request

\* The supervisor takes the lifecycle lock when it is free and never touches a
\* request; it forgets an entry only while nobody holds the lock.
LEMMA SupShape ==
    ASSUME Inv, Background
    PROVE  /\ req' = req /\ up' = up
           /\ Booting' => Booting \/ LifeFree
           /\ Booting' => entry' # None
           /\ entry # None /\ entry' = None => LifeFree
           /\ row' = None <=> row = None
           /\ ~up => UNCHANGED <<entry, sup>>
<1> TypeOK /\ entry \in Opt(Entries)
  BY DEF Inv, TypeOK
<1> USE DEF Quiet
<1>0. ~up => sup = "idle"
  BY DEF Inv, Down
<1>1. CASE SupTick \/ SupProbe \/ SupLock \/ BackoffEnds
  BY <1>0, <1>1 DEF SupTick, SupProbe, SupLock, BackoffEnds, Rest, Booting, Inv, Present
<1>2. CASE SupRead
  <2>1. row' = None <=> row = None
    <3>1. CASE row' = row
      BY <3>1
    <3>2. CASE row' # row
      <4>1. row # None
        BY <1>2, <3>2 DEF SupRead
      <4>2. row' \in Rows
        <5> DEFINE b == row.pid \in clean
        <5>1. row' = [row EXCEPT !.clean = b]
          BY <1>2, <3>2, Zenon DEF SupRead
        <5>2. b \in BOOLEAN
          OBVIOUS
        <5> HIDE DEF b
        <5>3. QED
          BY <4>1, <5>1, <5>2 DEF TypeOK, Opt, Rows
      <4>3. QED
        BY <4>1, <4>2, NoneAssumption
    <3>3. QED
      BY <3>1, <3>2
  <2>2. QED
    BY <1>0, <1>2, <2>1 DEF SupRead, Rest, Booting
<1>3. CASE SupDecide
  BY <1>0, <1>3 DEF SupDecide, RestartTiming, Rest, Booting
<1>4. CASE SupSettle
  BY <1>0, <1>4, SetStateTyped DEF SupSettle, Rest, Booting, Opt
<1>5. CASE SupBump
  <2>1. (row # None => row' \in Rows) /\ (entry # None => entry' \in Entries)
    BY <1>5 DEF SupBump, Write, TypeOK, Opt, Rows, Entries
  <2>2. QED
    BY <1>0, <1>5, <2>1, NoneAssumption DEF SupBump, Write, Booting
<1>6. ASSUME NEW v \in Vmms, SupLaunch(v) PROVE entry' # None
  <2>1. entry \in Entries
    BY <1>6 DEF SupLaunch, Inv, Present, Booting, Opt
  <2>2. entry' \in Entries
    BY <1>6, <2>1 DEF SupLaunch, Launch, Entries, Opt
  <2>3. QED
    BY <2>2, NoneAssumption
<1>7. CASE \E v \in Vmms : SupLaunch(v)
  BY <1>0, <1>6, <1>7 DEF SupLaunch, Booting
<1>8. CASE SupBoot
  <2>1. entry \in Entries
    BY <1>8 DEF SupBoot, Inv, Present, Booting, Opt
  <2>2. entry' \in Entries
    BY <1>8, <2>1 DEF SupBoot, Entries
  <2>3. row' = None <=> row = None
    BY <1>8, <2>1, SetStateTyped DEF SupBoot, Entries
  <2>4. QED
    BY <1>0, <1>8, <2>2, <2>3, NoneAssumption DEF SupBoot, Booting
<1>9. CASE SupFails
  <2>1. row' = None <=> row = None
    BY <1>9, SetStateTyped DEF SupFails, Opt
  <2>2. entry # None => entry' # None
    BY <1>9, ReleasedTyped DEF SupFails
  <2>3. QED
    BY <1>0, <1>9, <2>1, <2>2 DEF SupFails, Booting
<1>10. CASE SupAdopts
  <2>1. entry \in Entries
    BY <1>10 DEF SupAdopts, Inv, Present, Booting, Opt
  <2>2. entry' \in Entries
    BY <1>10, <2>1 DEF SupAdopts, Adopt, Entries, TypeOK, Opt
  <2>3. row' = None <=> row = None
    BY <1>10, <2>2, SetStateTyped DEF SupAdopts, Entries
  <2>4. QED
    BY <1>0, <1>10, <2>2, <2>3, NoneAssumption DEF SupAdopts, Booting
<1>11. CASE LaunchStep
  BY <1>11 DEF LaunchStep, LaunchScopes, LaunchNames, LaunchUnnamed, LaunchKeeps, Booting, Inv,
     Present
<1> QED
  BY <1>1, <1>2, <1>3, <1>4, <1>5, <1>7, <1>8, <1>9, <1>10, <1>11 DEF SupStep, Background

\* The lifecycle lock keeps a single holder, and what it looked up stays.
LEMMA LocksStep == ASSUME Inv, [Next]_vars PROVE Locks' /\ Down' /\ Present'
<1> USE DEF Life, StartPcs, StopPcs, DeletePcs, WakePcs, DrainPcs, SavedPcs
<1>0. TypeOK /\ Locks /\ Down /\ Present
  BY DEF Inv
<1>1. CASE Background
  <2>1. Locks'
    BY <1>0, <1>1, SupShape DEF Locks, Booting, LifeFree
  <2>2. Down' /\ Present'
    BY <1>0, <1>1, SupShape DEF Down, Present, LifeFree
  <2>3. QED
    BY <2>1, <2>2
<1>2. ASSUME NEW r \in Reqs, Request(r) PROVE Locks' /\ Down' /\ Present'
  <2>1. Locks'
    BY <1>0, <1>2, RequestShape DEF Locks, Booting, LifeFree
  <2>2. Down' /\ Present'
    BY <1>0, <1>2, RequestShape DEF Down, Present, Booting
  <2>3. QED
    BY <2>1, <2>2
<1>3. ASSUME NEW r \in Reqs, Serve(r) PROVE Locks' /\ Down' /\ Present'
  <2>1. Locks'
    BY <1>0, <1>3, ServeShape DEF Locks, Booting
  <2>2. Down'
    BY <1>0, <1>3, ServeShape DEF Down, Idle
  <2>3. Present'
    <3>1. \A t \in Reqs : req'[t].pc \in WakePcs => req[t].pc \in WakePcs
      BY <1>3, ServeShape
    <3>2. ASSUME NEW t \in Reqs, req'[t].pc \in {"pStop"} \cup DeletePcs PROVE row' # None
      <4>1. row # None
        BY <1>0, <1>3, <3>2, ServeShape DEF Present
      <4>2. CASE t = r
        BY <1>3, <3>2, <4>1, <4>2, ServeShape
      <4>3. CASE t # r
        BY <1>0, <1>3, <3>2, <4>1, <4>3, ServeShape DEF Locks
      <4>4. QED
        BY <4>2, <4>3
    <3>3. QED
      BY <1>0, <1>3, <3>1, <3>2, ServeShape DEF Present, Locks, Booting
  <2>4. QED
    BY <2>1, <2>2, <2>3
<1>4. CASE World
  <2>1. CASE \E b \in BOOLEAN : ServerStops(b)
    BY <2>1 DEF ServerStops, Locks, Down, Present, Booting, Idle
  <2>2. CASE \E loaded \in BOOLEAN : ServerStarts(loaded)
    BY <1>0, <2>2 DEF ServerStarts, Idly, Locks, Down, Present, Booting, Idle
  <2>3. CASE ExternalDelete
    BY <1>0, <2>3 DEF ExternalDelete, SourceFree, Idly, Locks, Down, Present, Booting
  <2>4. CASE \E v \in Vmms : GuestHangs(v) \/ \E zero \in BOOLEAN : VmmExits(v, zero)
    BY <1>0, <2>4 DEF GuestHangs, VmmExits, Idly, Locks, Down, Present, Booting
  <2>5. QED
    BY <1>4, <2>1, <2>2, <2>3, <2>4 DEF World
<1>5. CASE UNCHANGED vars
  BY <1>0, <1>5 DEF vars, Locks, Down, Present, Booting
<1> QED
  BY <1>1, <1>2, <1>3, <1>4, <1>5 DEF Next, World, Background

-----------------------------------------------------------------------------
(* One VMM at a time.                                                       *)

\* The manager in the entry has the same child, or none.
SameChild == entry' # None /\ entry # None /\ entry'.child = entry.child
Manager == entry' # None /\ entry'.child # None => SameChild
\* The states in which a request knows the VMM that it will stop or record.
Knowing == {"sBoot", "sPersist", "pStop", "rBoot", "dRemove", "wBoot"}
\* The row names the process it named, none, or the only VMM there is.
RowStays ==
    row' # None => row # None /\ (row'.pid \in {row.pid, None} \/ Kept' \subseteq {row'.pid})
\* The processes in d die.
Dies(d) == vms' = vms \ d /\ lost' = lost \ d /\ scope' = scope \ d
\* The pid file goes only with its process, or when no VMM is left.
FileStays(d) ==
    row' # None => \/ Kept' = {}
                   \/ born' = born /\ (pidfile' = pidfile \/ pidfile' = Unless(d, pidfile))

\* The rules for the names hold after processes died and nothing was launched.
LEMMA NamesStay ==
    ASSUME Inv, NEW d, Dies(d), RowStays, FileStays(d),
           born' = born \/ born' = None, born' = None => row' = None \/ born = None \/ Kept' = {}
    PROVE  VmmIsNamed' /\ Scoped' /\ RowNames'
<1> USE DEF Kept, Dies
<1>0. TypeOK /\ VmmIsNamed /\ Scoped /\ RowNames
  BY DEF Inv, OneVmm
<1>1. VmmIsNamed'
  <2>1. SUFFICES ASSUME row' # None
                 PROVE  /\ Kept' \subseteq {Named'} /\ \A v, w \in scope' : v = w
    BY DEF VmmIsNamed, Named
  <2>2. row # None
    BY <2>1 DEF RowStays
  <2>3. CASE Kept' # {}
    <3>1. born' = born /\ (pidfile' = pidfile \/ pidfile' = Unless(d, pidfile))
      BY <2>1, <2>3 DEF FileStays
    <3>2. Kept' \subseteq {IF born # None THEN born ELSE pidfile} /\ \A x \in Kept' : x \notin d
      BY <1>0, <2>2 DEF VmmIsNamed
    <3>3. QED
      BY <1>0, <2>2, <3>1, <3>2 DEF Named, Unless, VmmIsNamed
  <2>4. QED
    BY <1>0, <2>2, <2>3 DEF VmmIsNamed
<1>2. Scoped'
  <2>1. SUFFICES ASSUME row' # None, NEW x \in Kept' PROVE x \in scope' \cup {born'}
    BY DEF Scoped
  <2>2. x \in scope \cup {born} /\ x \in vms /\ x \notin d /\ x \in Vmms
    BY <1>0, <2>1 DEF Scoped, RowStays, TypeOK
  <2>3. QED
    BY <2>1, <2>2, NoneAssumption
<1>3. RowNames'
  <2>1. SUFFICES ASSUME row' # None, row'.pid \in vms' PROVE Kept' \subseteq {row'.pid}
    BY DEF RowNames
  <2>2. row'.pid # None
    BY <1>0, <2>1, NoneAssumption DEF TypeOK
  <2>3. QED
    BY <1>0, <2>1, <2>2 DEF RowNames, RowStays
<1>4. QED
  BY <1>1, <1>2, <1>3

\* A step that starts no VMM, and takes no VMM from under a request that knows
\* it, keeps each of these facts.
LEMMA Quieter ==
    ASSUME Inv, NEW d, Dies(d), RowStays, FileStays(d), born' = born,
           Manager,
           sup = "boot" => sup' = "boot",
           sup' = "boot" => sup = "boot" /\ SameChild,
           \A r \in Reqs : req'[r].pc \in Knowing \/ req[r].pc \in Knowing =>
                \/ req'[r] = req[r]
                \/ req'[r].pc = "idle" /\ req[r].pc \notin {"sBoot", "wBoot", "rBoot"},
           \A r \in Reqs : req'[r].pc = "wBoot" => SameChild
    PROVE  OneVmm'
<1> USE DEF Knowing
<1>0. /\ Held /\ EntryNames /\ Births /\ Kept' \subseteq Kept /\ (row' # None => row # None)
      /\ vms' \subseteq vms
  BY DEF Inv, OneVmm, Kept, Dies, RowStays
<1>1. VmmIsNamed' /\ Scoped' /\ RowNames'
  BY NamesStay
<1>2. Held'
  <2>1. sup' = "boot" /\ row' # None => Kept' \subseteq {entry'.child}
    BY <1>0 DEF Held, SameChild
  <2>2. ASSUME NEW r \in Reqs, row' # None
        PROVE  /\ req'[r].pc = "wBoot" => Kept' \subseteq {entry'.child}
               /\ req'[r].pc \in {"sBoot", "sPersist", "pStop", "rBoot"} =>
                    Kept' \subseteq {req'[r].vm}
               /\ req'[r].pc = "dRemove" => vms' \subseteq lost' \ scope'
    <3>1. req'[r].pc \in Knowing => req'[r] = req[r]
      OBVIOUS
    <3>2. QED
      BY <1>0, <2>2, <3>1 DEF Held, SameChild, Dies
  <2>3. QED
    BY <2>1, <2>2 DEF Held
<1>3. EntryNames'
  BY <1>0 DEF EntryNames, Manager, SameChild
<1>4. Births'
  BY <1>0 DEF Births
<1>5. QED
  BY <1>1, <1>2, <1>3, <1>4 DEF OneVmm

\* The only VMM of the machine is known to the one holder of the lifecycle lock,
\* if it knows one.
LEMMA Alone ==
    ASSUME VmmIsNamed', Scoped', RowNames', Births',
           sup' = "boot" => Kept' \subseteq {entry'.child},
           \A r \in Reqs : row' # None =>
                /\ req'[r].pc = "wBoot" => Kept' \subseteq {entry'.child}
                /\ req'[r].pc \in {"sBoot", "sPersist", "pStop", "rBoot"} =>
                     Kept' \subseteq {req'[r].vm}
                /\ req'[r].pc = "dRemove" => vms' \subseteq lost' \ scope',
           row' # None /\ entry' # None /\ entry'.child # None
                /\ (\A r \in Reqs : req'[r].pc # "sBoot") => Kept' \subseteq {entry'.child}
    PROVE  OneVmm'
  BY DEF OneVmm, Held, EntryNames

\* The supervisor boots only a machine whose VMMs are lost, and kills only what
\* it booted.
LEMMA SupProcs == ASSUME Inv, Background PROVE OneVmm'
<1> TypeOK /\ entry \in Opt(Entries) /\ OneVmm
  BY DEF Inv, TypeOK
<1> USE DEF Quiet
<1>0. (row' = None <=> row = None) /\ req' = req
  BY SupShape
<1>a. UNCHANGED procs => Dies({}) /\ FileStays({}) /\ born' = born
  BY DEF procs, Dies, FileStays
<1>1. CASE SupTick \/ SupProbe \/ SupLock \/ BackoffEnds
  <2>1. UNCHANGED procs /\ (entry' = entry \/ entry' = None) /\ RowStays
    BY <1>0, <1>1 DEF SupTick, SupProbe, SupLock, BackoffEnds, RowStays
  <2>2. sup' = "boot" => sup = "boot" /\ entry' = entry /\ entry # None
    BY <1>1 DEF SupTick, SupProbe, SupLock, BackoffEnds, Rest, Inv, Present, Booting
  <2>3. (\E r \in Reqs : req[r].pc = "wBoot") => entry' = entry /\ entry # None
    BY <1>1
    DEF SupTick, SupProbe, SupLock, BackoffEnds, LifeFree, DrainPcs, Inv, Present, WakePcs
  <2>4. sup = "boot" => sup' = "boot"
    BY <1>1 DEF SupTick, SupProbe, SupLock, BackoffEnds
  <2>5. QED
    BY <1>0, <1>a, <2>1, <2>2, <2>3, <2>4, Quieter DEF Manager, SameChild
<1>2. CASE SupRead \/ SupDecide \/ SupSettle
  <2>1. UNCHANGED <<vms, lost, scope, pidfile, born, entry>> /\ sup' # "boot" /\ sup # "boot"
    BY <1>2 DEF SupRead, SupDecide, RestartTiming, SupSettle, Rest, procs
  <2>2. RowStays
    <3>1. CASE SupRead
      BY <1>0, <3>1 DEF SupRead, RowStays, TypeOK, Opt, Rows
    <3>2. CASE SupDecide \/ SupSettle
      BY <1>0, <3>2 DEF SupDecide, SupSettle, SetState, Write, RowStays, TypeOK, Opt, Rows
    <3>3. QED
      BY <1>2, <3>1, <3>2
  <2>3. Dies({}) /\ FileStays({}) /\ born' = born
    BY <2>1 DEF Dies, FileStays
  <2>4. QED
    BY <1>0, <2>1, <2>2, <2>3, Quieter DEF Manager, SameChild, Inv, Present, WakePcs
<1>3. CASE SupBump
  <2>1. UNCHANGED procs /\ sup' # "boot" /\ sup # "boot"
    BY <1>3 DEF SupBump
  <2>2. (entry = None => entry' = None) /\ (entry # None => SameChild)
    BY <1>3, NoneAssumption DEF SupBump, SameChild, Opt, Entries
  <2>3. RowStays
    BY <1>0, <1>3 DEF SupBump, Write, RowStays, TypeOK, Opt, Rows
  <2>4. QED
    BY <1>0, <1>a, <2>1, <2>2, <2>3, Quieter DEF Manager, Inv, Present, WakePcs
<1>b. Booting => entry # None /\ \A r \in Reqs : req[r].pc \notin Knowing
  BY DEF Inv, Present, Locks, Booting, Life, Knowing, DrainPcs
<1>4. ASSUME NEW v \in Vmms, SupLaunch(v) PROVE OneVmm'
  <2>1. entry \in Entries /\ (\A r \in Reqs : req[r].pc \notin Knowing) /\ born = None
    BY <1>4, <1>b, NoBirth DEF SupLaunch, Booting, Opt
  <2>2. Kept' = {v} /\ VmmIsNamed' /\ Scoped' /\ RowNames'
    BY <1>4, <2>1, SpawnAlone DEF SupLaunch, Launch
  <2>3. entry'.child = v
    BY <1>4, <2>1 DEF SupLaunch, Launch, Entries
  <2>4. Births'
    BY <1>4 DEF SupLaunch, Births
  <2>5. QED
    BY <1>0, <2>1, <2>2, <2>3, <2>4, Alone DEF Knowing
<1>c. ASSUME sup = "boot" \/ sup = "launch", UNCHANGED procs, entry' # None, born = None,
             row # None => Kept \subseteq {entry'.child}, sup' = "idle",
             row' = SetState("Running", entry'.child)
      PROVE  OneVmm'
  <2>1. Kept' = Kept /\ \A r \in Reqs : req[r].pc \notin Knowing
    BY <1>b, <1>c DEF procs, Kept, Booting
  <2>2. RowStays
    BY <1>0, <1>c, <2>1 DEF RowStays, SetState, Write, TypeOK, Opt, Rows
  <2>3. VmmIsNamed' /\ Scoped' /\ RowNames'
    BY <1>a, <1>c, <2>2, NamesStay
  <2>4. Births'
    BY <1>c DEF procs, Births
  <2>5. QED
    BY <1>0, <1>c, <2>1, <2>3, <2>4, Alone DEF Knowing
<1>5. CASE SupBoot
  <2>1. entry \in Entries
    BY <1>5, <1>b DEF SupBoot, Booting, Opt
  <2>2. entry'.child = entry.child /\ entry' # None
    BY <1>5, <2>1, NoneAssumption DEF SupBoot, Entries
  <2>3. row # None => Kept \subseteq {entry.child}
    BY <1>5 DEF SupBoot, OneVmm, Held
  <2>4. QED
    BY <1>5, <1>c, <2>2, <2>3 DEF SupBoot, Ready
<1>6. CASE SupAdopts
  <2>1. entry \in Entries /\ born = None
    BY <1>6, <1>b, NoBirth DEF SupAdopts, Booting, Opt
  <2>2. entry' \in Entries /\ entry'.child = IF pidfile # None THEN pidfile ELSE entry.child
    BY <1>6, <2>1 DEF SupAdopts, Adopt, Entries, TypeOK, Opt
  <2>3. row # None => Kept \subseteq {entry'.child}
    <3>1. row # None => Kept \subseteq {pidfile} /\ Kept \subseteq Vmms
      BY <2>1 DEF OneVmm, VmmIsNamed, Kept, TypeOK
    <3>2. QED
      BY <2>2, <3>1, NoneAssumption
  <2>4. QED
    BY <1>6, <1>c, <2>1, <2>2, <2>3, NoneAssumption DEF SupAdopts
<1>7. CASE SupFails
  <2>1. entry # None /\ (\A r \in Reqs : req[r].pc \notin Knowing) /\ sup' = "idle"
    BY <1>7, <1>b DEF SupFails, Booting
  <2>2. Manager
    BY <1>7, <2>1, ReleasedTyped DEF SupFails, Manager, SameChild
  <2>3. RowStays
    BY <1>0, <1>7 DEF SupFails, SetState, Write, RowStays, TypeOK, Opt, Rows
  <2>4. CASE sup = "launch" /\ UNCHANGED procs
    BY <1>0, <1>a, <2>1, <2>2, <2>3, <2>4, Quieter DEF Knowing
  <2>5. CASE sup = "boot" /\ Abort(entry.child)
    <3>1. Dies({entry.child}) /\ (row # None => Kept' = {}) /\ born' = None
      BY <2>5, AbortTyped DEF Dies, OneVmm, Held, Kept
    <3>2. FileStays({entry.child})
      BY <1>0, <3>1 DEF FileStays
    <3>3. VmmIsNamed' /\ Scoped' /\ RowNames'
      BY <1>0, <2>3, <3>1, <3>2, NamesStay
    <3>4. Births'
      BY <3>1 DEF Births
    <3>5. QED
      BY <1>0, <2>1, <3>1, <3>3, <3>4, Alone DEF Knowing
  <2>6. QED
    BY <1>7, <2>4, <2>5 DEF SupFails
<1>8. CASE LaunchStep
  <2>1. UNCHANGED <<row, entry, vms, sup, req>> /\ born \in vms /\ lost \subseteq lost'
    BY <1>8 DEF LaunchStep, LaunchScopes, LaunchNames, LaunchUnnamed, LaunchKeeps, TypeOK
  <2>2. Kept' \subseteq Kept
    BY <2>1 DEF Kept
  <2>3. born # None /\ born \in vms
    BY <2>1, NoneAssumption DEF TypeOK
  <2>4. ~\E r \in Reqs : req[r].pc \in {"pStop", "sPersist", "dRemove"}
    <3>1. ASSUME NEW r \in Reqs, req[r].pc \in {"pStop", "sPersist", "dRemove"} PROVE FALSE
      BY <2>3, <3>1, NoBirth DEF Life, DrainPcs
    <3>2. QED
      BY <3>1
  <2>5. Births'
    BY <1>8, <2>1, <2>3
    DEF LaunchStep, LaunchScopes, LaunchNames, LaunchUnnamed, LaunchKeeps, OneVmm, Births
  <2>6. Held'
    BY <2>1, <2>2, <2>4 DEF OneVmm, Held
  <2>7. EntryNames' /\ RowNames'
    BY <2>1, <2>2 DEF OneVmm, EntryNames, RowNames
  <2>8. VmmIsNamed' /\ Scoped'
    <3>1. CASE LaunchScopes
      BY <2>1, <3>1 DEF LaunchScopes, OneVmm, VmmIsNamed, Scoped, Kept
    <3>2. CASE LaunchNames
      BY <2>1, <2>3, <3>1, <3>2 DEF LaunchNames, OneVmm, VmmIsNamed, Scoped, Kept
    <3>3. CASE LaunchUnnamed
      <4>1. row # None => Kept' = {}
        BY <2>1, <2>3, <3>3 DEF LaunchUnnamed, OneVmm, VmmIsNamed, Kept
      <4>2. QED
        BY <2>1, <3>3, <4>1 DEF LaunchUnnamed, OneVmm, VmmIsNamed, Scoped, Kept
    <3>4. QED
      BY <1>8, <3>1, <3>2, <3>3 DEF LaunchStep
  <2>9. QED
    BY <2>5, <2>6, <2>7, <2>8 DEF OneVmm
<1> QED
  BY <1>1, <1>2, <1>3, <1>4, <1>5, <1>6, <1>7, <1>8 DEF SupStep, Background

\* A request that begins finds no other holder of the lifecycle lock.
LEMMA RequestProcs == ASSUME Inv, NEW r \in Reqs, Request(r) PROVE OneVmm'
<1> TypeOK /\ entry \in Opt(Entries) /\ OneVmm
  BY DEF Inv, TypeOK
<1> USE DEF Calm, Still
<1>0. /\ (row' = None <=> row = None) /\ sup' = sup
      /\ \A s \in Reqs : s # r => req'[s] = req[s]
      /\ req'[r].pc \notin {"sBoot", "sPersist", "wBoot", "wPersist", "dRemove"}
  BY RequestShape
<1>a. UNCHANGED procs => Dies({}) /\ FileStays({}) /\ born' = born
  BY DEF procs, Dies, FileStays
<1>1. CASE DrainBegin(r)
  <2>1. UNCHANGED <<row, procs, entry>> /\ req[r].pc = "idle" /\ req'[r].pc = "nKill"
    BY <1>1, BeginTask DEF DrainBegin, CanBegin, Pcs, DrainPcs
  <2>2. \A s \in Reqs : req'[s].pc = "wBoot" => SameChild
    BY <1>0, <2>1 DEF Inv, Present, WakePcs, SameChild
  <2>3. Manager /\ (sup = "boot" => SameChild) /\ RowStays
    BY <2>1 DEF Inv, Present, Booting, Manager, SameChild, RowStays
  <2>4. QED
    BY <1>0, <1>a, <2>1, <2>2, <2>3, Quieter DEF Knowing
<1> SUFFICES ASSUME ~DrainBegin(r) PROVE OneVmm'
  BY <1>1
<1>2. /\ LifeFree /\ req[r].pc = "idle" /\ sup # "boot"
      /\ \A s \in Reqs : req[s].pc \notin Knowing
  BY DEF Request, StartRepairs, StartBegin, StopDead, StopBegin, DeleteBegin, WakeBegin,
     PauseBegin, ResumeLaunch, CanBegin, LifeFree, Knowing, DrainPcs
<1>b. ASSUME NEW d, Dies(d), RowStays, FileStays(d), born' = born, Manager,
             req'[r].pc \notin Knowing
      PROVE  OneVmm'
  BY <1>0, <1>2, <1>b, Quieter DEF Knowing
<1>3. CASE StartRepairs(r)
  <2>1. UNCHANGED <<row, procs, req>> /\ entry'.child = None
    BY <1>3 DEF StartRepairs, FromRow
  <2>2. QED
    BY <1>0, <1>2, <1>a, <1>b, <2>1 DEF Manager, RowStays
<1>4. CASE StartBegin(r)
  <2>1. \/ UNCHANGED <<row, entry>>
        \/ /\ row # None /\ entry' = Released(entry)
           /\ row' = [row EXCEPT !.state = "Stopped", !.pid = None, !.stopped = @ \/ FALSE]
    BY <1>4 DEF StartBegin, Reconcile, Write
  <2>2. Manager
    BY <2>1, ReleasedTyped DEF Manager, SameChild
  <2>3. RowStays
    BY <1>0, <2>1 DEF RowStays, TypeOK, Opt, Rows
  <2>4. req'[r].pc = "sLaunch"
    BY <1>4 DEF StartBegin, TypeOK, Idle
  <2>5. CASE UNCHANGED procs
    BY <1>a, <1>b, <2>2, <2>3, <2>4, <2>5 DEF Knowing
  <2>6. CASE Dead({row.pid})
    BY <1>b, <2>2, <2>3, <2>4, <2>6, DeadTyped DEF Knowing, Dies, FileStays
  <2>7. QED
    BY <1>4, <2>5, <2>6 DEF StartBegin
<1>5. CASE StopDead(r)
  <2>1. UNCHANGED <<procs, req>> /\ Manager
    BY <1>5, ReconcileTyped, ReleasedTyped DEF StopDead, Manager
  <2>2. RowStays
    BY <1>5 DEF StopDead, Reconcile, Write, RowStays, TypeOK, Opt, Rows
  <2>3. QED
    BY <1>2, <1>a, <1>b, <2>1, <2>2 DEF Knowing
<1>6. CASE StopBegin(r) \/ DeleteBegin(r) \/ WakeBegin(r)
  <2>1. UNCHANGED <<row, procs, entry>> /\ req'[r].pc \in {"tKill", "dKill", "wLaunch"}
    BY <1>6, BeginTask DEF StopBegin, DeleteBegin, WakeBegin, Pcs, StopPcs, DeletePcs, WakePcs
  <2>2. QED
    BY <1>a, <1>b, <2>1 DEF Manager, SameChild, RowStays, Knowing
<1>7. CASE PauseBegin(r)
  <2>1. /\ UNCHANGED <<procs, entry>> /\ req'[r].pc = "pStop" /\ req'[r].vm = row.pid
        /\ row # None /\ row.pid \in vms
    BY <1>7, BeginTask DEF PauseBegin, Pcs, SavedPcs
  <2>2. Kept' \subseteq {row.pid} /\ Kept' = Kept
    BY <2>1 DEF OneVmm, RowNames, procs, Kept
  <2>3. RowStays
    BY <1>7 DEF PauseBegin, RowStays, TypeOK, Opt, Rows
  <2>4. VmmIsNamed' /\ Scoped' /\ RowNames'
    BY <1>a, <2>1, <2>3, NamesStay
  <2>5. Births'
    BY <1>2, <2>1, NoBirth DEF Births, procs
  <2>6. (\A s \in Reqs : req[s].pc # "sBoot") /\ EntryNames
    BY <1>2 DEF Knowing, OneVmm
  <2>7. QED
    BY <1>0, <1>2, <2>1, <2>2, <2>4, <2>5, <2>6, Alone DEF Knowing, EntryNames
<1>8. ASSUME NEW v \in Vmms, ResumeLaunch(r, v) PROVE OneVmm'
  <2>1. /\ Kept' = {v} /\ (entry' # None => entry'.child = None)
        /\ VmmIsNamed' /\ Scoped' /\ RowNames'
    BY <1>2, <1>8, NoBirth, SpawnAlone, ReleasedTyped DEF ResumeLaunch
  <2>2. req'[r].pc = "rBoot" /\ req'[r].vm = v
    BY <1>8 DEF ResumeLaunch, TypeOK, Idle
  <2>3. Births'
    BY <2>2 DEF Births
  <2>4. QED
    BY <1>0, <1>2, <2>1, <2>2, <2>3, Alone DEF Knowing
<1> QED
  BY <1>3, <1>4, <1>5, <1>6, <1>7, <1>8 DEF Request

\* A request in service kills and boots as the holder of the lifecycle lock; a
\* drain, which is none, waits for the manager that boots.
LEMMA ServeProcs == ASSUME Inv, NEW r \in Reqs, Serve(r) PROVE OneVmm'
<1> TypeOK /\ entry \in Opt(Entries) /\ OneVmm
  BY DEF Inv, TypeOK
<1> USE DEF Calm, Still
<1>0. /\ (row' # None => row # None) /\ sup' = sup
      /\ \A s \in Reqs : s # r => req'[s] = req[s]
  BY ServeShape
<1>a. Life(r) => sup # "boot" /\ \A s \in Reqs : s # r => req[s].pc \notin Knowing
  BY DEF Inv, Locks, Life, Booting, Knowing, DrainPcs
<1>p. UNCHANGED procs => Dies({}) /\ FileStays({}) /\ born' = born /\ Kept' = Kept
  BY DEF procs, Dies, FileStays, Kept
\* A request that knows no VMM afterwards, and launched none.
<1>b. ASSUME Life(r), NEW d, Dies(d), RowStays, FileStays(d), born' = born \/ born' = None,
             born = None \/ Kept' = {} \/ row' = None, Manager,
             req'[r].pc \notin Knowing,
             req[r].pc \in {"sBoot", "wBoot", "rBoot"} =>
                born' = None /\ (row' # None => Kept' = {})
      PROVE  OneVmm'
  <2>1. VmmIsNamed' /\ Scoped' /\ RowNames'
    BY <1>b, NamesStay
  <2>2. born' = None
    BY <1>b, NoBirth
  <2>3. Births'
    BY <2>2 DEF Births
  <2>4. \A s \in Reqs : req'[s].pc \notin Knowing
    BY <1>0, <1>a, <1>b
  <2>5. row' # None /\ entry' # None /\ entry'.child # None => Kept' \subseteq {entry'.child}
    <3>1. CASE req[r].pc \in {"sBoot", "wBoot", "rBoot"}
      BY <1>b, <3>1
    <3>2. CASE req[r].pc \notin {"sBoot", "wBoot", "rBoot"}
      <4>1. (\A s \in Reqs : req[s].pc # "sBoot") /\ EntryNames /\ Kept' \subseteq Kept
        BY <1>a, <1>b, <3>2 DEF Knowing, OneVmm, Dies, Kept
      <4>2. QED
        BY <1>0, <1>b, <4>1 DEF EntryNames, Manager, SameChild
    <3>3. QED
      BY <3>1, <3>2
  <2>6. QED
    BY <1>0, <1>a, <1>b, <2>1, <2>3, <2>4, <2>5, Alone DEF Knowing
\* A request that goes on with the VMM it knows.
<1>c. ASSUME Life(r), UNCHANGED procs, RowStays, born = None,
             row' # None /\ entry' # None /\ entry'.child # None /\ req'[r].pc # "sBoot"
                => Kept \subseteq {entry'.child},
             req'[r].pc \in {"sBoot", "sPersist"} /\ row # None => Kept \subseteq {req'[r].vm},
             req'[r].pc \notin {"wBoot", "rBoot", "pStop", "dRemove"}
      PROVE  OneVmm'
  <2>1. VmmIsNamed' /\ Scoped' /\ RowNames'
    BY <1>c, <1>p, NamesStay
  <2>2. Births'
    BY <1>c DEF Births, procs
  <2>3. \A s \in Reqs : s # r => req'[s].pc \notin Knowing
    BY <1>0, <1>a, <1>c
  <2>4. QED
    BY <1>0, <1>a, <1>c, <1>p, <2>1, <2>2, <2>3, Alone DEF Knowing
<1> USE DEF Life, DrainPcs
<1>1. CASE StartAdopts(r)
  <2>1. req[r].pc = "sLaunch" /\ req'[r].pc = "sBoot" /\ req'[r].vm = pidfile
    BY <1>1, BootTask DEF StartAdopts, TypeOK
  <2>2. UNCHANGED <<row, procs, entry>> /\ born = None
    BY <1>1, <2>1, NoBirth DEF StartAdopts
  <2>3. row # None => Kept \subseteq {pidfile}
    BY <2>2 DEF OneVmm, VmmIsNamed, Kept
  <2>4. QED
    BY <1>c, <2>1, <2>2, <2>3 DEF RowStays
<1>2. ASSUME NEW v \in Vmms, StartLaunch(r, v) PROVE OneVmm'
  <2>1. req[r].pc = "sLaunch" /\ req'[r].pc = "sBoot" /\ req'[r].vm = v /\ req'[r].own
    BY <1>2, BootTask DEF StartLaunch, Opt
  <2>2. Kept' = {v} /\ VmmIsNamed' /\ Scoped' /\ RowNames'
    BY <1>2, <2>1, SpawnAlone, NoBirth DEF StartLaunch
  <2>3. Births'
    BY <2>1 DEF Births
  <2>4. QED
    BY <1>0, <1>a, <2>1, <2>2, <2>3, Alone DEF Knowing
<1>3. CASE StartRegister(r)
  <2>1. req[r].pc = "sBoot" /\ req'[r].pc = "sPersist" /\ req'[r].vm = req[r].vm
    BY <1>3, GotoTask DEF StartRegister, Pcs, StartPcs
  <2>2. UNCHANGED <<row, procs>> /\ entry'.child = req[r].vm
    BY <1>3 DEF StartRegister
  <2>3. born = None
    BY <1>3, <1>a, <2>1 DEF StartRegister, Ready, OneVmm, Births, Knowing
  <2>4. row # None => Kept \subseteq {req[r].vm}
    BY <2>1 DEF OneVmm, Held
  <2>5. QED
    BY <1>0, <1>c, <2>1, <2>2, <2>3, <2>4 DEF RowStays
<1>4. CASE StartPersist(r)
  <2>1. UNCHANGED <<procs, entry>> /\ req[r].pc = "sPersist" /\ req'[r].pc = "idle" /\ born = None
    BY <1>4, DoneTask, NoBirth DEF StartPersist
  <2>2. (\A s \in Reqs : req[s].pc # "sBoot") /\ (row # None => Kept \subseteq {req[r].vm})
    BY <1>a, <2>1 DEF Knowing, OneVmm, Held
  <2>3. RowStays
    BY <1>4, <1>p, <2>1, <2>2 DEF StartPersist, Write, RowStays, TypeOK, Opt, Rows
  <2>4. QED
    BY <1>0, <1>c, <2>1, <2>2, <2>3 DEF OneVmm, EntryNames
<1>5. CASE StartFails(r)
  <2>1. req'[r].pc = "idle"
    BY <1>5, DoneTask DEF StartFails
  <2>2. CASE req[r].pc = "sLaunch" /\ UNCHANGED <<row, entry, procs>>
    BY <1>b, <1>p, <2>1, <2>2, NoBirth DEF Manager, SameChild, RowStays, Knowing
  <2>3. CASE req[r].pc = "sBoot" /\ Abort(req[r].vm) /\ UNCHANGED <<row, entry>>
    <3>1. Dies({req[r].vm}) /\ (row # None => Kept' = {}) /\ born' = None
      BY <2>3, AbortTyped DEF Dies, OneVmm, Held, Kept
    <3>2. QED
      BY <1>b, <2>1, <2>3, <3>1 DEF Manager, SameChild, RowStays, FileStays, Knowing
  <2>4. CASE req[r].pc = "sPersist" /\ Dead({req[r].vm}) /\ Reconcile(FALSE)
    <3>1. Manager /\ Dies({req[r].vm}) /\ FileStays({req[r].vm}) /\ born' = born /\ born = None
      BY <2>4, ReconcileTyped, ReleasedTyped, DeadTyped, NoBirth DEF Manager, Dies, FileStays
    <3>2. RowStays
      BY <2>4 DEF Reconcile, Write, RowStays, TypeOK, Opt, Rows
    <3>3. QED
      BY <1>b, <2>1, <2>4, <3>1, <3>2 DEF Knowing
  <2>5. QED
    BY <1>5, <2>2, <2>3, <2>4 DEF StartFails
<1>6. ASSUME StopKill(r) \/ DrainKill(r) PROVE OneVmm'
  <2>1. /\ \A s \in Reqs : req[s].pc \notin Knowing /\ req'[s].pc \notin Knowing
        /\ sup # "boot"
    <3>1. CASE StopKill(r)
      BY <1>0, <1>a, <3>1, GotoTask DEF StopKill, Pcs, StopPcs, Knowing
    <3>2. CASE DrainKill(r)
      <4>1. req[r].pc = "nKill" /\ req'[r].pc = "nCommit"
        BY <3>2, GotoTask DEF DrainKill, Pcs
      <4>2. sup # "boot" /\ \A s \in Reqs : req[s].pc \notin Knowing
        BY <3>2
        DEF DrainKill, SourceFree, EntryLocked, SavedPcs, StartPcs, DeletePcs, Knowing
      <4>3. QED
        BY <1>0, <4>1, <4>2 DEF Knowing
    <3>3. QED
      BY <1>6, <3>1, <3>2
  <2>2. born = None /\ row' = row
    BY <1>6, <2>1 DEF OneVmm, Births, Knowing, StopKill, DrainKill
  <2>3. RowStays
    BY <2>2 DEF RowStays
  <2>4. CASE entry = None
    <3>1. entry' = None /\ Dead({req[r].vm} \cup scope)
      BY <1>6, <2>4 DEF StopKill, DrainKill, Sweep
    <3>2. Dies({req[r].vm} \cup scope) /\ FileStays({req[r].vm} \cup scope) /\ born' = born
      BY <3>1, DeadTyped DEF Dies, FileStays
    <3>3. QED
      BY <1>0, <2>1, <2>3, <3>1, <3>2, Quieter DEF Manager, Knowing
  <2>5. CASE entry # None
    <3>1. Dies({StopTarget}) /\ born' = born /\ entry' = Released(entry)
      BY <1>6, <2>5, StopTyped DEF StopKill, DrainKill, Dies
    <3>2. row # None => Kept \subseteq {StopTarget}
      BY <2>1, <2>2, <2>5 DEF StopTarget, OneVmm, EntryNames, VmmIsNamed, Kept, Knowing
    <3>3. row # None => Kept' = {}
      BY <3>1, <3>2 DEF Dies, Kept
    <3>4. FileStays({StopTarget}) /\ Manager
      BY <2>2, <2>5, <3>1, <3>3, ReleasedTyped DEF FileStays, Manager
    <3>5. QED
      BY <1>0, <2>1, <2>3, <3>1, <3>4, Quieter DEF Knowing
  <2>6. QED
    BY <2>4, <2>5
<1>d. Reconcile(TRUE) => RowStays /\ Manager
  <2>1. Reconcile(TRUE) => RowStays
    BY DEF Reconcile, Write, RowStays, TypeOK, Opt, Rows
  <2>2. QED
    BY <2>1, ReconcileTyped, ReleasedTyped DEF Manager
<1>7. CASE StopCommit(r)
  <2>1. UNCHANGED procs /\ req[r].pc = "tCommit" /\ req'[r].pc = "idle" /\ born = None
    BY <1>7, DoneTask, NoBirth DEF StopCommit
  <2>2. QED
    BY <1>7, <1>b, <1>d, <1>p, <2>1 DEF StopCommit, Knowing
<1>8. CASE DrainCommit(r)
  <2>1. UNCHANGED procs /\ req[r].pc = "nCommit" /\ req'[r].pc = "idle"
    BY <1>8, DoneTask DEF DrainCommit
  <2>2. (~\E s \in Reqs : req[s].pc = "wBoot") /\ sup # "boot"
    BY <1>8 DEF DrainCommit, EntryLocked
  <2>3. \A s \in Reqs : req'[s].pc \in Knowing \/ req[s].pc \in Knowing => req'[s] = req[s]
    BY <1>0, <2>1 DEF Knowing
  <2>4. \A s \in Reqs : req'[s].pc = "wBoot" => SameChild
    BY <1>0, <2>1, <2>2
  <2>5. QED
    BY <1>0, <1>8, <1>d, <1>p, <2>1, <2>2, <2>3, <2>4, Quieter DEF DrainCommit
<1>9. CASE StopFails(r)
  <2>1. UNCHANGED <<row, procs, entry>> /\ req[r].pc = "tKill" /\ req'[r].pc = "idle" /\ born = None
    BY <1>9, DoneTask, NoBirth DEF StopFails
  <2>2. QED
    BY <1>b, <1>p, <2>1 DEF Manager, SameChild, RowStays, Knowing
<1>10. CASE DrainFails(r)
  <2>1. UNCHANGED <<row, procs, entry>> /\ req[r].pc = "nKill" /\ req'[r].pc = "idle"
    BY <1>10, DoneTask DEF DrainFails
  <2>2. \A s \in Reqs : req'[s].pc \in Knowing \/ req[s].pc \in Knowing => req'[s] = req[s]
    BY <1>0, <2>1 DEF Knowing
  <2>3. \A s \in Reqs : req'[s].pc = "wBoot" => SameChild
    BY <1>0, <2>1 DEF Inv, Present, WakePcs, SameChild
  <2>4. Manager /\ (sup = "boot" => SameChild) /\ RowStays
    BY <2>1 DEF Inv, Present, Booting, Manager, SameChild, RowStays
  <2>5. QED
    BY <1>0, <1>p, <2>1, <2>2, <2>3, <2>4, Quieter
<1>11. CASE DeleteKill(r)
  <2>1. req[r].pc = "dKill" /\ req'[r].pc = "dRemove" /\ born = None /\ row # None
    BY <1>11, GotoTask, NoBirth DEF DeleteKill, Pcs, DeletePcs, Inv, Present
  <2> DEFINE d == {req[r].vm} \cup scope
  <2>2. /\ Dies(d) /\ FileStays(d) /\ born' = born /\ UNCHANGED <<row, entry>>
        /\ scope' = {}
    BY <1>11, DeadTyped DEF DeleteKill, Sweep, Dies, FileStays
  <2>3. vms' \subseteq lost' \ scope'
    BY <2>1, <2>2, NoneAssumption DEF Dies, OneVmm, Scoped, Kept, TypeOK
  <2>4. VmmIsNamed' /\ Scoped' /\ RowNames'
    BY <2>1, <2>2, NamesStay DEF RowStays
  <2>5. Births' /\ Kept' = {}
    BY <2>1, <2>2, <2>3 DEF Births, Kept
  <2>6. QED
    BY <1>0, <1>a, <2>1, <2>3, <2>4, <2>5, Alone DEF Knowing
<1>12. CASE DeleteGivesUp(r)
  <2>1. req[r].pc = "dKill" /\ req'[r].pc = "idle" /\ born = None
    BY <1>12, DoneTask, NoBirth DEF DeleteGivesUp
  <2> DEFINE d == {None} \cup scope
  <2>2. Dies(d) /\ FileStays(d) /\ born' = born /\ UNCHANGED <<row, entry>>
    BY <1>12, DeadTyped DEF DeleteGivesUp, Sweep, Dies, FileStays
  <2>3. QED
    BY <1>b, <2>1, <2>2 DEF Manager, SameChild, RowStays, Knowing
<1>13. CASE DeleteRemove(r)
  <2>1. row' = None /\ born' = born /\ born = None
    BY <1>13, NoBirth DEF DeleteRemove
  <2>2. sup # "boot"
    BY <1>13, <1>a DEF DeleteRemove
  <2>3. QED
    BY <1>0, <2>1, <2>2 DEF OneVmm, VmmIsNamed, Births, Scoped, RowNames, Held, EntryNames
<1>14. CASE DeleteFails(r)
  <2> DEFINE e == IF entry = None THEN None ELSE [entry EXCEPT !.stopped = TRUE]
  <2>1. e \in Opt(Entries)
    BY DEF Entries, TypeOK, Opt
  <2>2. UNCHANGED procs /\ Manager
    BY <1>14, <2>1, ReleasedTyped DEF DeleteFails, Manager
  <2>3. req[r].pc = "dRemove" /\ req'[r].pc = "idle" /\ born = None
    BY <1>14, DoneTask, NoBirth DEF DeleteFails
  <2>4. RowStays
    BY <1>14 DEF DeleteFails, Write, RowStays, TypeOK, Opt, Rows
  <2>5. QED
    BY <1>b, <1>p, <2>2, <2>3, <2>4 DEF Knowing
<1>15. CASE WakeAdopts(r)
  <2>1. entry \in Entries /\ req[r].pc = "wLaunch" /\ req'[r].pc = "wPersist" /\ born = None
    BY <1>15, GotoTask, NoBirth DEF WakeAdopts, Inv, Present, Pcs, WakePcs, Opt
  <2>2. UNCHANGED <<row, procs>> /\ entry'.child = IF pidfile # None THEN pidfile ELSE entry.child
    BY <1>15, <2>1 DEF WakeAdopts, Adopt, Entries
  <2>3. row # None => Kept \subseteq {entry'.child}
    <3>1. row # None => Kept \subseteq {pidfile} /\ Kept \subseteq Vmms
      BY <2>1 DEF OneVmm, VmmIsNamed, Kept, TypeOK
    <3>2. QED
      BY <2>2, <3>1, NoneAssumption
  <2>4. QED
    BY <1>0, <1>c, <2>1, <2>2, <2>3 DEF RowStays
<1>16. ASSUME NEW v \in Vmms, WakeLaunch(r, v) PROVE OneVmm'
  <2>1. entry \in Entries /\ req[r].pc = "wLaunch" /\ req'[r].pc = "wBoot" /\ born = None
    BY <1>16, GotoTask, NoBirth DEF WakeLaunch, Inv, Present, Pcs, WakePcs, Opt
  <2>2. Kept' = {v} /\ VmmIsNamed' /\ Scoped' /\ RowNames'
    BY <1>16, <2>1, SpawnAlone DEF WakeLaunch, Launch
  <2>3. entry'.child = v
    BY <1>16, <2>1 DEF WakeLaunch, Launch, Entries
  <2>4. Births'
    BY <2>1 DEF Births
  <2>5. QED
    BY <1>0, <1>a, <2>1, <2>2, <2>3, <2>4, Alone DEF Knowing
<1>17. CASE WakeBoot(r)
  <2>1. entry \in Entries /\ req[r].pc = "wBoot" /\ req'[r].pc = "wPersist"
    BY <1>17, GotoTask DEF WakeBoot, Inv, Present, Pcs, WakePcs, Opt
  <2>2. UNCHANGED <<row, procs>> /\ entry'.child = entry.child /\ born = None
    BY <1>17, <2>1 DEF WakeBoot, Ready, Entries
  <2>3. row # None => Kept \subseteq {entry.child}
    BY <2>1 DEF OneVmm, Held
  <2>4. QED
    BY <1>0, <1>c, <2>1, <2>2, <2>3 DEF RowStays
<1>18. CASE WakePersist(r)
  <2>1. /\ entry \in Entries /\ req[r].pc = "wPersist" /\ req'[r].pc = "idle" /\ born = None
        /\ \A s \in Reqs : req[s].pc # "sBoot"
    BY <1>18, <1>a, DoneTask, NoBirth DEF WakePersist, Inv, Present, Pcs, WakePcs, Opt, Knowing
  <2>2. UNCHANGED procs /\ entry'.child = entry.child /\ entry' # None
    BY <1>18, <2>1, NoneAssumption DEF WakePersist, Entries
  <2>3. row # None /\ entry.child # None => Kept \subseteq {entry.child}
    BY <2>1, NoneAssumption DEF OneVmm, EntryNames
  <2>4. RowStays
    BY <1>18, <1>p, <2>2, <2>3 DEF WakePersist, Write, RowStays, TypeOK, Opt, Rows
  <2>5. QED
    BY <1>0, <1>c, <2>1, <2>2, <2>3, <2>4
<1>19. CASE WakeFails(r)
  <2>1. req'[r].pc = "idle" /\ entry # None /\ Manager /\ row' = row
    BY <1>19, DoneTask, ReleasedTyped DEF WakeFails, Inv, Present, WakePcs, Manager, SameChild
  <2>2. CASE req[r].pc = "wLaunch" /\ UNCHANGED procs
    BY <1>b, <1>p, <2>1, <2>2, NoBirth DEF RowStays, Knowing
  <2>3. CASE req[r].pc = "wBoot" /\ Abort(entry.child)
    <3>1. Dies({entry.child}) /\ (row # None => Kept' = {}) /\ born' = None
      BY <2>3, AbortTyped DEF Dies, OneVmm, Held, Kept
    <3>2. QED
      BY <1>b, <2>1, <2>3, <3>1 DEF RowStays, FileStays, Knowing
  <2>4. QED
    BY <1>19, <2>2, <2>3 DEF WakeFails
<1>20. CASE PauseStop(r)
  <2>1. req[r].pc = "pStop" /\ req'[r].pc = "idle" /\ row # None /\ born = None
    BY <1>20, DoneTask, NoBirth DEF PauseStop, Inv, Present
  <2>2. Dies({req[r].vm}) /\ born' = born /\ Kept' = {}
    BY <1>20, <2>1, GoneTyped DEF PauseStop, Dies, Kept, OneVmm, Held
  <2>3. RowStays
    BY <1>20, <2>1 DEF PauseStop, RowStays, TypeOK, Opt, Rows
  <2>4. Manager
    BY <1>20, ReleasedTyped DEF PauseStop, Manager
  <2>5. QED
    BY <1>b, <2>1, <2>2, <2>3, <2>4 DEF FileStays, Knowing
<1>21. CASE ResumeEnds(r)
  <2>1. req[r].pc = "rBoot" /\ req'[r].pc = "idle" /\ born = None
    BY <1>21, DoneTask DEF ResumeEnds, Ready
  <2>2. UNCHANGED <<entry, procs>> /\ (row # None => Kept \subseteq {req[r].vm})
    BY <1>21, <2>1 DEF ResumeEnds, OneVmm, Held
  <2>3. RowStays
    BY <1>21, <1>p, <2>2 DEF ResumeEnds, Write, RowStays, TypeOK, Opt, Rows
  <2>4. \A s \in Reqs : req[s].pc # "sBoot"
    BY <1>a, <2>1 DEF Knowing
  <2>5. QED
    BY <1>0, <1>c, <2>1, <2>2, <2>3, <2>4 DEF OneVmm, EntryNames
<1>22. CASE ResumeFails(r)
  <2>1. req[r].pc = "rBoot" /\ req'[r].pc = "idle" /\ UNCHANGED <<row, entry>>
    BY <1>22, DoneTask DEF ResumeFails
  <2>2. Dies({req[r].vm}) /\ (row # None => Kept' = {}) /\ born' = None
    BY <1>22, <2>1, AbortTyped DEF ResumeFails, Dies, OneVmm, Held, Kept
  <2>3. QED
    BY <1>b, <2>1, <2>2 DEF Manager, SameChild, RowStays, FileStays, Knowing
<1> QED
  BY <1>1, <1>2, <1>3, <1>4, <1>5, <1>6, <1>7, <1>8, <1>9, <1>10, <1>11, <1>12, <1>13, <1>14,
     <1>15, <1>16, <1>17, <1>18, <1>19, <1>20, <1>21, <1>22 DEF Serve

\* The world starts no VMM, and the server's end forgets every manager.
LEMMA WorldProcs == ASSUME Inv, World PROVE OneVmm'
<1> TypeOK /\ OneVmm
  BY DEF Inv
<1> USE DEF Idly
<1>1. ASSUME NEW v \in Vmms, GuestHangs(v) \/ \E zero \in BOOLEAN : VmmExits(v, zero) PROVE OneVmm'
  <2>1. PICK d : Dies(d) /\ FileStays(d)
    <3>1. CASE GuestHangs(v)
      BY <3>1 DEF GuestHangs, Dies, FileStays
    <3>2. CASE \E zero \in BOOLEAN : VmmExits(v, zero)
      <4>1. Dies({v}) /\ FileStays({v})
        BY <3>2 DEF VmmExits, Dies, FileStays
      <4>2. QED
        BY <4>1
    <3>3. QED
      BY <1>1, <3>1, <3>2
  <2>2. UNCHANGED <<row, entry, sup, req, born>>
    BY <1>1 DEF GuestHangs, VmmExits
  <2>3. (sup = "boot" \/ \E r \in Reqs : req[r].pc = "wBoot") => SameChild
    BY <2>2 DEF Inv, Present, Booting, WakePcs, SameChild
  <2>4. Manager /\ RowStays
    BY <2>2 DEF Manager, SameChild, RowStays
  <2>5. QED
    BY <2>1, <2>2, <2>3, <2>4, Quieter
<1>2. CASE ExternalDelete
  <2>1. row' = None /\ born' = born /\ UNCHANGED <<sup, req>>
    BY <1>2 DEF ExternalDelete
  <2>2. QED
    BY <2>1 DEF OneVmm, VmmIsNamed, Births, Scoped, RowNames, Held, EntryNames
<1>3. ASSUME NEW b \in BOOLEAN, ServerStops(b) PROVE OneVmm'
  <2>1. /\ UNCHANGED <<row, vms, scope, pidfile>> /\ born' = None /\ entry' = None /\ sup' = "idle"
        /\ \A r \in Reqs : req'[r].pc = "idle"
    BY <1>3 DEF ServerStops, Idle
  <2>2. Kept' = Kept \ {born}
    BY <1>3 DEF ServerStops, Kept
  <2>3. VmmIsNamed' /\ Scoped' /\ RowNames' /\ Births'
    BY <2>1, <2>2 DEF OneVmm, VmmIsNamed, Scoped, RowNames, Births, Kept
  <2>4. QED
    BY <2>1, <2>3, Alone
<1>4. ASSUME NEW loaded \in BOOLEAN, ServerStarts(loaded) PROVE OneVmm'
  <2>1. /\ UNCHANGED <<procs, sup, req>> /\ sup = "idle" /\ born = None
        /\ \A r \in Reqs : req[r].pc = "idle"
    BY <1>4 DEF ServerStarts, Inv, Down, Idle, OneVmm, Births
  <2>2. RowStays
    BY <1>4 DEF ServerStarts, SetState, Write, RowStays, TypeOK, Opt, Rows
  <2>3. Dies({}) /\ FileStays({}) /\ born' = born /\ Kept' = Kept
    BY <2>1 DEF procs, Dies, FileStays, Kept
  <2>4. VmmIsNamed' /\ Scoped' /\ RowNames'
    BY <2>1, <2>2, <2>3, NamesStay
  <2>5. Births'
    BY <2>1, <2>3 DEF Births
  <2>6. entry' # None /\ entry'.child # None =>
            entry'.child = pidfile \/ (entry'.child = row.pid /\ row.pid \in vms)
    BY <1>4 DEF ServerStarts, FromRow
  <2>7. row # None => Kept \subseteq {pidfile} /\ (row.pid \in vms => Kept \subseteq {row.pid})
    BY <2>1 DEF OneVmm, VmmIsNamed, RowNames, Kept
  <2>8. QED
    BY <2>1, <2>2, <2>3, <2>4, <2>5, <2>6, <2>7, Alone DEF RowStays
<1> QED
  BY <1>1, <1>2, <1>3, <1>4 DEF World

-----------------------------------------------------------------------------
(* How often the supervisor boots.                                          *)

\* The counts, by type.
LEMMA CountTyped ==
    ASSUME TypeOK
    PROVE  /\ tries \in Nat /\ MaxRetries \in Nat
           /\ (entry # None => entry.count \in Nat) /\ (row # None => row.count \in Nat)
  BY BoundAssumption DEF TypeOK, Opt, Entries, Rows

\* A step that boots nothing by the supervisor and leaves both copies of the
\* count as they are, or loses one, keeps the bounds.
LEMMA SameCounts ==
    ASSUME Inv, tries' = tries,
           entry' # None => entry # None /\ entry'.count = entry.count,
           row' # None => row # None /\ row'.count = row.count,
           sup' = sup \/ sup' \in {"idle", "probe", "read", "decide", "settle", "boot"}
               \/ (sup = "lock" /\ sup' = "launch"),
           \A r \in Reqs : req'[r].pc = "sPersist" => req[r].pc = "sPersist"
    PROVE  Counts'
<1>1. Counted' <= Counted /\ Decided' <= Decided
  BY DEF Counted, Decided
<1>2. Counted \in Nat /\ Decided \in Nat /\ Counted' \in Nat /\ Decided' \in Nat
  BY DEF Counted, Decided
<1>3. QED
  BY <1>1, <1>2, CountTyped DEF Inv, Counts

\* A restart is decided below the limit, counted once in both copies, and boots
\* at most once.
LEMMA SupCounts == ASSUME Inv, Background PROVE Counts'
<1> TypeOK /\ entry \in Opt(Entries)
  BY DEF Inv, TypeOK
<1> USE DEF Quiet
<1>0. (row' = None <=> row = None) /\ req' = req
  BY SupShape
<1>1. CASE SupTick \/ SupProbe \/ SupLock \/ BackoffEnds
  BY <1>0, <1>1, SameCounts DEF SupTick, SupProbe, SupLock, BackoffEnds, Rest
<1>2. CASE SupRead
  <2>1. row # None => row'.count = row.count
    BY <1>2 DEF SupRead, TypeOK, Opt, Rows
  <2>2. QED
    BY <1>0, <1>2, <2>1, SameCounts DEF SupRead, Rest
<1>3. CASE SupDecide
  <2>1. CASE sup' # "bump"
    BY <1>0, <1>3, <2>1, SameCounts DEF SupDecide, RestartTiming, Rest
  <2>2. CASE sup' = "bump"
    <3>1. entry # None /\ ShouldRestart /\ UNCHANGED <<row, entry, tries>> /\ sup = "decide"
      BY <1>3, <2>2 DEF SupDecide, Rest
    <3>2. MaxRetries > 0 => tries + 1 <= MaxRetries + 1
      BY <3>1, CountTyped DEF ShouldRestart, Inv, Counts, Counted
    <3>3. QED
      BY <1>0, <2>2, <3>1, <3>2 DEF Inv, Counts, Counted, Decided
  <2>3. QED
    BY <2>1, <2>2
<1>4. CASE SupSettle
  BY <1>0, <1>4, SetStateTyped, SameCounts DEF SupSettle, Rest, Opt
<1>5. CASE SupBump
  <2>1. row # None => row'.count = row.count + 1
    BY <1>5 DEF SupBump, Write, TypeOK, Opt, Rows
  <2>2. entry' # None => entry # None /\ entry'.count = entry.count + 1
    BY <1>5 DEF SupBump, Opt, Entries
  <2>3. sup = "bump" /\ sup' = "lock" /\ tries' = tries
    BY <1>5 DEF SupBump
  <2>4. QED
    BY <1>0, <2>1, <2>2, <2>3, CountTyped DEF Inv, Counts, Counted, Decided
<1>6. ASSUME NEW v \in Vmms, SupLaunch(v) PROVE Counts'
  <2>1. entry \in Entries /\ \A r \in Reqs : req[r].pc # "sPersist"
    BY <1>6 DEF SupLaunch, Inv, Present, Locks, Life, Booting, DrainPcs, Opt
  <2>2. entry'.count = entry.count
    BY <1>6, <2>1 DEF SupLaunch, Launch, Entries
  <2>3. sup = "launch" /\ sup' = "boot" /\ tries' = tries + 1 /\ row' = row
    BY <1>6 DEF SupLaunch
  <2>4. QED
    BY <1>0, <2>1, <2>2, <2>3, CountTyped, NoneAssumption DEF Inv, Counts, Counted, Decided
<1>7. CASE SupBoot
  <2>1. entry \in Entries
    BY <1>7 DEF SupBoot, Inv, Present, Booting, Opt
  <2>2. entry'.count = entry.count /\ (row # None => row'.count = row.count)
    BY <1>7, <2>1, SetStateTyped DEF SupBoot, Entries
  <2>3. QED
    BY <1>0, <1>7, <2>1, <2>2, SameCounts, NoneAssumption DEF SupBoot
<1>8. CASE SupFails
  <2>1. entry # None
    BY <1>8 DEF SupFails, Inv, Present, Booting
  <2>2. entry'.count = entry.count /\ (row # None => row'.count = row.count)
    BY <1>8, <2>1, SetStateTyped, ReleasedTyped DEF SupFails, Opt
  <2>3. QED
    BY <1>0, <1>8, <2>1, <2>2, SameCounts DEF SupFails
<1>9. CASE SupAdopts
  <2>1. entry \in Entries
    BY <1>9 DEF SupAdopts, Inv, Present, Booting, Opt
  <2>2. entry' \in Entries /\ entry'.count = entry.count
    BY <1>9, <2>1 DEF SupAdopts, Adopt, Entries, TypeOK, Opt
  <2>3. row # None => row'.count = row.count
    BY <1>9, <2>2, SetStateTyped DEF SupAdopts, Entries
  <2>4. QED
    BY <1>0, <1>9, <2>1, <2>2, <2>3, SameCounts, NoneAssumption DEF SupAdopts
<1>10. CASE LaunchStep
  BY <1>0, <1>10, SameCounts
  DEF LaunchStep, LaunchScopes, LaunchNames, LaunchUnnamed, LaunchKeeps
<1> QED
  BY <1>1, <1>2, <1>3, <1>4, <1>5, <1>6, <1>7, <1>8, <1>9, <1>10 DEF SupStep, Background

\* A request that begins changes no count.
LEMMA RequestCounts == ASSUME Inv, NEW r \in Reqs, Request(r) PROVE Counts'
<1> TypeOK /\ entry \in Opt(Entries)
  BY DEF Inv, TypeOK
<1> USE DEF Calm, Still
<1>0. /\ (row' = None <=> row = None) /\ sup' = sup
      /\ \A s \in Reqs : req'[s].pc = "sPersist" => req[s].pc = "sPersist"
  BY RequestShape
<1>1. CASE StartRepairs(r)
  <2>1. row # None /\ row' = row /\ tries' = tries /\ entry'.count = row.count
    BY <1>1 DEF StartRepairs, FromRow
  <2>2. QED
    BY <1>0, <2>1, CountTyped DEF Inv, Counts, Counted, Decided
<1>2. CASE StartBegin(r) \/ StopDead(r)
  <2>1. \/ UNCHANGED <<row, entry>>
        \/ \E x \in BOOLEAN : Reconcile(x)
    BY <1>2 DEF StartBegin, StopDead
  <2>2. /\ entry' # None => entry # None /\ entry'.count = entry.count
        /\ row # None => row'.count = row.count
    BY <2>1, ReconcileTyped, ReleasedTyped
  <2>3. QED
    BY <1>0, <1>2, <2>2, SameCounts DEF StartBegin, StopDead
<1>3. CASE StopBegin(r) \/ DeleteBegin(r) \/ WakeBegin(r) \/ DrainBegin(r)
  BY <1>0, <1>3, SameCounts DEF StopBegin, DeleteBegin, WakeBegin, DrainBegin
<1>4. CASE PauseBegin(r)
  <2>1. row'.count = row.count
    BY <1>4 DEF PauseBegin, TypeOK, Opt, Rows
  <2>2. QED
    BY <1>0, <1>4, <2>1, SameCounts DEF PauseBegin
<1>5. CASE \E v \in Vmms : ResumeLaunch(r, v)
  BY <1>0, <1>5, ReleasedTyped, SameCounts DEF ResumeLaunch
<1> QED
  BY <1>1, <1>2, <1>3, <1>4, <1>5 DEF Request

\* A start that registers the machine counts from there; one that persists it
\* resets the row's count while no boot can have been made since.
LEMMA ServeCounts == ASSUME Inv, NEW r \in Reqs, Serve(r) PROVE Counts'
<1> TypeOK /\ entry \in Opt(Entries)
  BY DEF Inv, TypeOK
<1> USE DEF Calm, Still, Pcs, StartPcs, StopPcs, DeletePcs, WakePcs, DrainPcs
<1>0. /\ (row' # None => row # None) /\ sup' = sup
      /\ \A s \in Reqs : s # r => req'[s] = req[s]
  BY ServeShape
<1>a. ASSUME tries' = tries, entry' # None => entry # None /\ entry'.count = entry.count,
             row # None /\ row' # None => row'.count = row.count, req'[r].pc # "sPersist"
      PROVE  Counts'
  BY <1>0, <1>a, SameCounts
<1>1. CASE StartAdopts(r) \/ \E v \in Vmms : StartLaunch(r, v)
  <2>1. PICK v \in Opt(Vmms) : (StartAdopts(r) /\ v = pidfile) \/ StartLaunch(r, v)
    BY <1>1 DEF TypeOK, Opt
  <2>2. req'[r].pc = "sBoot"
    BY <2>1, BootTask
  <2>3. QED
    BY <1>1, <1>a, <2>2 DEF StartAdopts, StartLaunch
<1>2. CASE StartRegister(r)
  <2>1. entry'.count \in Nat /\ tries' = 0 /\ row' = row
    BY <1>2, TaskTyped DEF StartRegister
  <2>2. QED
    BY <1>0, <2>1, CountTyped DEF Inv, Counts, Counted, Decided
<1>3. CASE StartPersist(r)
  <2>1. tries' = 0 /\ tries = 0 /\ entry' = entry /\ req'[r].pc = "idle"
    BY <1>3, DoneTask DEF StartPersist, Inv, Counts
  <2>2. row' # None => row'.count = 0
    BY <1>0, <1>3 DEF StartPersist, Write, TypeOK, Opt, Rows
  <2>3. QED
    BY <1>0, <2>1, <2>2, CountTyped DEF Inv, Counts, Counted, Decided
<1>4. CASE StartFails(r)
  <2>1. req'[r].pc = "idle"
    BY <1>4, DoneTask DEF StartFails
  <2>2. UNCHANGED <<row, entry>> \/ Reconcile(FALSE)
    BY <1>4 DEF StartFails
  <2>3. QED
    BY <1>4, <1>a, <2>1, <2>2, ReconcileTyped, ReleasedTyped DEF StartFails
<1>5. CASE StopKill(r) \/ DrainKill(r)
  <2>1. req'[r].pc \in {"tCommit", "nCommit"}
    BY <1>5, GotoTask DEF StopKill, DrainKill
  <2>2. QED
    BY <1>5, <1>a, <2>1, ReleasedTyped DEF StopKill, DrainKill
<1>6. CASE StopCommit(r) \/ DrainCommit(r)
  <2>1. req'[r].pc = "idle" /\ Reconcile(TRUE)
    BY <1>6, DoneTask DEF StopCommit, DrainCommit
  <2>2. QED
    BY <1>6, <1>a, <2>1, ReconcileTyped, ReleasedTyped DEF StopCommit, DrainCommit
<1>7. CASE StopFails(r) \/ DrainFails(r) \/ DeleteKill(r) \/ DeleteGivesUp(r) \/ ResumeFails(r)
  <2>1. req'[r].pc \in {"idle", "dRemove"}
    BY <1>7, DoneTask, GotoTask DEF StopFails, DrainFails, DeleteKill, DeleteGivesUp, ResumeFails
  <2>2. QED
    BY <1>7, <1>a, <2>1 DEF StopFails, DrainFails, DeleteKill, DeleteGivesUp, ResumeFails
<1>8. CASE DeleteRemove(r)
  <2>1. req'[r].pc = "idle"
    BY <1>8, DoneTask DEF DeleteRemove
  <2>2. QED
    BY <1>8, <1>a, <2>1 DEF DeleteRemove
<1>9. CASE DeleteFails(r)
  <2> DEFINE e == IF entry = None THEN None ELSE [entry EXCEPT !.stopped = TRUE]
  <2>1. e \in Opt(Entries) /\ (entry # None => e # None /\ e.count = entry.count)
    BY NoneAssumption DEF Entries, Opt
  <2>2. entry' # None => entry # None /\ entry'.count = entry.count
    BY <1>9, <2>1, ReleasedTyped DEF DeleteFails
  <2>3. row # None => row'.count = row.count
    BY <1>9 DEF DeleteFails, Write, TypeOK, Opt, Rows
  <2>4. req'[r].pc = "idle"
    BY <1>9, DoneTask DEF DeleteFails
  <2>5. QED
    BY <1>9, <1>a, <2>2, <2>3, <2>4 DEF DeleteFails
<1>10. CASE WakeAdopts(r) \/ WakeBoot(r) \/ \E v \in Vmms : WakeLaunch(r, v)
  <2>1. entry \in Entries
    BY <1>10 DEF WakeAdopts, WakeBoot, WakeLaunch, Inv, Present, Opt
  <2>2. entry'.count = entry.count
    BY <1>10, <2>1 DEF WakeAdopts, WakeBoot, WakeLaunch, Adopt, Launch, Entries
  <2>3. req'[r].pc \in {"wBoot", "wPersist"}
    BY <1>10, GotoTask DEF WakeAdopts, WakeBoot, WakeLaunch
  <2>4. QED
    BY <1>10, <1>a, <2>1, <2>2, <2>3, NoneAssumption DEF WakeAdopts, WakeBoot, WakeLaunch
<1>11. CASE WakePersist(r)
  <2>1. entry \in Entries /\ req'[r].pc = "idle"
    BY <1>11, DoneTask DEF WakePersist, Inv, Present, Opt
  <2>2. entry'.count = entry.count /\ (row # None => row'.count = row.count)
    BY <1>11, <2>1 DEF WakePersist, Write, Entries, Rows, TypeOK, Opt
  <2>3. QED
    BY <1>11, <1>a, <2>1, <2>2, NoneAssumption DEF WakePersist
<1>12. CASE WakeFails(r)
  <2>1. req'[r].pc = "idle" /\ entry # None
    BY <1>12, DoneTask DEF WakeFails, Inv, Present
  <2>2. QED
    BY <1>12, <1>a, <2>1, ReleasedTyped DEF WakeFails
<1>13. CASE PauseStop(r)
  <2>1. req'[r].pc = "idle" /\ row # None
    BY <1>13, DoneTask DEF PauseStop, Inv, Present
  <2>2. row'.count = row.count
    BY <1>13, <2>1 DEF PauseStop, TypeOK, Opt, Rows
  <2>3. QED
    BY <1>13, <1>a, <2>1, <2>2, ReleasedTyped DEF PauseStop
<1>14. CASE ResumeEnds(r)
  <2>1. req'[r].pc = "idle" /\ (row # None => row'.count = row.count)
    BY <1>14, DoneTask DEF ResumeEnds, Write, TypeOK, Opt, Rows
  <2>2. QED
    BY <1>14, <1>a, <2>1 DEF ResumeEnds
<1> QED
  BY <1>1, <1>2, <1>3, <1>4, <1>5, <1>6, <1>7, <1>8, <1>9, <1>10, <1>11, <1>12, <1>13, <1>14
  DEF Serve

\* A restarted server takes the count from the row.
LEMMA WorldCounts == ASSUME Inv, World PROVE Counts'
<1> TypeOK
  BY DEF Inv
<1> USE DEF Idly
<1>1. CASE \E v \in Vmms : GuestHangs(v) \/ \E zero \in BOOLEAN : VmmExits(v, zero)
  BY <1>1, SameCounts DEF GuestHangs, VmmExits
<1>2. CASE ExternalDelete
  BY <1>2, SameCounts DEF ExternalDelete
<1>3. CASE \E b \in BOOLEAN : ServerStops(b)
  BY <1>3, SameCounts DEF ServerStops, Idle
<1>4. ASSUME NEW loaded \in BOOLEAN, ServerStarts(loaded) PROVE Counts'
  <2>1. row' # None => row # None /\ row'.count = row.count
    BY <1>4, SetStateTyped DEF ServerStarts, Opt
  <2>2. entry' # None => row # None /\ entry'.count = row.count
    BY <1>4 DEF ServerStarts, FromRow
  <2>3. QED
    BY <1>4, <2>1, <2>2, CountTyped DEF ServerStarts, Inv, Counts, Counted, Decided
<1> QED
  BY <1>1, <1>2, <1>3, <1>4 DEF World

-----------------------------------------------------------------------------
(* Theorems.                                                                *)

\* The invariant holds of a machine that has just been registered.
LEMMA InvInit == Init => Inv
<1> SUFFICES ASSUME Init PROVE Inv
  OBVIOUS
<1>1. TypeOK
  <2>1. row \in Rows /\ entry \in Entries
    BY DEF Init, Rows, Entries, Opt
  <2>2. req \in [Reqs -> Tasks]
    BY DEF Init, Idle, Tasks, Opt
  <2>3. 0 \in 0..MaxOps /\ 0 \in 0..MaxFaults
    BY BoundAssumption
  <2>4. QED
    BY <2>1, <2>2, <2>3 DEF Init, TypeOK, SupPcs, Opt
<1>2. \A r \in Reqs : req[r].pc = "idle"
  BY DEF Init, Idle
<1>3. Locks /\ Down /\ Present
  BY <1>2 DEF Init, Locks, Life, Down, Present, Booting, WakePcs, DeletePcs
<1>4. OneVmm
  BY DEF Init, OneVmm, VmmIsNamed, Births, Scoped, RowNames, Held, EntryNames, Kept
<1>5. Counts
  BY <1>2, BoundAssumption DEF Init, Counts, Counted, Decided
<1>6. QED
  BY <1>1, <1>3, <1>4, <1>5 DEF Inv

\* Every step keeps the invariant.
LEMMA InvStep == Inv /\ [Next]_vars => Inv'
<1> SUFFICES ASSUME Inv, [Next]_vars PROVE Inv'
  OBVIOUS
<1>1. Locks' /\ Down' /\ Present'
  BY LocksStep
<1>2. TypeOK' /\ OneVmm' /\ Counts'
  <2>1. CASE Background
    BY <2>1, SupTypes, SupProcs, SupCounts
  <2>2. ASSUME NEW r \in Reqs, Request(r) PROVE TypeOK' /\ OneVmm' /\ Counts'
    BY <2>2, RequestTypes, RequestProcs, RequestCounts
  <2>3. ASSUME NEW r \in Reqs, Serve(r) PROVE TypeOK' /\ OneVmm' /\ Counts'
    BY <2>3, ServeTypes, ServeProcs, ServeCounts
  <2>4. CASE World
    BY <2>4, WorldTypes, WorldProcs, WorldCounts
  <2>5. CASE UNCHANGED vars
    BY <2>5 DEF vars, procs, Inv, TypeOK, OneVmm, VmmIsNamed, Births, Scoped, RowNames, Held,
       EntryNames, Kept, Counts, Counted, Decided
  <2>6. QED
    BY <2>1, <2>2, <2>3, <2>4, <2>5 DEF Next, World, Background
<1>3. QED
  BY <1>1, <1>2 DEF Inv

\* The inductive invariant holds in every reachable state.
LEMMA Invariant == Spec => []Inv
  BY InvInit, InvStep, PTL DEF Spec

\* The types of the state.
THEOREM Types == Spec => []TypeOK
<1>1. Inv => TypeOK
  BY DEF Inv
<1>2. QED
  BY <1>1, Invariant, PTL

\* While nothing is launched the pid file names every VMM of a machine that
\* exists, and one is launched only when none is left, for any number of
\* requests in service at once. The VMMs whose launch ended without a pid file
\* (the server was killed before it was written, or the write failed) are
\* excepted, and at most one VMM is in the machine's scope, those included.
THEOREM OneVmmPerMachine == Spec => []VmmIsNamed
<1>1. Inv => VmmIsNamed
  BY DEF Inv, OneVmm
<1>2. QED
  BY <1>1, Invariant, PTL

\* The supervisor boots a machine at most max_retries times after a start, and
\* once more for a restart decided before it, whatever the server's restarts do
\* to the two copies of the count.
THEOREM RetriesAreBounded == Spec => []WithinRetries
<1>1. Inv => WithinRetries
  <2>1. SUFFICES ASSUME Inv, MaxRetries > 0 PROVE tries <= MaxRetries + 1
    BY DEF WithinRetries
  <2>2. QED
    BY <2>1, CountTyped DEF Inv, Counts, Decided
<1>2. QED
  BY <1>1, Invariant, PTL

\* When the server removes the row of a machine it deletes, no VMM of it is left
\* and none can be started in between, except one that its server was killed
\* before moving into the scope.
THEOREM DeletesAreComplete == Spec => DeleteLeavesNoVmm
<1>1. ASSUME Inv, [Next]_vars, NEW r \in Reqs, req[r].pc = "dRemove", row' = None
      PROVE  vms' \subseteq lost' \ scope'
  <2>1. row # None /\ vms \subseteq lost \ scope
    BY <1>1 DEF Inv, Present, OneVmm, Held, DeletePcs
  <2>2. Serve(r)
    <3>1. ~Background
      BY <1>1, <2>1, SupShape
    <3>2. \A q \in Reqs : ~Request(q)
      BY <1>1, <2>1, RequestShape
    <3>3. ASSUME NEW q \in Reqs, Serve(q) PROVE q = r
      BY <1>1, <2>1, <3>3, ServeShape DEF Inv, Locks, Life, DrainPcs
    <3>4. ~World
      <4>1. TypeOK /\ SourceFree = FALSE
        BY <1>1 DEF Inv, SourceFree, DeletePcs
      <4>2. ~\E b \in BOOLEAN : ServerStarts(b)
        BY <1>1, <2>1, <4>1, SetStateTyped DEF ServerStarts, Opt
      <4>3. ~\E b \in BOOLEAN : ServerStops(b)
        BY <1>1, <2>1 DEF ServerStops
      <4>4. QED
        BY <1>1, <2>1, <4>1, <4>2, <4>3 DEF World, GuestHangs, VmmExits, ExternalDelete
    <3>5. QED
      BY <1>1, <2>1, <3>1, <3>2, <3>3, <3>4 DEF Next, World, Background, vars
  <2>3. UNCHANGED <<vms, lost, scope>>
    BY <1>1, <2>2 DEF Serve, StartAdopts, StartLaunch, StartRegister, StartPersist,
       StartFails, StopKill, StopCommit, StopFails, DeleteKill, DeleteGivesUp, DeleteRemove,
       DeleteFails, WakeAdopts, WakeLaunch, WakeBoot, WakePersist, WakeFails, DrainKill,
       DrainCommit, DrainFails, PauseStop, ResumeEnds, ResumeFails, procs
  <2>4. QED
    BY <2>1, <2>3
<1>2. Inv /\ [Next]_vars => [\A r \in Reqs : req[r].pc = "dRemove" /\ row' = None
                                => vms' \subseteq lost' \ scope']_vars
  BY <1>1
<1>3. QED
  BY <1>2, Invariant, PTL DEF Spec, DeleteLeavesNoVmm
=============================================================================
