----------------------------- MODULE LiveResize -----------------------------
(***************************************************************************)
(* Live resize of one machine: the geometry its row records, the geometry  *)
(* its VMM and its guest have reached, the resize intent and the receipts  *)
(* of the database, and the one resize that holds the source lock, under   *)
(* requests of the server and of the command line, the resize controller,  *)
(* offline updates, VMM exits, restarts, killed resizers and host reboots. *)
(*                                                                         *)
(* "cpu" is vCPUs, "mem" RAM, "disk" a managed disk. A refused request     *)
(* that changes nothing is left out.                                       *)
(***************************************************************************)
EXTENDS Naturals

CONSTANTS
    Kinds,      \* the resources that are resized
    MaxSize,    \* bound: requested sizes are 1..MaxSize
    Capacity,   \* the most of a resource the runtime can have
    Ids,        \* a pid and its start time, which may recur after a reboot
    Ops,        \* operation identifiers of requests that ask for a receipt
    CliStarts,  \* whether a command line, whose start takes no lock, starts it
    MaxReqs,    \* bound: requests and offline updates
    MaxFaults,  \* bound: exits, kills, failed calls
    MaxBoots,   \* bound: host reboots
    None

ASSUME KindsAssumption == Kinds \subseteq {"cpu", "mem", "disk"} /\ CliStarts \in BOOLEAN
ASSUME BoundAssumption ==
    /\ MaxSize \in Nat \ {0} /\ Capacity \in Nat /\ Capacity >= MaxSize
    /\ MaxReqs \in Nat /\ MaxFaults \in Nat /\ MaxBoots \in Nat

VARIABLES
    row,       \* the row's cpus, mem and disk size
    synced,    \* the row as of the last commit that waited for the disk
    vmm,       \* the VMM process, None when the machine is stopped
    spent,     \* identities used since the host booted
    bootid,    \* host_boot_id
    boot,      \* the RAM the VMM booted with
    made,      \* CPUs created, RAM registered, capacity of the disk
    used,      \* CPUs online, RAM plugged, bytes of the filesystem
    file,      \* bytes of the disk file
    said,      \* the row says that the VMM is running (actual_state)
    plan,      \* the row as a start that has not booted yet has read it
    upd,       \* the machine update that has found the machine stopped
    intent,    \* vm_resize_intents
    receipts,  \* vm_resize_receipts
    job,       \* the resize that holds lock_fork_source
    leaks,     \* history of the VMM that runs or starts, see Leaks
    reqs, faults

host == <<said, plan, upd>>
vars == <<row, synced, vmm, spent, bootid, boot, made, used, file, host, intent, receipts, job,
          leaks, reqs, faults>>

Sizes == 1..MaxSize
Opt(S) == S \cup {None}
Geometry == [Kinds -> Sizes]
Capacities == 1..Capacity
Targets == [k : Kinds, n : Sizes]
Identity == [id : Ids, boot : 0..MaxBoots]
Intents == [vmm : Identity, target : Targets]
Receipts == [vmm : Identity, target : Targets, original : Geometry,
             state : {"Active", "Rejected", "Applied"}]
Updates == [k : Kinds, n : Sizes, grown : BOOLEAN]
\* "crossed": a machine update wrote the row of a machine whose start had read
\* it. "stray": RAM was registered by a command computed for another VMM, which
\* had booted with other RAM. "unread": the intent was cleared for want of
\* memory statistics when its RAM was registered already.
Leaks == {"crossed", "stray", "unread"}
Steps == {"begin", "make", "row", "guest", "offline", "shrunk", "finish", "done", "failed"}
Jobs == [who : {"api", "cli", "controller"}, op : Opt(Ops), expect : Opt(Identity),
         target : Targets, step : Steps, intent : Opt(Intents), base : Capacities]

\* None stands for the absence of each of these.
ASSUME NoneAssumption ==
    /\ None \notin Ids \cup Ops \cup Identity \cup Intents \cup Receipts \cup Jobs
    /\ None \notin Geometry \cup Updates

\* RuntimeIdentity::observe of the machine's VMM.
Me == [id |-> vmm, boot |-> bootid]
Running == vmm # None
\* actual_state: the row says Running, and the process it names is alive.
SaidRunning == Running /\ said

TypeOK ==
    /\ row \in Geometry /\ synced \in Geometry
    /\ vmm \in Opt(Ids) /\ spent \subseteq Ids /\ bootid \in 0..MaxBoots /\ boot \in Sizes
    /\ made \in [Kinds -> Capacities] /\ used \in Geometry
    /\ intent \in Opt(Intents)
    /\ receipts \in [Ops -> Opt(Receipts)]
    /\ job \in Opt(Jobs) /\ leaks \subseteq Leaks
    /\ file \in Sizes /\ said \in BOOLEAN /\ plan \in Opt(Geometry) /\ upd \in Opt(Updates)
    /\ reqs \in 0..MaxReqs /\ faults \in 0..MaxFaults

\* A machine that has been created with its smallest size.
Init ==
    /\ row = [k \in Kinds |-> 1] /\ synced = row
    /\ vmm = None /\ spent = {} /\ bootid = 0 /\ boot = 1
    /\ made = row /\ used = row
    /\ intent = None /\ receipts = [o \in Ops |-> None] /\ job = None /\ leaks = {}
    /\ file = 1 /\ said = FALSE /\ plan = None /\ upd = None
    /\ reqs = 0 /\ faults = 0

Kind == job.target.k
Size == job.target.n
Goto(step) == job' = [job EXCEPT !.step = step]
Fault == faults < MaxFaults /\ faults' = faults + 1
\* with_durable_resize_write: a commit that waits for the disk takes every
\* earlier commit with it.
Durable == synced' = row

\* What a stopped machine leaves behind: the disk and its filesystem.
Halted(g) == [k \in Kinds |-> IF k = "disk" THEN g[k] ELSE 1]

-----------------------------------------------------------------------------
(* The intent journal: begin_resize_intent, begin_resize, rebind_resize,    *)
(* finish_resize_intent, clear_met_memory_intent.                           *)

\* previous_runtime_gone: its boot ended or no such process is left.
Gone(i) == i.vmm.boot # bootid \/ i.vmm.id # vmm

\* A new intent, the pending one again, or the pending one transferred from a
\* VMM that is gone. Any other pending intent refuses the target.
MayBegin(i, t) ==
    \/ i = None
    \/ i.target = t /\ (i.vmm = Me \/ Gone(i))

\* clear_met_memory_intent.
Met(i) ==
    i # None /\ i.target.k = "mem" /\ Running /\ boot >= i.target.n /\ Gone(i)

\* target_added_mib, and that the row's RAM cannot shrink.
RamFits(n) == n >= row["mem"] /\ n >= made["mem"]
\* validate_growth.
DiskFitsStrictly(n) == n > row["disk"]    \* Mutant of DiskFits: a retry is refused.
DiskFits(n) == n >= row["disk"]
\* shrink_cpus_locked keeps to the CPU slots there are.
CpusFit(n) == n < row["cpu"] => n <= made["cpu"]
\* The static rules of grow_cpus_locked, grow_memory_locked, grow_disks_locked.
Valid(t) ==
    /\ SaidRunning
    /\ t.k = "mem" => RamFits(t.n)
    /\ t.k = "disk" => DiskFits(t.n)
    /\ t.k = "cpu" => CpusFit(t.n)

BaseAdded(k) ==    \* Mutant of Base: the RAM added since boot is taken for the boot RAM.
    CASE k = "cpu" -> made[k] [] k = "mem" -> made[k] - boot [] k = "disk" -> 1
\* What the runtime reports before the intent: created CPUs, boot RAM.
Base(k) == CASE k = "cpu" -> made[k] [] k = "mem" -> boot [] k = "disk" -> 1

\* grow_target_locked as far as the durable intent.
GrowBegin ==
    /\ job # None /\ job.step = "begin"
    /\ LET left == IF Kind = "mem" /\ Size >= row["mem"] /\ Met(intent) THEN None ELSE intent
           mine == [vmm |-> Me, target |-> job.target]
       IN IF Valid(job.target) /\ MayBegin(left, job.target)
          THEN /\ intent' = mine
               /\ job' = [job EXCEPT !.intent = mine, !.base = Base(Kind), !.step =
                             IF Kind = "cpu" /\ Size < row[Kind] THEN "offline" ELSE "make"]
          ELSE intent' = left /\ Goto("failed")
    /\ IF intent' # intent THEN Durable ELSE UNCHANGED synced
    /\ UNCHANGED <<row, vmm, spent, bootid, boot, made, used, file, host, receipts, leaks,
                    reqs, faults>>

\* finish_resize_intent: only while the VMM the intent names is still running.
Finish ==
    /\ job # None /\ job.step = "finish"
    /\ IF job.intent.vmm = Me /\ intent = job.intent
       THEN intent' = None /\ Durable /\ Goto("done")
       ELSE UNCHANGED <<intent, synced>> /\ Goto("failed")
    /\ UNCHANGED <<row, vmm, spent, bootid, boot, made, used, file, host, receipts, leaks,
                    reqs, faults>>

-----------------------------------------------------------------------------
(* Growth: the runtime, the row, the guest.                                 *)

\* What the command asks of whichever VMM answers on the control socket.
Asked == CASE Kind = "cpu" -> IF Size > job.base THEN Size ELSE job.base
           [] Kind = "mem" -> boot + (Size - job.base)
           [] Kind = "disk" -> Size

Max2(a, b) == IF a > b THEN a ELSE b
\* The runtime grows. The VMM that answers may have replaced the one the
\* command was computed for.
Grows ==
    /\ made' = [made EXCEPT ![Kind] = Asked]
    /\ file' = IF Kind = "disk" THEN Max2(file, Asked) ELSE file
    /\ leaks' = IF Kind = "mem" /\ job.base # boot /\ made' # made
                THEN leaks \cup {"stray"} ELSE leaks

\* The runtime creates vCPUs, registers RAM or grows the disk.
Make ==
    /\ job # None /\ job.step = "make"
    /\ IF Running /\ Asked \in Capacities /\ Asked >= made[Kind]
       THEN Grows /\ Goto("row")
       ELSE UNCHANGED <<made, file, leaks>> /\ Goto("failed")
    /\ UNCHANGED <<row, synced, vmm, spent, bootid, boot, used, host, intent, receipts, reqs,
                    faults>>

\* The reply is lost: the runtime has grown and the caller does not know.
MakeForgets ==    \* Mutant of MakeUnconfirmed: a lost reply clears the intent.
    /\ job # None /\ job.step = "make" /\ Fault
    /\ Running /\ Asked \in Capacities /\ Asked >= made[Kind]
    /\ Grows /\ Goto("failed")
    /\ intent' = None /\ Durable
    /\ UNCHANGED <<row, vmm, spent, bootid, boot, used, host, receipts, reqs>>
MakeUnconfirmed ==
    /\ job # None /\ job.step = "make" /\ Fault
    /\ Running /\ Asked \in Capacities /\ Asked >= made[Kind]
    /\ Grows /\ Goto("failed")
    /\ UNCHANGED <<row, synced, vmm, spent, bootid, boot, used, host, intent, receipts, reqs>>

\* The cgroup around the VMM has no room for more RAM, or its statistics cannot
\* be read: the intent is cleared. With no RAM left to register there is always
\* room, so then it is the statistics, and the RAM stays registered.
MemRefused ==
    /\ job # None /\ job.step = "make" /\ Kind = "mem" /\ Fault
    /\ intent' = None /\ Durable /\ Goto("failed")
    /\ leaks' = IF job.intent.vmm = Me /\ Size = made["mem"]
                THEN leaks \cup {"unread"} ELSE leaks
    /\ UNCHANGED <<row, vmm, spent, bootid, boot, made, used, file, host, receipts, reqs>>

\* What is read back before the row is written: the CPUs or the RAM of the
\* VMM that answers, or, after CPUs went offline, that it is the same VMM.
Verified ==
    CASE job.step = "shrunk" -> job.intent.vmm = Me
      [] Kind = "cpu" -> Running /\ made[Kind] = Asked
      [] Kind = "mem" -> Running /\ boot = job.base /\ made[Kind] = Size
      [] Kind = "disk" -> TRUE

\* update_vm: the row takes the target, in a commit a power loss may undo.
SetRow ==
    /\ job # None /\ job.step \in {"row", "shrunk"}
    /\ IF Verified
       THEN /\ row' = [row EXCEPT ![Kind] = Size]
            /\ Goto(IF job.step = "row" THEN "guest" ELSE "finish")
       ELSE UNCHANGED row /\ Goto("failed")
    /\ UNCHANGED <<synced, vmm, spent, bootid, boot, made, used, intent, receipts, reqs,
                    faults, leaks, file, host>>

\* What the agent requires: cpu_online_plan, cpu_offline_plan,
\* validate_capacity.
OnlinePlan(n) == used["cpu"] <= n /\ n <= made["cpu"]
OfflinePlan(n) == n <= used["cpu"]
CapacityIs(n) == made["disk"] = n

\* The agent of the VMM the job connected to accepts the request.
GuestAccepts ==
    /\ job.intent.vmm = Me
    /\ CASE job.step = "offline" -> OfflinePlan(Size)
         [] Kind = "cpu" -> OnlinePlan(Size)
         [] Kind = "mem" -> Size <= made[Kind]
         [] Kind = "disk" -> CapacityIs(Size)

\* online_cpus, online_memory or grow_filesystem after growth, offline_cpus
\* before the row of a shrink.
Guest(from, next) ==
    /\ job # None /\ job.step = from
    /\ IF GuestAccepts
       THEN used' = [used EXCEPT ![Kind] = Size] /\ Goto(next)
       ELSE UNCHANGED used /\ Goto("failed")
    /\ UNCHANGED <<row, synced, vmm, spent, bootid, boot, made, intent, receipts, reqs,
                    faults, leaks, file, host>>
GuestGrows == Guest("guest", "finish")
OfflineCpus == Guest("offline", "shrunk")

\* Some blocks or CPUs changed, or all of them and the reply was lost.
GuestStalls ==
    /\ job # None /\ job.step \in {"guest", "offline"} /\ GuestAccepts /\ Fault
    /\ \E n \in Sizes :
        /\ n \in used[Kind]..Size \/ n \in Size..used[Kind]
        /\ used' = [used EXCEPT ![Kind] = n]
    /\ Goto("failed")
    /\ UNCHANGED <<row, synced, vmm, spent, bootid, boot, made, file, host, intent, receipts,
                    leaks, reqs>>

\* No connection, no capability, no headroom, no status, a quota not set.
Refused ==
    /\ job # None /\ job.step \in {"begin", "make", "row", "offline", "shrunk"} /\ Fault
    /\ Goto("failed")
    /\ UNCHANGED <<row, synced, vmm, spent, bootid, boot, made, used, file, host, intent, receipts,
                    reqs, leaks>>

-----------------------------------------------------------------------------
(* Requests and their receipts: grow_checked.                               *)

\* RuntimeIdentity::validate, validate_boot and is_our_process_strict.
ObservedPidOnly(e) == Running /\ e.id = vmm    \* Mutant of Observed: the boot is not compared.
Observed(e) == Running /\ e = Me

\* begin_resize_receipt: the operation is new, or it is retried as it was.
Open(o, e, t) ==
    receipts[o] # None =>
        receipts[o].vmm = e /\ receipts[o].target = t /\ receipts[o].state = "Active"

\* resize_machine of the server (which holds the lifecycle lock as well) and
\* resize_vm of the command line, on a running machine.
Request(who, o, e, t) ==
    /\ job = None /\ SaidRunning /\ reqs < MaxReqs
    /\ who = "cli" => e = None
    /\ e = None => o = None
    /\ e # None => Observed(e)
    /\ o # None => Open(o, e, t)
    /\ IF o # None /\ receipts[o] = None
       THEN /\ receipts' = [receipts EXCEPT ![o] =
                  [vmm |-> e, target |-> t, original |-> row, state |-> "Active"]]
            /\ Durable
       ELSE UNCHANGED <<receipts, synced>>
    /\ job' = [who |-> who, op |-> o, expect |-> e, target |-> t, step |-> "begin",
               intent |-> None, base |-> 1]
    /\ reqs' = reqs + 1
    /\ UNCHANGED <<row, vmm, spent, bootid, boot, made, used, file, host, intent, leaks,
                    faults>>

\* The end of grow_checked: Applied after success; after an error Rejected,
\* if the operation is known to have changed nothing, and else still Active.
ChangedNothingByIntent(r) == intent = None    \* Mutant of ChangedNothing: no intent is enough.
ChangedNothing(r) == row = r.original /\ intent = None /\ Running /\ r.vmm = Me

Settle ==
    /\ job # None /\ job.step \in {"done", "failed"}
    /\ LET o == job.op IN
       IF o # None /\ (job.step = "done" \/ ChangedNothing(receipts[o]))
       THEN /\ receipts' = [receipts EXCEPT ![o].state =
                               IF job.step = "done" THEN "Applied" ELSE "Rejected"]
            /\ Durable
       ELSE UNCHANGED <<receipts, synced>>
    /\ job' = None
    /\ UNCHANGED <<row, vmm, spent, bootid, boot, made, used, file, host, intent, leaks,
                    reqs, faults>>

\* reconcile_pending: clear a RAM target the restarted machine has met, or
\* finish the intent of the VMM that is still running.
Reconcile ==
    /\ job = None /\ intent # None
    /\ \/ /\ Met(intent)
          /\ intent' = None /\ Durable /\ UNCHANGED job
       \/ /\ ~Met(intent) /\ intent.vmm = Me
          /\ job' = [who |-> "controller", op |-> None, expect |-> intent.vmm,
                     target |-> intent.target, step |-> "begin", intent |-> None, base |-> 1]
          /\ UNCHANGED <<intent, synced>>
    /\ UNCHANGED <<row, vmm, spent, bootid, boot, made, used, file, host, receipts, leaks,
                    reqs, faults>>

-----------------------------------------------------------------------------
(* The rest of the host.                                                    *)

\* machine update, and the offline disk growth of resize_machine and resize_vm:
\* the state is looked at first, and nothing keeps it so (the server's disk
\* growth holds its locks, which stop its own starts). No disk shrinks; CPUs
\* and RAM may.
UpdateLooks(k, n) ==
    /\ upd = None /\ ~SaidRunning /\ reqs < MaxReqs /\ n # row[k]
    /\ k = "disk" => n > row[k]
    /\ upd' = [k |-> k, n |-> n, grown |-> FALSE] /\ reqs' = reqs + 1
    /\ UNCHANGED <<row, synced, vmm, spent, bootid, boot, made, used, file, said, plan, intent,
                    receipts, job, leaks, faults>>

\* expand_disks: a file that is larger already refuses.
UpdateExpands ==
    /\ upd # None /\ upd.k = "disk" /\ ~upd.grown
    /\ IF upd.n >= file
       THEN file' = upd.n /\ upd' = [upd EXCEPT !.grown = TRUE]
       ELSE UNCHANGED file /\ upd' = None
    /\ UNCHANGED <<row, synced, vmm, spent, bootid, boot, made, used, said, plan, intent,
                    receipts, job, leaks, reqs, faults>>

\* update_vm, in a commit a power loss may undo.
UpdateWrites ==
    /\ upd # None /\ (upd.k = "disk" => upd.grown)
    /\ row' = [row EXCEPT ![upd.k] = upd.n] /\ upd' = None
    /\ leaks' = IF Running \/ plan # None THEN leaks \cup {"crossed"} ELSE leaks
    /\ UNCHANGED <<synced, vmm, spent, bootid, boot, made, used, file, said, plan, intent,
                    receipts, job, reqs, faults>>

UpdateDies ==
    /\ upd # None /\ Fault /\ upd' = None
    /\ UNCHANGED <<row, synced, vmm, spent, bootid, boot, made, used, file, said, plan, intent,
                    receipts, job, leaks, reqs>>

\* lifecycle_lock: the server's resizes and its controller hold it.
LifecycleFree == job # None => job.who = "cli"

\* A start reads the row, boots what it has read, and only then records that
\* the machine runs; the guest grows its filesystem to the disk. The server's
\* starts wait for the lifecycle lock. A start that is killed after the boot
\* leaves it to the next one to record the VMM it finds.
StartReads ==
    /\ ~Running /\ plan = None
    /\ CliStarts \/ LifecycleFree
    /\ plan' = row /\ leaks' = {}
    /\ UNCHANGED <<row, synced, vmm, spent, bootid, boot, made, used, file, said, upd, intent,
                    receipts, job, reqs, faults>>

StartBoots(i) ==
    /\ plan # None /\ i \notin spent
    /\ vmm' = i /\ spent' = spent \cup {i} /\ plan' = None /\ said' = FALSE
    /\ boot' = IF "mem" \in Kinds THEN plan["mem"] ELSE boot
    /\ made' = [k \in Kinds |-> IF k = "disk" THEN file ELSE plan[k]]
    /\ used' = made'
    /\ UNCHANGED <<row, synced, bootid, file, upd, intent, receipts, job, leaks, reqs, faults>>

StartPersists ==
    /\ Running /\ ~said /\ said' = TRUE
    /\ UNCHANGED <<row, synced, vmm, spent, bootid, boot, made, used, file, plan, upd, intent,
                    receipts, job, leaks, reqs, faults>>

StartDies ==
    /\ plan # None /\ Fault /\ plan' = None
    /\ UNCHANGED <<row, synced, vmm, spent, bootid, boot, made, used, file, said, upd, intent,
                    receipts, job, leaks, reqs>>

Exit ==
    /\ Running /\ Fault
    /\ vmm' = None /\ said' = FALSE
    /\ boot' = 1 /\ made' = Halted(made) /\ used' = Halted(used)
    /\ UNCHANGED <<row, synced, spent, bootid, file, plan, upd, intent, receipts, job, leaks,
                    reqs>>

\* The process that resizes is killed between two steps.
Crash ==
    /\ job # None /\ Fault /\ job' = None
    /\ UNCHANGED <<row, synced, vmm, spent, bootid, boot, made, used, file, host, intent, receipts,
                    reqs, leaks>>

\* The host reboots, or loses power and with it the commits that did not wait.
Reboot ==
    /\ bootid < MaxBoots /\ bootid' = bootid + 1
    /\ vmm' = None /\ spent' = {} /\ said' = FALSE /\ plan' = None /\ upd' = None
    /\ boot' = 1 /\ made' = Halted(made) /\ used' = Halted(used)
    /\ job' = None
    /\ row' \in {row, synced} /\ synced' = row'
    /\ UNCHANGED <<file, intent, receipts, leaks, reqs, faults>>

JobStep == GrowBegin \/ Make \/ SetRow \/ GuestGrows \/ OfflineCpus \/ Finish \/ Settle
JobFails == MakeUnconfirmed \/ MemRefused \/ GuestStalls \/ Refused \/ Crash

Next ==
    \/ JobStep \/ JobFails \/ Reconcile
    \/ \E w \in {"api", "cli"}, o \in Opt(Ops), t \in Targets :
            \E e \in Opt([id : Ids, boot : 0..bootid]) : Request(w, o, e, t)
    \/ \E k \in Kinds, n \in Sizes : UpdateLooks(k, n)
    \/ UpdateExpands \/ UpdateWrites \/ UpdateDies
    \/ \E i \in Ids : StartBoots(i)
    \/ StartReads \/ StartPersists \/ StartDies
    \/ Exit \/ Reboot

Spec == Init /\ [][Next]_vars
\* A resize runs to its end, and the controller comes back every ten seconds.
FairSpec == Spec /\ WF_vars(JobStep) /\ WF_vars(Reconcile)

-----------------------------------------------------------------------------
(* Properties.                                                              *)

\* The runtime and the guest have what the row records of a resource: CPUs are
\* online up to the row's count (slots a shrink left stay created), all RAM is
\* plugged, and each filesystem fills its disk, which holds what the row says.
Whole(k) ==
    /\ k = "cpu" => used[k] = row[k] /\ row[k] <= made[k]
    /\ k = "mem" => used[k] = row[k] /\ made[k] = row[k]
    /\ k = "disk" => used[k] = made[k] /\ row[k] <= made[k]
Complete == \A k \in Kinds : Whole(k)

\* require_completed_resize, under the source lock, of a running machine.
CaptureAllowed == job = None /\ SaidRunning /\ intent = None

\* An unfinished operation cannot leak partially applied geometry into a
\* branch or a checkpoint (require_completed_resize): a machine they may take
\* has, in its runtime and in its guest, what its row records. What a machine
\* update wrote behind the back of a start is not counted here.
CaptureIsWhole == CaptureAllowed /\ "crossed" \notin leaks => Complete

\* How such a leak may come about: from a RAM intent cleared or met on a VMM
\* that has RAM its row does not know of ("unread", "stray"), which concerns
\* RAM alone, or from a machine update that overtook a start ("crossed").
\* Otherwise, after any crash, exit, lost reply, restart or power loss,
\* whatever is unfinished is covered by the intent that refuses captures.
Excused(k) == "crossed" \in leaks \/ (k = "mem" /\ leaks # {})
LeaksAreKnown == CaptureAllowed => \A k \in Kinds : Whole(k) \/ Excused(k)

\* When no start goes past the lifecycle lock (CliStarts = FALSE), a resize
\* conditioned on the VMM its caller observed, and the controller's recovery of
\* an intent, change only that VMM: not the one that replaced it, nor one of
\* another boot of the host with the same pid and start time.
RightIncarnation ==
    job # None /\ job.expect # None /\ job.intent # None => job.intent.vmm = job.expect

\* The answer of an operation is final, and true of its VMM if that still runs:
\* Applied only when the guest has the target and, unless a machine update
\* overtook the start, the row too; and Rejected ("refused before changing
\* resources") only when the guest has the CPUs and the RAM the row recorded as
\* the operation was opened, unless one of the leaks concerns them.
AnswersAreTrue ==
    [][\A o \in Ops : receipts[o] # None /\ receipts'[o] # receipts[o] =>
        LET r == receipts[o] IN
        /\ r.state = "Active"
        /\ receipts'[o].state = "Rejected" =>
                \A k \in Kinds \ {"disk"} : used[k] = r.original[k] \/ Excused(k)
        /\ receipts'[o].state = "Applied" /\ Running /\ r.vmm = Me =>
                /\ used[r.target.k] = r.target.n
                /\ row[r.target.k] = r.target.n \/ "crossed" \in leaks]_vars

\* A disk that has outgrown the target of its intent: by an offline growth that
\* was killed before it wrote the row, or by one past the target.
Outgrown == intent # None /\ intent.target.k = "disk" /\ made["disk"] > intent.target.n

\* An unfinished resize of a VMM that keeps running is finished, by retries or
\* by the controller, however it was interrupted, unless it is outgrown or
\* a machine update that overtook the start has written another size.
UnfinishedEnds ==
    \A i \in Ids, b \in 0..MaxBoots :
        (intent # None /\ intent.vmm = [id |-> i, boot |-> b] /\ Me = intent.vmm)
            ~> (intent = None \/ Me # [id |-> i, boot |-> b] \/ Outgrown
                    \/ "crossed" \in leaks)
=============================================================================
