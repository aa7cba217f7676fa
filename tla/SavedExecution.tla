--------------------------- MODULE SavedExecution ---------------------------
(***************************************************************************)
(* Pause and resume of one machine: its row, its retry keys, its VMM       *)
(* process, its disks and the private recovery artifact, under pause,      *)
(* resume, start, stop and checkpoint requests, implicit starts and the    *)
(* supervisor's restarts, which several processes (the server, the command *)
(* line, an embedding program) serve at once and any of which may be       *)
(* killed between two steps.                                               *)
(*                                                                         *)
(* A request that is refused, or that finds nothing to do, changes nothing *)
(* and is left out. A pid stands for a process and its start time.         *)
(***************************************************************************)
EXTENDS Naturals

CONSTANTS
    Procs,      \* processes that serve requests; each serves one at a time
    Unlocked,   \* the command lines among them: their start takes no source lock
    Ops,        \* pause operation identifiers
    Arts,       \* names of recovery artifacts
    Vmms,       \* identities of VMM processes
    MaxWork,    \* bound: units of work the guest does
    MaxFaults,  \* bound: processes killed
    None

ASSUME UnlockedAssumption == Unlocked \subseteq Procs
ASSUME BoundAssumption == MaxWork \in Nat /\ MaxFaults \in Nat
ASSUME NoneAssumption == None \notin Procs \cup Ops \cup Arts \cup Vmms \cup (0..MaxWork)

VARIABLES
    rec,     \* the row of the machine: state, paused_checkpoint, pid
    ops,     \* vm_pause_operations: unknown, active or consumed
    vmm,     \* the VMM process, None when there is none
    arts,    \* the work a complete artifact holds, None if absent or incomplete
    disk,    \* the work that is on the disks in the machine's directory
    marker,  \* the paused-disks record
    known,   \* history: the work done by the guest that the row names
    task,    \* what each process is doing
    faults,
    loose    \* history: a start without the source lock met another request, or
             \* was killed between the launch of its VMM and its record

vars == <<rec, ops, vmm, arts, disk, marker, known, task, faults, loose>>

Work == 0..MaxWork
Opt(S) == S \cup {None}
Rows == [state : {"Running", "Pausing", "Paused", "Stopped"}, cp : Opt(Arts), pid : Opt(Vmms)]

PausePcs == {"pRecover", "pRecovered", "pFinishStop", "pCapture", "pIntent", "pSave", "pPack",
             "pDurable", "pStop", "pMark", "pRecord", "pFail", "pUndo", "pClean"}
CapturePcs == {"pIntent", "pSave", "pPack", "pDurable", "pStop", "pMark", "pFail"}
ResumePcs == {"rThaw", "rThawed", "rStop", "rInstall", "rLaunch", "rFinish", "rClean"}
StartPcs == {"sProbe", "sOrphan", "sReread", "sReprobe", "sKill", "sClear", "sEnsure", "sLaunch",
             "sCommit"}
\* Implicit starts (exec, files, images) and the supervisor's restarts.
ImplicitPcs == {"iLaunch", "uLaunch", "iCommit"}
StopPcs == {"tKill", "tCommit"}
CheckpointPcs == {"cSave", "cThaw"}
\* Where a process has a SavedVmPause, whose Drop wakes the guest.
GuardPcs == {"pPack", "pDurable", "pStop", "pFail", "cThaw"}

\* A request in service: where it is, its operation, the row it read, the
\* artifact it writes and the VMM it launched.
Tasks == [pc : {"idle"} \cup PausePcs \cup ResumePcs \cup StartPcs \cup ImplicitPcs \cup StopPcs
               \cup CheckpointPcs,
          op : Opt(Ops), seen : Rows, out : Opt(Arts), vm : Opt(Vmms)]

NoRow == [state |-> "Stopped", cp |-> None, pid |-> None]
Idle == [pc |-> "idle", op |-> None, seen |-> NoRow, out |-> None, vm |-> None]

Alive(pid) == vmm # None /\ pid = vmm.id
\* The agent answers a ping: a frozen guest does not.
Reachable == vmm # None /\ ~vmm.frozen

\* resolve_state of a row whose state is Running.
ResolvesRunning(row) == row.state = "Running" /\ Reachable
ResolvesUnreachable(row) == row.state = "Running" /\ Alive(row.pid) /\ ~Reachable

\* lock_saved_execution and lock_fork_source: files locked across processes.
SavedFree == \A q \in Procs : task[q].pc \notin PausePcs \cup ResumePcs
HoldsSourceToChange(q) ==    \* Mutant of HoldsSource: a checkpoint does not lock its source.
    \/ task[q].pc \in {"pRecovered"} \cup CapturePcs \cup ResumePcs \cup StopPcs
    \/ q \notin Unlocked /\ task[q].pc \in StartPcs
HoldsSource(q) ==
    \/ task[q].pc \in {"pRecovered"} \cup CapturePcs \cup ResumePcs \cup StopPcs \cup CheckpointPcs
    \/ q \notin Unlocked /\ task[q].pc \in StartPcs
SourceFree == \A q \in Procs : ~HoldsSource(q)

\* A start that does not take the source lock, and two requests it makes cross.
TakesNoLock(p, pc) == pc \in ImplicitPcs \/ (p \in Unlocked /\ pc \in StartPcs)
Crosses(p, pc) ==
    \E q \in Procs \ {p} : task[q].pc # "idle" /\ (TakesNoLock(p, pc) \/ TakesNoLock(q, task[q].pc))

Begin(p, pc, op) ==
    /\ task' = [task EXCEPT ![p] = [Idle EXCEPT !.pc = pc, !.op = op, !.seen = rec]]
    /\ loose' = (loose \/ Crosses(p, pc))
Goto(p, pc) == task' = [task EXCEPT ![p].pc = pc]
Done(p) == task' = [task EXCEPT ![p] = Idle]

\* A process identity nothing refers to.
FreshVmm(v) == v # rec.pid /\ \A q \in Procs : v # task[q].seen.pid /\ v # task[q].vm
\* create_reservation_token: an artifact name nothing refers to.
FreshArt(a) == a # rec.cp /\ \A q \in Procs : a # task[q].out /\ a # task[q].seen.cp

\* The history once the row names pid.
NamedWork(pid) == IF Alive(pid) THEN vmm.at ELSE known

\* finish_saved_execution: commit the row and retire the retry keys together.
Consumed == [o \in Ops |-> IF ops[o] = "active" THEN "consumed" ELSE ops[o]]

TypeOK ==
    /\ rec \in Rows
    /\ ops \in [Ops -> {"unknown", "active", "consumed"}]
    /\ vmm \in Opt([id : Vmms, frozen : BOOLEAN, at : Work, own : BOOLEAN])
    /\ arts \in [Arts -> Opt(Work)]
    /\ disk \in Work /\ known \in Work
    /\ marker \in Opt([art : Arts, at : Work])
    /\ task \in [Procs -> Tasks]
    /\ faults \in 0..MaxFaults /\ loose \in BOOLEAN

\* A machine that has been started once.
Init ==
    /\ \E v \in Vmms :
        /\ rec = [state |-> "Running", cp |-> None, pid |-> v]
        /\ vmm = [id |-> v, frozen |-> FALSE, at |-> 0, own |-> TRUE]
    /\ ops = [o \in Ops |-> "unknown"]
    /\ arts = [a \in Arts |-> None]
    /\ disk = 0 /\ known = 0 /\ marker = None
    /\ task = [p \in Procs |-> Idle]
    /\ faults = 0 /\ loose = FALSE

-----------------------------------------------------------------------------
(* Pause: pause_machine_inner and the capture it calls.                     *)

\* claim_pause_operation: a retry of the active pause, or a first request of a
\* machine without a saved execution and without another pending pause.
Claimable(o) ==
    \/ ops[o] = "active"
    \/ ops[o] = "unknown" /\ rec.cp = None /\ \A q \in Ops : ops[q] # "active"

PausePath(op) ==
    CASE op # None /\ rec.state = "Pausing" /\ Alive(rec.pid) -> "pRecover"
      [] op # None /\ rec.state = "Paused" /\ Alive(rec.pid) -> "pFinishStop"
      [] rec.cp = None -> "pCapture"
      [] OTHER -> "idle"

PauseBegin(p, op) ==
    /\ task[p].pc = "idle" /\ SavedFree
    /\ op # None => Claimable(op)
    /\ PausePath(op) # "idle"
    /\ ops' = IF op = None THEN ops ELSE [ops EXCEPT ![op] = "active"]
    /\ Begin(p, PausePath(op), op)
    /\ UNCHANGED <<rec, vmm, arts, disk, marker, known, faults>>

\* An earlier capture died and left the guest frozen: wake it, then say so.
PauseRecover(p) ==
    /\ task[p].pc = "pRecover" /\ SourceFree
    /\ \/ Done(p) /\ UNCHANGED vmm      \* RESUME failed
       \/ vmm # None /\ Goto(p, "pRecovered") /\ vmm' = [vmm EXCEPT !.frozen = FALSE]
    /\ UNCHANGED <<rec, ops, arts, disk, marker, known, faults, loose>>

PauseRecovered(p) ==
    /\ task[p].pc = "pRecovered"
    /\ rec' = [rec EXCEPT !.cp = None, !.state = "Running"]
    /\ task' = [task EXCEPT ![p].pc = "pCapture", ![p].seen = rec']
    /\ UNCHANGED <<ops, vmm, arts, disk, marker, known, faults, loose>>

\* Mutant of PauseFinishStop: the VMM is ended without asking whether it still runs.
PauseFinishStopAnyway(p) ==
    /\ task[p].pc = "pFinishStop" /\ SourceFree
    /\ vmm' = IF arts[task[p].seen.cp] # None THEN None ELSE vmm
    /\ Done(p)
    /\ UNCHANGED <<rec, ops, arts, disk, marker, known, faults, loose>>

\* An earlier pause died between its commit and the end of the VMM.
PauseFinishStop(p) ==
    /\ task[p].pc = "pFinishStop" /\ SourceFree
    /\ vmm' = IF arts[task[p].seen.cp] # None /\ vmm # None /\ vmm.frozen THEN None ELSE vmm
    /\ Done(p)
    /\ UNCHANGED <<rec, ops, arts, disk, marker, known, faults, loose>>

\* validated_capture_source, again under the source lock.
PauseCapture(p) ==
    /\ task[p].pc = "pCapture" /\ SourceFree
    /\ IF ResolvesRunning(rec) THEN Goto(p, "pIntent") ELSE Done(p)
    /\ UNCHANGED <<rec, ops, vmm, arts, disk, marker, known, faults, loose>>

\* PauseCaptureStage::Capturing: the intent is durable before the guest freezes.
PauseIntent(p, a) ==
    /\ task[p].pc = "pIntent" /\ FreshArt(a)
    /\ marker' = None
    /\ arts' = [arts EXCEPT ![a] = None]
    /\ rec' = [rec EXCEPT !.cp = a, !.state = "Pausing"]
    /\ task' = [task EXCEPT ![p].pc = "pSave", ![p].out = a]
    /\ UNCHANGED <<ops, vmm, disk, known, faults, loose>>

\* The VMM has frozen the guest and says so; from here on a guard wakes it.
PauseSave(p) ==
    /\ task[p].pc = "pSave" /\ vmm # None
    /\ vmm' = [vmm EXCEPT !.frozen = TRUE]
    /\ Goto(p, "pPack")
    /\ UNCHANGED <<rec, ops, arts, disk, marker, known, faults, loose>>

\* The artifact is complete: memory read from the frozen VMM, disks, layers.
PausePack(p) ==
    /\ task[p].pc = "pPack" /\ vmm # None
    /\ arts' = [arts EXCEPT ![task[p].out] = vmm.at]
    /\ Goto(p, "pDurable")
    /\ UNCHANGED <<rec, ops, vmm, disk, marker, known, faults, loose>>

\* Mutant of PauseDurable: the row says Paused while the artifact is being written.
PauseDurableEarly(p) ==
    /\ task[p].pc \in {"pPack", "pDurable"}
    /\ rec' = [rec EXCEPT !.cp = task[p].out, !.state = "Paused"]
    /\ Goto(p, "pStop")
    /\ UNCHANGED <<ops, vmm, arts, disk, marker, known, faults, loose>>

\* PauseCaptureStage::Durable: the resume point is durable before the VMM ends.
PauseDurable(p) ==
    /\ task[p].pc = "pDurable"
    /\ rec' = [rec EXCEPT !.cp = task[p].out, !.state = "Paused"]
    /\ Goto(p, "pStop")
    /\ UNCHANGED <<ops, vmm, arts, disk, marker, known, faults, loose>>

PauseStop(p) ==
    /\ task[p].pc = "pStop"
    /\ vmm' = None
    /\ Goto(p, "pMark")
    /\ UNCHANGED <<rec, ops, arts, disk, marker, known, faults, loose>>

\* record_paused_disks: best effort, and only if the disks are the captured ones.
PauseMark(p) ==
    /\ task[p].pc = "pMark"
    /\ \/ marker' = None
       \/ disk = arts[task[p].out] /\ marker' = [art |-> task[p].out, at |-> disk]
    /\ Goto(p, "pRecord")
    /\ UNCHANGED <<rec, ops, vmm, arts, disk, known, faults, loose>>

PauseRecord(p) ==
    /\ task[p].pc = "pRecord"
    /\ rec' = [rec EXCEPT !.state = "Paused", !.pid = None]
    /\ Done(p)
    /\ UNCHANGED <<ops, vmm, arts, disk, marker, known, faults, loose>>

\* PREPARE_SAVE or SAVE fails, with the guest running or, when the reply is lost,
\* frozen: there is no guard yet. (Also of a checkpoint.)
SaveFails(p) ==
    /\ task[p].pc \in {"pSave", "cSave"}
    /\ \/ UNCHANGED vmm
       \/ vmm # None /\ vmm' = [vmm EXCEPT !.frozen = TRUE]
    /\ IF task[p].pc = "pSave" THEN Goto(p, "pUndo") ELSE Done(p)
    /\ UNCHANGED <<rec, ops, arts, disk, marker, known, faults, loose>>

\* Mutant of PauseFails: the guard that wakes the guest is forgotten.
PauseFailsFrozen(p) ==
    /\ task[p].pc \in {"pPack", "pDurable", "pStop"}
    /\ Goto(p, "pUndo")
    /\ UNCHANGED <<rec, ops, vmm, arts, disk, marker, known, faults, loose>>

\* Any step of the capture may fail; it must once the VMM has exited.
PauseFails(p) ==
    /\ task[p].pc \in {"pPack", "pDurable", "pStop"}
    /\ Goto(p, "pFail")
    /\ UNCHANGED <<rec, ops, vmm, arts, disk, marker, known, faults, loose>>

\* Drop of SavedVmPause: the guest goes on.
PauseWakes(p) ==
    /\ task[p].pc = "pFail"
    /\ vmm' = IF vmm = None THEN None ELSE [vmm EXCEPT !.frozen = FALSE]
    /\ Goto(p, "pUndo")
    /\ UNCHANGED <<rec, ops, arts, disk, marker, known, faults, loose>>

\* The RESUME of a guard fails, which is logged: the guest stays frozen. (Also of a
\* checkpoint.)
GuardFails(p) ==
    /\ task[p].pc \in {"pFail", "cThaw"} /\ vmm # None
    /\ IF task[p].pc = "pFail" THEN Goto(p, "pUndo") ELSE Done(p)
    /\ UNCHANGED <<rec, ops, vmm, arts, disk, marker, known, faults, loose>>

\* The row is only taken back if the original runs; otherwise it keeps the artifact.
PauseUndo(p) ==
    /\ task[p].pc = "pUndo"
    /\ IF Alive(task[p].seen.pid) /\ Reachable
       THEN /\ rec' = IF rec.cp = task[p].out THEN [rec EXCEPT !.cp = None, !.state = "Running"]
                      ELSE rec
            /\ Goto(p, "pClean")
       ELSE Done(p) /\ UNCHANGED rec
    /\ UNCHANGED <<ops, vmm, arts, disk, marker, known, faults, loose>>

PauseClean(p) ==
    /\ task[p].pc = "pClean"
    /\ arts' = [arts EXCEPT ![task[p].out] = None]
    /\ Done(p)
    /\ UNCHANGED <<rec, ops, vmm, disk, marker, known, faults, loose>>

-----------------------------------------------------------------------------
(* Resume: resume_machine_inner and resume_vm, under both locks throughout. *)

ResumePath ==
    CASE rec.cp # None /\ Alive(rec.pid) /\ rec.state = "Pausing" -> "rThaw"
      [] rec.cp # None /\ Alive(rec.pid) /\ rec.state # "Pausing" /\ vmm.frozen -> "rStop"
      [] rec.cp # None /\ ~Alive(rec.pid) -> "rInstall"
      [] OTHER -> "idle"      \* still running: refused; no saved execution: see ResumeRunning

ResumeBegin(p, op) ==
    /\ task[p].pc = "idle" /\ SavedFree /\ SourceFree
    /\ op # None => ops[op] = "active"
    /\ ResumePath # "idle"
    /\ Begin(p, ResumePath, op)
    /\ UNCHANGED <<rec, ops, vmm, arts, disk, marker, known, faults>>

\* Mutant of ResumeRunning: the operation lock is not taken.
ResumeRunningUnlocked(p, op) ==
    /\ task[p].pc = "idle" /\ SourceFree
    /\ op # None => ops[op] = "active"
    /\ rec.cp = None /\ rec.state = "Running" /\ Alive(rec.pid)
    /\ ops' = Consumed
    /\ UNCHANGED <<rec, vmm, arts, disk, marker, known, task, faults, loose>>

\* Nothing is saved and the machine runs: only the retry keys are retired.
ResumeRunning(p, op) ==
    /\ task[p].pc = "idle" /\ SavedFree /\ SourceFree
    /\ op # None => ops[op] = "active"
    /\ rec.cp = None /\ rec.state = "Running" /\ Alive(rec.pid)
    /\ ops' = Consumed
    /\ UNCHANGED <<rec, vmm, arts, disk, marker, known, task, faults, loose>>

\* The capture was interrupted before its commit: the original goes on.
ResumeThaw(p) ==
    /\ task[p].pc = "rThaw"
    /\ \/ Done(p) /\ UNCHANGED vmm      \* RESUME failed
       \/ vmm # None /\ Goto(p, "rThawed") /\ vmm' = [vmm EXCEPT !.frozen = FALSE]
    /\ UNCHANGED <<rec, ops, arts, disk, marker, known, faults, loose>>

ResumeThawed(p) ==
    /\ task[p].pc = "rThawed"
    /\ rec' = [rec EXCEPT !.cp = None, !.state = "Running"]
    /\ ops' = Consumed
    /\ Done(p)
    /\ UNCHANGED <<vmm, arts, disk, marker, known, faults, loose>>

ResumeStop(p) ==
    /\ task[p].pc = "rStop"
    /\ vmm' = None
    /\ Goto(p, "rInstall")
    /\ UNCHANGED <<rec, ops, arts, disk, marker, known, faults, loose>>

\* Mutant of DisksIntact: the disks in the directory are taken as they are.
DisksPresent(a) == TRUE

\* paused_disks_intact: the record is of this artifact and the disks are as recorded.
DisksIntact(a) == marker # None /\ marker.art = a /\ marker.at = disk

\* Mutant of ResumeInstall: an incomplete artifact is not refused.
ResumeInstallUnverified(p) ==
    LET a == task[p].seen.cp IN
    /\ task[p].pc = "rInstall" /\ ~Alive(task[p].seen.pid)
    /\ IF DisksIntact(a) THEN UNCHANGED <<disk, vmm>>
       ELSE disk' = arts[a] /\ vmm' = IF vmm = None THEN None ELSE [vmm EXCEPT !.own = FALSE]
    /\ marker' = None
    /\ Goto(p, "rLaunch")
    /\ UNCHANGED <<rec, ops, arts, known, faults, loose>>

\* prepare_paused_restore. It asks the row it read whether the source has stopped.
\* Replaced disks leave a VMM that has the old ones open with files nobody names.
ResumeInstall(p) ==
    LET a == task[p].seen.cp IN
    /\ task[p].pc = "rInstall"
    /\ ~Alive(task[p].seen.pid) /\ arts[a] # None
    /\ IF DisksIntact(a) THEN UNCHANGED <<disk, vmm>>
       ELSE disk' = arts[a] /\ vmm' = IF vmm = None THEN None ELSE [vmm EXCEPT !.own = FALSE]
    /\ marker' = None
    /\ Goto(p, "rLaunch")
    /\ UNCHANGED <<rec, ops, arts, known, faults, loose>>

\* ensure_running_with_full_config: a VMM that answers is taken over; one that is
\* alive and does not answer forbids the launch; otherwise the memory is restored.
ResumeLaunch(p) ==
    /\ task[p].pc = "rLaunch"
    /\ \/ /\ Reachable
          /\ task' = [task EXCEPT ![p].pc = "rFinish", ![p].vm = vmm.id]
          /\ UNCHANGED vmm
       \/ /\ vmm = None
          /\ \E v \in Vmms :
                /\ FreshVmm(v)
                /\ vmm' = [id |-> v, frozen |-> FALSE, at |-> arts[task[p].seen.cp], own |-> TRUE]
                /\ task' = [task EXCEPT ![p].pc = "rFinish", ![p].vm = v]
    /\ UNCHANGED <<rec, ops, arts, disk, marker, known, faults, loose>>

ResumeFinish(p) ==
    /\ task[p].pc = "rFinish"
    /\ rec' = [state |-> "Running", cp |-> None, pid |-> task[p].vm]
    /\ known' = NamedWork(task[p].vm)
    /\ ops' = Consumed
    /\ Goto(p, "rClean")
    /\ UNCHANGED <<vmm, arts, disk, marker, faults, loose>>

ResumeClean(p) ==
    /\ task[p].pc = "rClean"
    /\ arts' = [arts EXCEPT ![task[p].seen.cp] = None]
    /\ Done(p)
    /\ UNCHANGED <<rec, ops, vmm, disk, marker, known, faults, loose>>

\* Mutant of ResumeFails: a launch that could not be recorded leaves its VMM.
ResumeFailsLeavesVmm(p) ==
    /\ task[p].pc \in {"rStop", "rInstall", "rLaunch", "rFinish"}
    /\ Done(p)
    /\ UNCHANGED <<rec, ops, vmm, arts, disk, marker, known, faults, loose>>

\* Installing or launching fails, or the artifact is not usable: nothing is kept
\* of the attempt. A launch whose probe or commit fails stops its VMM.
ResumeFails(p) ==
    /\ task[p].pc \in {"rStop", "rInstall", "rLaunch", "rFinish"}
    /\ vmm' = IF task[p].pc = "rFinish" THEN None ELSE vmm
    /\ Done(p)
    /\ UNCHANGED <<rec, ops, arts, disk, marker, known, faults, loose>>

-----------------------------------------------------------------------------
(* Start, stop and checkpoint, as far as they meet a saved execution.       *)

\* The server looks for the saved execution, the command line for the state.
StartBegin(p) ==
    /\ task[p].pc = "idle"
    /\ IF p \in Unlocked THEN rec.state \notin {"Pausing", "Paused"}
       ELSE SourceFree /\ rec.cp = None
    /\ Begin(p, "sProbe", None)
    /\ UNCHANGED <<rec, ops, vmm, arts, disk, marker, known, faults>>

StartProbe(p) ==
    /\ task[p].pc = "sProbe"
    /\ \/ ResolvesRunning(task[p].seen) /\ Done(p) /\ UNCHANGED rec
       \/ ResolvesUnreachable(task[p].seen) /\ Goto(p, "sReread") /\ UNCHANGED rec
       \/ /\ ~ResolvesRunning(task[p].seen) /\ ~ResolvesUnreachable(task[p].seen)
          /\ IF p \in Unlocked THEN Goto(p, "sOrphan") /\ UNCHANGED rec
             ELSE Goto(p, "sEnsure") /\ rec' = [rec EXCEPT !.state = "Stopped", !.pid = None]
    /\ UNCHANGED <<ops, vmm, arts, disk, marker, known, faults, loose>>

\* kill_orphaned_boot_process: whatever the pid file names, the row or not.
StartOrphan(p) ==
    /\ task[p].pc = "sOrphan"
    /\ vmm' = None
    /\ Goto(p, "sEnsure")
    /\ UNCHANGED <<rec, ops, arts, disk, marker, known, faults, loose>>

\* recover_if_unreachable reads and probes once more, then kills what it saw.
StartReread(p) ==
    /\ task[p].pc = "sReread"
    /\ task' = [task EXCEPT ![p].pc = "sReprobe", ![p].seen = rec]
    /\ UNCHANGED <<rec, ops, vmm, arts, disk, marker, known, faults, loose>>

StartReprobe(p) ==
    /\ task[p].pc = "sReprobe"
    /\ IF ResolvesUnreachable(task[p].seen) THEN Goto(p, "sKill")
       ELSE IF p \in Unlocked THEN Goto(p, "sEnsure") ELSE Done(p)
    /\ UNCHANGED <<rec, ops, vmm, arts, disk, marker, known, faults, loose>>

StartKill(p) ==
    /\ task[p].pc = "sKill"
    /\ vmm' = IF Alive(task[p].seen.pid) THEN None ELSE vmm
    /\ Goto(p, "sClear")
    /\ UNCHANGED <<rec, ops, arts, disk, marker, known, faults, loose>>

StartClear(p) ==
    /\ task[p].pc = "sClear"
    /\ rec' = [rec EXCEPT !.state = "Stopped", !.pid = None]
    /\ Goto(p, "sEnsure")
    /\ UNCHANGED <<ops, vmm, arts, disk, marker, known, faults, loose>>

\* ensure_running_with_full_config of the command line looks at the row once more
\* before it launches; ensure_running_via_subprocess of the server does not.
StartEnsure(p) ==
    /\ task[p].pc = "sEnsure"
    /\ IF p \in Unlocked /\ rec.cp # None THEN Done(p) ELSE Goto(p, "sLaunch")
    /\ UNCHANGED <<rec, ops, vmm, arts, disk, marker, known, faults, loose>>

\* A fresh boot knows what is on the disks.
Boots(p, pc) ==
    /\ vmm = None
    /\ \E v \in Vmms :
        /\ FreshVmm(v)
        /\ vmm' = [id |-> v, frozen |-> FALSE, at |-> disk, own |-> TRUE]
        /\ task' = [task EXCEPT ![p].pc = pc, ![p].vm = v]

\* A VMM that answers is taken over; one that does not forbids the launch, which
\* may also fail.
Launches(p, pc) ==
    \/ /\ Reachable
       /\ task' = [task EXCEPT ![p].pc = pc, ![p].vm = vmm.id]
       /\ UNCHANGED vmm
    \/ ~Reachable /\ Done(p) /\ UNCHANGED vmm
    \/ Boots(p, pc)

StartLaunch(p) ==
    /\ task[p].pc = "sLaunch" /\ Launches(p, "sCommit")
    /\ UNCHANGED <<rec, ops, arts, disk, marker, known, faults, loose>>

\* The start has its VMM: the row says so, as the last step of every start.
StartCommit(p) ==
    /\ task[p].pc \in {"sCommit", "iCommit"}
    /\ rec' = [rec EXCEPT !.state = "Running", !.pid = task[p].vm]
    /\ known' = NamedWork(task[p].vm)
    /\ Done(p)
    /\ UNCHANGED <<ops, vmm, arts, disk, marker, faults, loose>>

\* Mutant of ImplicitBegin: a machine with a saved execution is not refused.
ImplicitBeginSaved(p) ==
    /\ task[p].pc = "idle" /\ p \notin Unlocked
    /\ Begin(p, "iLaunch", None)
    /\ UNCHANGED <<rec, ops, vmm, arts, disk, marker, known, faults>>

\* ensure_running_and_persist: under the lifecycle lock of the server only.
ImplicitBegin(p) ==
    /\ task[p].pc = "idle" /\ p \notin Unlocked
    /\ rec.cp = None
    /\ Begin(p, "iLaunch", None)
    /\ UNCHANGED <<rec, ops, vmm, arts, disk, marker, known, faults>>

ImplicitLaunch(p) ==
    /\ task[p].pc = "iLaunch" /\ Launches(p, "iCommit")
    /\ UNCHANGED <<rec, ops, arts, disk, marker, known, faults, loose>>

\* check_machine finds a machine without a process and without a saved execution.
RestartBegin(p) ==
    /\ task[p].pc = "idle" /\ p \notin Unlocked
    /\ vmm = None /\ rec.cp = None
    /\ Begin(p, "uLaunch", None)
    /\ UNCHANGED <<rec, ops, vmm, arts, disk, marker, known, faults>>

\* restart_machine asks again whether the machine lives, and nothing else.
RestartLaunch(p) ==
    /\ task[p].pc = "uLaunch"
    /\ \/ vmm # None /\ Done(p) /\ UNCHANGED vmm
       \/ Boots(p, "iCommit")
    /\ UNCHANGED <<rec, ops, arts, disk, marker, known, faults, loose>>

\* The policy wants no restart, or the launch failed (Failed is Stopped here).
RestartStops(p) ==
    /\ task[p].pc = "uLaunch"
    /\ rec' = [rec EXCEPT !.state = "Stopped", !.pid = None]
    /\ Done(p)
    /\ UNCHANGED <<ops, vmm, arts, disk, marker, known, faults, loose>>

StopBegin(p) ==
    /\ task[p].pc = "idle" /\ SourceFree
    /\ rec.cp = None
    /\ Begin(p, "tKill", None)
    /\ UNCHANGED <<rec, ops, vmm, arts, disk, marker, known, faults>>

\* The command line leaves the row of a machine that does not run as it is.
StopKill(p) ==
    /\ task[p].pc = "tKill"
    /\ vmm' = None
    /\ IF p \in Unlocked /\ ~ResolvesRunning(task[p].seen) /\ ~ResolvesUnreachable(task[p].seen)
       THEN Done(p) ELSE Goto(p, "tCommit")
    /\ UNCHANGED <<rec, ops, arts, disk, marker, known, faults, loose>>

StopCommit(p) ==
    /\ task[p].pc = "tCommit"
    /\ rec' = [rec EXCEPT !.state = "Stopped", !.pid = None]
    /\ Done(p)
    /\ UNCHANGED <<ops, vmm, arts, disk, marker, known, faults, loose>>

\* capture_to_path: the guest is frozen for a while and the row does not say so.
CheckpointBegin(p) ==
    /\ task[p].pc = "idle" /\ SourceFree
    /\ ResolvesRunning(rec)
    /\ Begin(p, "cSave", None)
    /\ UNCHANGED <<rec, ops, vmm, arts, disk, marker, known, faults>>

CheckpointSave(p) ==
    /\ task[p].pc = "cSave" /\ vmm # None
    /\ vmm' = [vmm EXCEPT !.frozen = TRUE]
    /\ Goto(p, "cThaw")
    /\ UNCHANGED <<rec, ops, arts, disk, marker, known, faults, loose>>

CheckpointThaw(p) ==
    /\ task[p].pc = "cThaw"
    /\ vmm' = IF vmm = None THEN None ELSE [vmm EXCEPT !.frozen = FALSE]
    /\ Done(p)
    /\ UNCHANGED <<rec, ops, arts, disk, marker, known, faults, loose>>

-----------------------------------------------------------------------------
(* The world.                                                               *)

\* The guest works and its disks follow, if they are still the machine's.
GuestWorks ==
    /\ Reachable /\ vmm.at < MaxWork
    /\ vmm' = [vmm EXCEPT !.at = @ + 1]
    /\ disk' = IF vmm.own THEN vmm.at + 1 ELSE disk
    /\ known' = IF Alive(rec.pid) THEN vmm.at + 1 ELSE known
    /\ UNCHANGED <<rec, ops, arts, marker, task, faults, loose>>

VmmExits ==
    /\ vmm # None
    /\ vmm' = None
    /\ UNCHANGED <<rec, ops, arts, disk, marker, known, task, faults, loose>>

\* A process is killed; its locks go, the VMM stays.
Crash(p) ==
    /\ task[p].pc # "idle" /\ faults < MaxFaults
    /\ Done(p)
    /\ faults' = faults + 1
    /\ loose' = (loose \/ (task[p].pc \in {"sCommit", "iCommit"} /\ TakesNoLock(p, task[p].pc)))
    /\ UNCHANGED <<rec, ops, vmm, arts, disk, marker, known>>

\* load_persisted_machines of a server that starts.
Reload ==
    /\ rec.cp = None /\ rec.pid # None /\ ~Alive(rec.pid)
    /\ rec' = [rec EXCEPT !.state = "Stopped", !.pid = None]
    /\ UNCHANGED <<ops, vmm, arts, disk, marker, known, task, faults, loose>>

PauseStep(p) ==
    \/ PauseRecover(p) \/ PauseRecovered(p) \/ PauseFinishStop(p) \/ PauseCapture(p)
    \/ \E a \in Arts : PauseIntent(p, a)
    \/ PauseSave(p) \/ PausePack(p) \/ PauseDurable(p) \/ PauseStop(p) \/ PauseMark(p)
    \/ PauseRecord(p) \/ PauseFails(p) \/ PauseWakes(p) \/ PauseUndo(p) \/ PauseClean(p)
    \/ SaveFails(p) \/ GuardFails(p)
ResumeStep(p) ==
    \/ ResumeThaw(p) \/ ResumeThawed(p) \/ ResumeStop(p) \/ ResumeInstall(p) \/ ResumeLaunch(p)
    \/ ResumeFinish(p) \/ ResumeClean(p) \/ ResumeFails(p)
StartStep(p) ==
    \/ StartProbe(p) \/ StartOrphan(p) \/ StartReread(p) \/ StartReprobe(p) \/ StartKill(p)
    \/ StartClear(p) \/ StartEnsure(p) \/ StartLaunch(p) \/ StartCommit(p)
ImplicitStep(p) == ImplicitLaunch(p) \/ RestartLaunch(p) \/ RestartStops(p)
StopStep(p) == StopKill(p) \/ StopCommit(p)
CheckpointStep(p) == CheckpointSave(p) \/ CheckpointThaw(p)
Step(p) ==
    \/ PauseStep(p) \/ ResumeStep(p) \/ StartStep(p) \/ ImplicitStep(p) \/ StopStep(p)
    \/ CheckpointStep(p)

Request(p) ==
    \/ \E op \in Opt(Ops) : PauseBegin(p, op) \/ ResumeBegin(p, op) \/ ResumeRunning(p, op)
    \/ StartBegin(p) \/ ImplicitBegin(p) \/ RestartBegin(p) \/ StopBegin(p) \/ CheckpointBegin(p)

Next ==
    \/ \E p \in Procs : Request(p) \/ Step(p) \/ Crash(p)
    \/ GuestWorks \/ VmmExits \/ Reload

Spec == Init /\ [][Next]_vars

-----------------------------------------------------------------------------
(* Properties. Most of them hold as long as starts that take no source lock    *)
(* keep to themselves; what happens otherwise is in the README.                *)

\* Until a start without the source lock crosses another request or dies before
\* its record, a row that says Paused names a complete artifact, and once
\* pause_machine_inner has returned the artifact holds everything the guest did:
\* no crash, retry or concurrent request leaves a paused machine whose execution
\* is lost or old.
PausedIsSaved ==
    ~loose /\ rec.state = "Paused" =>
        /\ rec.cp # None /\ arts[rec.cp] # None
        /\ rec.pid = None => arts[rec.cp] = known

\* Until a start is loose, stop_paused, wherever pause and resume call it, ends a
\* VMM only when the artifact the row names holds all of its work: a capture that
\* failed after its commit woke the guest, and what it did since is not thrown away.
StopsOnlySaved ==
    [][\A p \in Procs :
        ~loose /\ task[p].pc \in {"pFinishStop", "pStop", "rStop"} /\ vmm # None /\ vmm' = None
            /\ task' # task =>
        arts[rec.cp] = vmm.at]_vars

\* Until a start is loose, the memory of the VMM that writes the machine's disks
\* and those disks are of the same moment: paused_disks_intact may keep the disks
\* only if nothing wrote them since the capture, also when an earlier attempt to
\* resume died midway.
MemoryMatchesDisks == ~loose /\ vmm # None /\ vmm.own => vmm.at = disk

\* A retry key is retired once. No capture runs for a key that a resume has
\* consumed, so a late retry of a pause cannot pause the resumed machine again.
SpentOperationsRest ==
    \A p \in Procs : task[p].pc \in CapturePcs /\ task[p].op # None => ops[task[p].op] = "active"

\* Until a start is loose, a machine with a saved execution is never booted
\* afresh, which would discard it, neither by a request nor by the supervisor:
\* "Ordinary start and stop refuse a paused machine".
NoFreshBoot ==
    [][~loose /\ vmm = None /\ vmm' # None /\ rec.cp # None =>
        \E p \in Procs : task[p].pc = "rLaunch"]_vars

\* A machine that runs has its disks under their names: prepare_paused_restore
\* replaces the disks only once no VMM uses them.
RunsOnItsDisks == ~loose /\ rec.state = "Running" /\ Alive(rec.pid) => vmm.own

\* As long as no process was killed between launching a VMM and recording it,
\* whatever failed or was retried, RunsOnItsDisks holds.
UnkilledRunsOnItsDisks == faults = 0 => RunsOnItsDisks

\* recover_if_unreachable kills genuine zombies, never a guest that a capture in
\* another process has frozen for a while.
KillsOnlyZombies ==
    \A p, q \in Procs : task[p].pc = "sKill" /\ Alive(task[p].seen.pid) =>
        task[q].pc \notin {"pPack", "pDurable", "pStop", "cThaw"}

\* KillsOnlyZombies holds until a start is loose: two looks at the machine do not
\* tell a capture from a zombie, only the source lock keeps the start away from it.
LockedKillsOnlyZombies == ~loose => KillsOnlyZombies

Frozen == vmm # None /\ vmm.frozen
Guarded == \E p \in Procs : task[p].pc \in GuardPcs

\* Whichever step of a pause or a checkpoint fails, a guard is there to wake the
\* guest it froze. A guest is left frozen by nobody's guard only when a process is
\* killed, when the reply to SAVE is lost or when the guard's own RESUME fails.
FrozenIsGuarded ==
    [][Frozen' /\ ~Guarded' =>
        \/ Frozen /\ ~Guarded
        \/ \E p \in Procs : Crash(p) \/ SaveFails(p) \/ GuardFails(p)]_vars
=============================================================================
