------------------------ MODULE SavedExecutionProofs ------------------------
(***************************************************************************)
(* Theorems about SavedExecution, for every number of processes, retry     *)
(* keys, artifacts and kills, and any amount of guest work.                *)
(***************************************************************************)
EXTENDS SavedExecution, TLAPS

-----------------------------------------------------------------------------
(* The invariant *)

HoldsSaved(p) == task[p].pc \in PausePcs \cup ResumePcs

\* Each of the two lock files has one owner at most.
Locks ==
    \A p, q \in Procs : p # q => /\ ~(HoldsSaved(p) /\ HoldsSaved(q))
                                 /\ ~(HoldsSource(p) /\ HoldsSource(q))

\* Where a capture has chosen its artifact, and where a resume reads the one it saw.
OutPcs == {"pSave", "pPack", "pDurable", "pStop", "pMark", "pRecord", "pFail", "pUndo", "pClean"}
SeenPcs == {"pFinishStop"} \cup ResumePcs
CommitPcs == {"rFinish", "sCommit", "iCommit"}

\* A request has what its next steps use.
Equipped ==
    \A p \in Procs :
        /\ task[p].pc \in OutPcs => task[p].out \in Arts
        /\ task[p].pc \in SeenPcs => task[p].seen.cp \in Arts
        /\ task[p].pc = "rLaunch" => arts[task[p].seen.cp] # None
        /\ task[p].pc \in CommitPcs => task[p].vm \in Vmms

\* A paused row names an artifact, and the row of a capture names its own.
Chosen ==
    /\ rec.state = "Paused" => rec.cp # None
    /\ \A p \in Procs : task[p].pc \in OutPcs \ {"pClean"} => rec.cp = task[p].out

\* The key of a pause in service is active.
Keyed == \A p \in Procs : task[p].pc \in PausePcs /\ task[p].op # None => ops[task[p].op] = "active"

\* Holds with loose starts too.
Base == TypeOK /\ Locks /\ Equipped /\ Chosen /\ Keyed

\* A start without the source lock is the only request in service.
Lonely ==
    \A p, q \in Procs : p # q /\ TakesNoLock(p, task[p].pc) => task[q].pc = "idle"

\* Such a start has its VMM and is about to record it.
Recording(p) == task[p].pc \in {"sCommit", "iCommit"} /\ TakesNoLock(p, task[p].pc)

\* The VMM is the one the row names.
Named == vmm # None => vmm.id = rec.pid

\* The row says what there is.
RowTrue ==
    /\ rec.cp # None <=> rec.state \in {"Pausing", "Paused"}
    /\ rec.state = "Running" => rec.pid \in Vmms /\ (Named \/ \E p \in Procs : Recording(p))
    /\ rec.state = "Stopped" => rec.pid = None
    /\ Alive(rec.pid) => known = vmm.at
    /\ rec.state = "Paused" =>
         /\ arts[rec.cp] # None
         /\ rec.pid = None => arts[rec.cp] = known
         /\ Alive(rec.pid) /\ vmm.frozen => arts[rec.cp] = vmm.at

\* The disks are those of the VMM that writes them; the paused-disks record is of
\* a machine at rest, and of the artifact its row names.
DisksTrue ==
    /\ vmm # None /\ vmm.own => vmm.at = disk
    /\ marker # None => /\ rec.state = "Paused" /\ rec.cp = marker.art
                        /\ vmm = None /\ arts[marker.art] = marker.at

\* Requests that run while nothing is saved.
NothingSavedPcs == {"pCapture", "pIntent", "pClean", "rClean"}
                   \cup StartPcs \cup ImplicitPcs \cup StopPcs \cup CheckpointPcs
NamedPcs == {"pRecover", "pRecovered", "pFinishStop", "pIntent", "pSave", "pPack", "pDurable",
             "pStop", "pFail", "pUndo", "rThaw", "rThawed", "rStop"}

\* What a request relies on from one step to the next.
At(p) ==
    /\ task[p].pc \in NothingSavedPcs => rec.cp = None
    /\ task[p].pc \in NamedPcs => Named
    /\ task[p].pc \in {"pSave", "pPack", "pDurable"} => rec.state = "Pausing"
    /\ task[p].pc \in {"pStop", "pMark", "pRecord", "pFinishStop", "rStop"} => rec.state = "Paused"
    /\ task[p].pc \in {"pRecover", "pRecovered", "rThaw", "rThawed"} =>
         rec.state = "Pausing" /\ rec.pid \in Vmms
    /\ task[p].pc \in OutPcs \ {"pClean"} => rec.cp = task[p].out
    /\ task[p].pc \in SeenPcs \ {"rClean"} => rec.cp = task[p].seen.cp
    /\ task[p].pc \in {"rStop", "rInstall"} => rec.pid = task[p].seen.pid
    /\ task[p].pc \in {"pPack", "pDurable", "pStop", "rStop"} => (vmm # None => vmm.frozen)
    /\ task[p].pc \in {"pDurable", "pStop", "pMark", "pRecord"} => arts[task[p].out] = known
    /\ task[p].pc \in {"pMark", "pRecord", "sClear", "tCommit", "uLaunch"} => vmm = None
    /\ task[p].pc \in {"rLaunch", "rFinish"} => marker = None
    /\ task[p].pc = "rLaunch" => disk = arts[task[p].seen.cp] /\ (vmm # None => ~vmm.own)
    /\ task[p].pc \in CommitPcs => (vmm # None => vmm.id = task[p].vm)
    /\ task[p].pc = "sProbe" => task[p].seen = rec \/ rec.state = "Stopped"
    /\ task[p].pc \in {"sEnsure", "sLaunch", "sCommit"} /\ p \notin Unlocked => rec.state = "Stopped"
    /\ task[p].pc = "sKill" => (vmm # None => vmm.id = task[p].seen.pid)
    /\ task[p].pc = "sOrphan" => p \in Unlocked

\* Without kills, a VMM the row does not name is on its way into the row, and no
\* VMM has lost its disks.
Unkilled ==
    faults = 0 /\ vmm # None =>
        /\ vmm.own
        /\ Alive(rec.pid) \/ \E p \in Procs : task[p].pc \in CommitPcs

\* Holds until a start is loose.
Inv == Base /\ RowTrue /\ DisksTrue /\ (\A p \in Procs : At(p)) /\ Unkilled

-----------------------------------------------------------------------------
(* How a request moves *)

Pcs == {"idle"} \cup PausePcs \cup ResumePcs \cup StartPcs \cup ImplicitPcs \cup StopPcs
       \cup CheckpointPcs

\* The request of p goes to pc, the others stay where they are.
Moved(p, pc) ==
    /\ task' \in [Procs -> Tasks]
    /\ task'[p].pc = pc
    /\ \A q \in Procs \ {p} : task'[q] = task[q]

\* It keeps what it knows.
Kept(p) ==
    /\ task'[p].op = task[p].op /\ task'[p].seen = task[p].seen
    /\ task'[p].out = task[p].out /\ task'[p].vm = task[p].vm

\* Where the source lock is held.
SourcePc(p, pc) ==
    \/ pc \in {"pRecovered"} \cup CapturePcs \cup ResumePcs \cup StopPcs \cup CheckpointPcs
    \/ p \notin Unlocked /\ pc \in StartPcs

\* Goto moves the request and nothing else of it.
LEMMA GotoMoves ==
    ASSUME TypeOK, NEW p \in Procs, NEW pc \in Pcs, Goto(p, pc)
    PROVE  Moved(p, pc) /\ Kept(p)
<1>1. task[p] \in Tasks /\ task' = [task EXCEPT ![p] = [task[p] EXCEPT !.pc = pc]]
  BY DEF TypeOK, Goto
<1>2. /\ [task[p] EXCEPT !.pc = pc] \in Tasks
      /\ [task[p] EXCEPT !.pc = pc].pc = pc
      /\ [task[p] EXCEPT !.pc = pc].op = task[p].op
      /\ [task[p] EXCEPT !.pc = pc].seen = task[p].seen
      /\ [task[p] EXCEPT !.pc = pc].out = task[p].out
      /\ [task[p] EXCEPT !.pc = pc].vm = task[p].vm
  BY <1>1 DEF Tasks, Pcs
<1> HIDE DEF Tasks
<1> QED BY <1>1, <1>2 DEF TypeOK, Moved, Kept

\* Done lets go of the request.
LEMMA DoneMoves ==
    ASSUME TypeOK, NEW p \in Procs, Done(p)
    PROVE  Moved(p, "idle")
<1>1. Idle \in Tasks /\ Idle.pc = "idle"
  BY DEF Idle, Tasks, NoRow, Rows, Opt
<1> QED BY <1>1 DEF TypeOK, Done, Moved

\* Begin takes a request up, with the row as it is.
LEMMA BeginMoves ==
    ASSUME TypeOK, NEW p \in Procs, NEW pc \in Pcs, NEW op \in Opt(Ops), Begin(p, pc, op)
    PROVE  Moved(p, pc) /\ task'[p].op = op /\ task'[p].seen = rec
<1> DEFINE t == [Idle EXCEPT !.pc = pc, !.op = op, !.seen = rec]
<1>1. t \in Tasks /\ t.pc = pc /\ t.op = op /\ t.seen = rec
  BY DEF Idle, Tasks, NoRow, Rows, Opt, TypeOK, Pcs
<1>2. task' = [task EXCEPT ![p] = t]
  BY DEF Begin
<1> HIDE DEF t
<1> QED BY <1>1, <1>2 DEF TypeOK, Moved

\* Steps that change a field of the request besides.
LEMMA OutMoves ==
    ASSUME TypeOK, NEW p \in Procs, NEW a \in Arts,
           task' = [task EXCEPT ![p].pc = "pSave", ![p].out = a]
    PROVE  Moved(p, "pSave") /\ task'[p].op = task[p].op /\ task'[p].out = a
<1> DEFINE t == [task[p] EXCEPT !.pc = "pSave", !.out = a]
<1>1. t \in Tasks /\ t.pc = "pSave" /\ t.op = task[p].op /\ t.out = a
  BY DEF Tasks, TypeOK, Opt, PausePcs
<1>2. task' = [task EXCEPT ![p] = t]
  BY DEF TypeOK
<1> HIDE DEF t
<1> QED BY <1>1, <1>2 DEF TypeOK, Moved

\* The request reads the row again.
LEMMA SeenMoves ==
    ASSUME TypeOK, NEW p \in Procs, NEW pc \in Pcs, NEW row \in Rows,
           task' = [task EXCEPT ![p].pc = pc, ![p].seen = row]
    PROVE  Moved(p, pc) /\ task'[p].op = task[p].op /\ task'[p].seen = row
<1> DEFINE t == [task[p] EXCEPT !.pc = pc, !.seen = row]
<1>1. t \in Tasks /\ t.pc = pc /\ t.op = task[p].op /\ t.seen = row
  BY DEF Tasks, TypeOK, Pcs
<1>2. task' = [task EXCEPT ![p] = t]
  BY DEF TypeOK
<1> HIDE DEF t
<1> QED BY <1>1, <1>2 DEF TypeOK, Moved

\* The request has launched a VMM or taken one over.
LEMMA VmMoves ==
    ASSUME TypeOK, NEW p \in Procs, NEW pc \in Pcs, NEW v \in Vmms,
           task' = [task EXCEPT ![p].pc = pc, ![p].vm = v]
    PROVE  /\ Moved(p, pc) /\ task'[p].op = task[p].op
           /\ task'[p].seen = task[p].seen /\ task'[p].vm = v
<1> DEFINE t == [task[p] EXCEPT !.pc = pc, !.vm = v]
<1>1. t \in Tasks /\ t.pc = pc /\ t.op = task[p].op /\ t.seen = task[p].seen /\ t.vm = v
  BY DEF Tasks, TypeOK, Pcs, Opt
<1>2. task' = [task EXCEPT ![p] = t]
  BY DEF TypeOK
<1> HIDE DEF t
<1> QED BY <1>1, <1>2 DEF TypeOK, Moved

\* A request that takes a lock only when it is free, has what it needs there and
\* leaves the others' keys and artifacts alone keeps the invariant.
LEMMA BaseMove ==
    ASSUME Base, TypeOK', NEW p \in Procs, NEW pc \in Pcs, Moved(p, pc),
           pc \in PausePcs \cup ResumePcs => HoldsSaved(p) \/ SavedFree,
           SourcePc(p, pc) => HoldsSource(p) \/ SourceFree,
           pc \in OutPcs => task'[p].out \in Arts,
           pc \in SeenPcs => task'[p].seen.cp \in Arts,
           pc = "rLaunch" => arts'[task'[p].seen.cp] # None,
           pc \in CommitPcs => task'[p].vm \in Vmms,
           pc \in PausePcs /\ task'[p].op # None => ops'[task'[p].op] = "active",
           arts' = arts \/ HoldsSaved(p),
           ops' = ops \/ HoldsSaved(p) \/ SavedFree,
           pc \in OutPcs \ {"pClean"} => rec'.cp = task'[p].out,
           rec'.state = "Paused" => rec'.cp # None,
           rec'.cp = rec.cp \/ HoldsSaved(p)
    PROVE  Base'
<1>0. TypeOK /\ Locks /\ Equipped /\ Chosen /\ Keyed
  BY DEF Base
<1>1. task'[p].pc = pc /\ \A q \in Procs \ {p} : task'[q] = task[q]
  BY DEF Moved
<1>2. ASSUME NEW q \in Procs \ {p} PROVE ~(HoldsSaved(p)' /\ HoldsSaved(q)')
  BY <1>0, <1>1 DEF Locks, HoldsSaved, SavedFree
<1>3. ASSUME NEW q \in Procs \ {p} PROVE ~(HoldsSource(p)' /\ HoldsSource(q)')
  <2>1. HoldsSource(q)' <=> HoldsSource(q)
    BY <1>1 DEF HoldsSource
  <2>2. HoldsSource(p)' <=> SourcePc(p, pc)
    BY <1>1 DEF HoldsSource, SourcePc
  <2> QED BY <1>0, <2>1, <2>2 DEF Locks, SourceFree
<1>4. ASSUME NEW q \in Procs \ {p}, NEW r \in Procs \ {p}, q # r
      PROVE  ~(HoldsSaved(q)' /\ HoldsSaved(r)') /\ ~(HoldsSource(q)' /\ HoldsSource(r)')
  BY <1>0, <1>1, <1>4 DEF Locks, HoldsSaved, HoldsSource
<1>5. Locks'
  BY <1>2, <1>3, <1>4 DEF Locks
<1>6. Equipped'
  <2>1. ASSUME NEW q \in Procs \ {p}
        PROVE  /\ task'[q].pc \in OutPcs => task'[q].out \in Arts
               /\ task'[q].pc \in SeenPcs => task'[q].seen.cp \in Arts
               /\ task'[q].pc = "rLaunch" => arts'[task'[q].seen.cp] # None
               /\ task'[q].pc \in CommitPcs => task'[q].vm \in Vmms
    <3>1. task[q].pc = "rLaunch" => arts' = arts
      BY <1>0 DEF Locks, HoldsSaved, ResumePcs
    <3> QED BY <1>0, <1>1, <3>1 DEF Equipped
  <2> QED BY <1>1, <2>1 DEF Equipped
<1>7. Keyed'
  <2>1. ASSUME NEW q \in Procs \ {p}, task'[q].pc \in PausePcs, task'[q].op # None
        PROVE  ops'[task'[q].op] = "active"
    <3>1. ops' = ops
      BY <1>0, <1>1, <2>1 DEF Locks, HoldsSaved, SavedFree
    <3> QED BY <1>0, <1>1, <2>1, <3>1 DEF Keyed
  <2> QED BY <1>1, <2>1 DEF Keyed
<1>8. Chosen'
  <2>1. ASSUME NEW q \in Procs \ {p}, task'[q].pc \in OutPcs \ {"pClean"}
        PROVE  rec'.cp = task'[q].out
    <3>1. rec'.cp = rec.cp
      BY <1>0, <1>1, <2>1 DEF Locks, HoldsSaved, OutPcs, PausePcs
    <3> QED BY <1>0, <1>1, <2>1, <3>1 DEF Chosen
  <2> QED BY <1>1, <2>1 DEF Chosen
<1> QED BY <1>5, <1>6, <1>7, <1>8 DEF Base

-----------------------------------------------------------------------------
(* Locks, keys and what requests carry, with or without command lines *)

\* Where a request may be is known by name from here on.
USE DEF Pcs, PausePcs, ResumePcs, CapturePcs, StartPcs, ImplicitPcs, StopPcs, CheckpointPcs, OutPcs,
        SeenPcs, CommitPcs, NothingSavedPcs, NamedPcs

\* A request that ends lets go of its locks.
LEMMA IdleBase ==
    ASSUME Base, TypeOK', NEW p \in Procs, Moved(p, "idle"),
           arts' = arts \/ HoldsSaved(p), ops' = ops \/ HoldsSaved(p),
           rec'.state = "Paused" => rec'.cp # None,
           rec'.cp = rec.cp \/ HoldsSaved(p)
    PROVE  Base'
BY BaseMove DEF SourcePc

\* A request that goes on under the locks it has, or takes the free source lock.
LEMMA GotoBase ==
    ASSUME Base, TypeOK', NEW p \in Procs, NEW pc \in Pcs, Moved(p, pc), Kept(p),
           pc \in PausePcs \cup ResumePcs => HoldsSaved(p),
           SourcePc(p, pc) => HoldsSource(p) \/ SourceFree,
           pc \in OutPcs => task[p].pc \in OutPcs,
           pc \in SeenPcs => task[p].pc \in SeenPcs,
           pc = "rLaunch" => arts'[task[p].seen.cp] # None,
           pc \notin CommitPcs,
           pc \in PausePcs => task[p].pc \in PausePcs /\ ops' = ops,
           arts' = arts \/ HoldsSaved(p),
           ops' = ops \/ HoldsSaved(p),
           pc \in OutPcs \ {"pClean"} => rec'.cp = task[p].out,
           rec'.state = "Paused" => rec'.cp # None,
           rec'.cp = rec.cp \/ HoldsSaved(p)
    PROVE  Base'
<1>1. /\ pc \in OutPcs => task'[p].out \in Arts
      /\ pc \in SeenPcs => task'[p].seen.cp \in Arts
      /\ pc \in PausePcs /\ task'[p].op # None => ops'[task'[p].op] = "active"
      /\ pc = "rLaunch" => arts'[task'[p].seen.cp] # None
      /\ pc \in OutPcs \ {"pClean"} => rec'.cp = task'[p].out
  BY DEF Base, Equipped, Keyed, Kept
<1> QED BY <1>1, BaseMove

\* Retiring the keys leaves a table of keys.
LEMMA ConsumedKeys ==
    ASSUME ops \in [Ops -> {"unknown", "active", "consumed"}]
    PROVE  Consumed \in [Ops -> {"unknown", "active", "consumed"}]
BY DEF Consumed

\* No process serves a request at first.
LEMMA BaseInit == Init => Base
<1> SUFFICES ASSUME Init PROVE Base
  OBVIOUS
<1>1. \A p \in Procs : task[p] = Idle
  BY DEF Init
<1>2. Idle \in Tasks /\ Idle.pc = "idle"
  BY DEF Idle, Tasks, NoRow, Rows, Opt
<1>3. TypeOK
  <2>1. task \in [Procs -> Tasks]
    BY <1>2 DEF Init
  <2>2. loose \in BOOLEAN
    BY DEF Init
  <2>3. PICK v \in Vmms : /\ rec = [state |-> "Running", cp |-> None, pid |-> v]
                          /\ vmm = [id |-> v, frozen |-> FALSE, at |-> 0, own |-> TRUE]
    BY DEF Init
  <2>4. /\ ops = [o \in Ops |-> "unknown"] /\ arts = [a \in Arts |-> None]
        /\ disk = 0 /\ known = 0 /\ marker = None /\ faults = 0
    BY DEF Init
  <2> QED BY <2>1, <2>2, <2>3, <2>4, BoundAssumption DEF TypeOK, Rows, Opt, Work
<1>4. Locks
  BY <1>1, <1>2 DEF Locks, HoldsSaved, HoldsSource
<1>5. Equipped /\ Chosen /\ Keyed
  BY <1>1, <1>2 DEF Init, Chosen, Equipped, Keyed
<1> QED BY <1>3, <1>4, <1>5 DEF Base

\* PauseRecover keeps the invariant.
LEMMA BasePauseRecover ==
    ASSUME Base, NEW p \in Procs, PauseRecover(p)
    PROVE  Base'
<1> USE DEF Base
<1>1. \/ Moved(p, "idle")
      \/ Moved(p, "pRecovered") /\ Kept(p)
  BY DoneMoves, GotoMoves DEF PauseRecover
<1>2. TypeOK'
  <2>1. task' \in [Procs -> Tasks]
    BY <1>1 DEF Moved
  <2> QED BY <2>1 DEF PauseRecover, TypeOK, Rows, Opt, Work
<1>3. CASE Moved(p, "idle")
  BY <1>2, <1>3, IdleBase, NoneAssumption
     DEF PauseRecover, Chosen, Equipped, TypeOK, Rows, HoldsSaved
<1>4. CASE Moved(p, "pRecovered") /\ Kept(p)
  BY <1>2, <1>4, GotoBase, NoneAssumption
     DEF PauseRecover, Chosen, Equipped, TypeOK, Rows, HoldsSaved, HoldsSource, SourcePc
<1> QED BY <1>1, <1>3, <1>4

\* PauseFinishStop keeps the invariant.
LEMMA BasePauseFinishStop ==
    ASSUME Base, NEW p \in Procs, PauseFinishStop(p)
    PROVE  Base'
<1> USE DEF Base
<1>1. Moved(p, "idle")
  BY DoneMoves DEF PauseFinishStop
<1>2. TypeOK'
  <2>1. task' \in [Procs -> Tasks]
    BY <1>1 DEF Moved
  <2> QED BY <2>1 DEF PauseFinishStop, TypeOK, Rows, Opt, Work, Equipped
<1> QED BY <1>1, <1>2, IdleBase, NoneAssumption
       DEF PauseFinishStop, Chosen, Equipped, TypeOK, Rows, HoldsSaved

\* PauseCapture keeps the invariant.
LEMMA BasePauseCapture ==
    ASSUME Base, NEW p \in Procs, PauseCapture(p)
    PROVE  Base'
<1> USE DEF Base
<1>1. \/ Moved(p, "idle")
      \/ Moved(p, "pIntent") /\ Kept(p)
  BY DoneMoves, GotoMoves DEF PauseCapture
<1>2. TypeOK'
  <2>1. task' \in [Procs -> Tasks]
    BY <1>1 DEF Moved
  <2> QED BY <2>1 DEF PauseCapture, TypeOK, Rows, Opt, Work
<1>3. CASE Moved(p, "idle")
  BY <1>2, <1>3, IdleBase, NoneAssumption
     DEF PauseCapture, Chosen, Equipped, TypeOK, Rows, HoldsSaved
<1>4. CASE Moved(p, "pIntent") /\ Kept(p)
  BY <1>2, <1>4, GotoBase, NoneAssumption
     DEF PauseCapture, Chosen, Equipped, TypeOK, Rows, HoldsSaved, HoldsSource, SourcePc
<1> QED BY <1>1, <1>3, <1>4

\* PauseSave keeps the invariant.
LEMMA BasePauseSave ==
    ASSUME Base, NEW p \in Procs, PauseSave(p)
    PROVE  Base'
<1> USE DEF Base
<1>1. Moved(p, "pPack") /\ Kept(p)
  BY GotoMoves DEF PauseSave
<1>2. TypeOK'
  <2>1. task' \in [Procs -> Tasks]
    BY <1>1 DEF Moved
  <2> QED BY <2>1 DEF PauseSave, TypeOK, Rows, Opt, Work
<1> QED BY <1>1, <1>2, GotoBase, NoneAssumption
       DEF PauseSave, Chosen, Equipped, TypeOK, Rows, HoldsSaved, HoldsSource, SourcePc

\* PausePack keeps the invariant.
LEMMA BasePausePack ==
    ASSUME Base, NEW p \in Procs, PausePack(p)
    PROVE  Base'
<1> USE DEF Base
<1>1. Moved(p, "pDurable") /\ Kept(p)
  BY GotoMoves DEF PausePack
<1>2. TypeOK'
  <2>1. task' \in [Procs -> Tasks]
    BY <1>1 DEF Moved
  <2> QED BY <2>1 DEF PausePack, TypeOK, Rows, Opt, Work, Equipped
<1> QED BY <1>1, <1>2, GotoBase, NoneAssumption
       DEF PausePack, Chosen, Equipped, TypeOK, Rows, HoldsSaved, HoldsSource, SourcePc

\* PauseDurable keeps the invariant.
LEMMA BasePauseDurable ==
    ASSUME Base, NEW p \in Procs, PauseDurable(p)
    PROVE  Base'
<1> USE DEF Base
<1>1. Moved(p, "pStop") /\ Kept(p)
  BY GotoMoves DEF PauseDurable
<1>2. TypeOK'
  <2>1. task' \in [Procs -> Tasks]
    BY <1>1 DEF Moved
  <2> QED BY <2>1 DEF PauseDurable, TypeOK, Rows, Opt, Work, Equipped
<1> QED BY <1>1, <1>2, GotoBase, NoneAssumption
       DEF PauseDurable, Chosen, Equipped, TypeOK, Rows, HoldsSaved, HoldsSource, SourcePc

\* PauseStop keeps the invariant.
LEMMA BasePauseStop ==
    ASSUME Base, NEW p \in Procs, PauseStop(p)
    PROVE  Base'
<1> USE DEF Base
<1>1. Moved(p, "pMark") /\ Kept(p)
  BY GotoMoves DEF PauseStop
<1>2. TypeOK'
  <2>1. task' \in [Procs -> Tasks]
    BY <1>1 DEF Moved
  <2> QED BY <2>1 DEF PauseStop, TypeOK, Rows, Opt, Work
<1> QED BY <1>1, <1>2, GotoBase, NoneAssumption
       DEF PauseStop, Chosen, Equipped, TypeOK, Rows, HoldsSaved, HoldsSource, SourcePc

\* PauseMark keeps the invariant.
LEMMA BasePauseMark ==
    ASSUME Base, NEW p \in Procs, PauseMark(p)
    PROVE  Base'
<1> USE DEF Base
<1>1. Moved(p, "pRecord") /\ Kept(p)
  BY GotoMoves DEF PauseMark
<1>2. TypeOK'
  <2>1. task' \in [Procs -> Tasks]
    BY <1>1 DEF Moved
  <2> QED BY <2>1 DEF PauseMark, TypeOK, Rows, Opt, Work, Equipped
<1> QED BY <1>1, <1>2, GotoBase, NoneAssumption
       DEF PauseMark, Chosen, Equipped, TypeOK, Rows, HoldsSaved, HoldsSource, SourcePc

\* PauseRecord keeps the invariant.
LEMMA BasePauseRecord ==
    ASSUME Base, NEW p \in Procs, PauseRecord(p)
    PROVE  Base'
<1> USE DEF Base
<1>1. Moved(p, "idle")
  BY DoneMoves DEF PauseRecord
<1>2. TypeOK'
  <2>1. task' \in [Procs -> Tasks]
    BY <1>1 DEF Moved
  <2> QED BY <2>1 DEF PauseRecord, TypeOK, Rows, Opt, Work
<1> QED BY <1>1, <1>2, IdleBase, NoneAssumption
       DEF PauseRecord, Chosen, Equipped, TypeOK, Rows, HoldsSaved

\* PauseFails keeps the invariant.
LEMMA BasePauseFails ==
    ASSUME Base, NEW p \in Procs, PauseFails(p)
    PROVE  Base'
<1> USE DEF Base
<1>1. Moved(p, "pFail") /\ Kept(p)
  BY GotoMoves DEF PauseFails
<1>2. TypeOK'
  <2>1. task' \in [Procs -> Tasks]
    BY <1>1 DEF Moved
  <2> QED BY <2>1 DEF PauseFails, TypeOK, Rows, Opt, Work
<1> QED BY <1>1, <1>2, GotoBase, NoneAssumption
       DEF PauseFails, Chosen, Equipped, TypeOK, Rows, HoldsSaved, HoldsSource, SourcePc

\* PauseWakes keeps the invariant.
LEMMA BasePauseWakes ==
    ASSUME Base, NEW p \in Procs, PauseWakes(p)
    PROVE  Base'
<1> USE DEF Base
<1>1. Moved(p, "pUndo") /\ Kept(p)
  BY GotoMoves DEF PauseWakes
<1>2. TypeOK'
  <2>1. task' \in [Procs -> Tasks]
    BY <1>1 DEF Moved
  <2> QED BY <2>1 DEF PauseWakes, TypeOK, Rows, Opt, Work
<1> QED BY <1>1, <1>2, GotoBase, NoneAssumption
       DEF PauseWakes, Chosen, Equipped, TypeOK, Rows, HoldsSaved, HoldsSource, SourcePc

\* SaveFails keeps the invariant.
LEMMA BaseSaveFails ==
    ASSUME Base, NEW p \in Procs, SaveFails(p)
    PROVE  Base'
<1> USE DEF Base
<1>1. \/ Moved(p, "idle")
      \/ Moved(p, "pUndo") /\ Kept(p) /\ task[p].pc \in {"pSave", "pFail"}
  BY DoneMoves, GotoMoves DEF SaveFails
<1>2. TypeOK'
  <2>1. task' \in [Procs -> Tasks]
    BY <1>1 DEF Moved
  <2> QED BY <2>1 DEF SaveFails, TypeOK, Rows, Opt, Work
<1>3. CASE Moved(p, "idle")
  BY <1>2, <1>3, IdleBase, NoneAssumption
     DEF SaveFails, Chosen, Equipped, TypeOK, Rows, HoldsSaved
<1>4. CASE Moved(p, "pUndo") /\ Kept(p) /\ task[p].pc \in {"pSave", "pFail"}
  BY <1>2, <1>4, GotoBase, NoneAssumption
     DEF SaveFails, Chosen, Equipped, TypeOK, Rows, HoldsSaved, HoldsSource, SourcePc
<1> QED BY <1>1, <1>3, <1>4

\* GuardFails keeps the invariant.
LEMMA BaseGuardFails ==
    ASSUME Base, NEW p \in Procs, GuardFails(p)
    PROVE  Base'
<1> USE DEF Base
<1>1. \/ Moved(p, "idle")
      \/ Moved(p, "pUndo") /\ Kept(p) /\ task[p].pc \in {"pSave", "pFail"}
  BY DoneMoves, GotoMoves DEF GuardFails
<1>2. TypeOK'
  <2>1. task' \in [Procs -> Tasks]
    BY <1>1 DEF Moved
  <2> QED BY <2>1 DEF GuardFails, TypeOK, Rows, Opt, Work
<1>3. CASE Moved(p, "idle")
  BY <1>2, <1>3, IdleBase, NoneAssumption
     DEF GuardFails, Chosen, Equipped, TypeOK, Rows, HoldsSaved
<1>4. CASE Moved(p, "pUndo") /\ Kept(p) /\ task[p].pc \in {"pSave", "pFail"}
  BY <1>2, <1>4, GotoBase, NoneAssumption
     DEF GuardFails, Chosen, Equipped, TypeOK, Rows, HoldsSaved, HoldsSource, SourcePc
<1> QED BY <1>1, <1>3, <1>4

\* PauseUndo keeps the invariant.
LEMMA BasePauseUndo ==
    ASSUME Base, NEW p \in Procs, PauseUndo(p)
    PROVE  Base'
<1> USE DEF Base
<1>1. \/ Moved(p, "pClean") /\ Kept(p)
      \/ Moved(p, "idle")
  BY DoneMoves, GotoMoves DEF PauseUndo
<1>2. TypeOK'
  <2>1. task' \in [Procs -> Tasks]
    BY <1>1 DEF Moved
  <2> QED BY <2>1 DEF PauseUndo, TypeOK, Rows, Opt, Work
<1>3. CASE Moved(p, "pClean") /\ Kept(p)
  BY <1>2, <1>3, GotoBase, NoneAssumption
     DEF PauseUndo, Chosen, Equipped, TypeOK, Rows, HoldsSaved, HoldsSource, SourcePc
<1>4. CASE Moved(p, "idle")
  BY <1>2, <1>4, IdleBase, NoneAssumption DEF PauseUndo, Chosen, Equipped, TypeOK, Rows, HoldsSaved
<1> QED BY <1>1, <1>3, <1>4

\* PauseClean keeps the invariant.
LEMMA BasePauseClean ==
    ASSUME Base, NEW p \in Procs, PauseClean(p)
    PROVE  Base'
<1> USE DEF Base
<1>1. Moved(p, "idle")
  BY DoneMoves DEF PauseClean
<1>2. TypeOK'
  <2>1. task' \in [Procs -> Tasks]
    BY <1>1 DEF Moved
  <2> QED BY <2>1 DEF PauseClean, TypeOK, Rows, Opt, Work
<1> QED BY <1>1, <1>2, IdleBase, NoneAssumption
     DEF PauseClean, Chosen, Equipped, TypeOK, Rows, HoldsSaved

\* ResumeThaw keeps the invariant.
LEMMA BaseResumeThaw ==
    ASSUME Base, NEW p \in Procs, ResumeThaw(p)
    PROVE  Base'
<1> USE DEF Base
<1>1. \/ Moved(p, "idle")
      \/ Moved(p, "rThawed") /\ Kept(p)
  BY DoneMoves, GotoMoves DEF ResumeThaw
<1>2. TypeOK'
  <2>1. task' \in [Procs -> Tasks]
    BY <1>1 DEF Moved
  <2> QED BY <2>1 DEF ResumeThaw, TypeOK, Rows, Opt, Work
<1>3. CASE Moved(p, "idle")
  BY <1>2, <1>3, IdleBase, NoneAssumption DEF ResumeThaw, Chosen, Equipped, TypeOK, Rows, HoldsSaved
<1>4. CASE Moved(p, "rThawed") /\ Kept(p)
  BY <1>2, <1>4, GotoBase, NoneAssumption
     DEF ResumeThaw, Chosen, Equipped, TypeOK, Rows, HoldsSaved, HoldsSource, SourcePc
<1> QED BY <1>1, <1>3, <1>4

\* ResumeThawed keeps the invariant.
LEMMA BaseResumeThawed ==
    ASSUME Base, NEW p \in Procs, ResumeThawed(p)
    PROVE  Base'
<1> USE DEF Base
<1>1. Moved(p, "idle")
  BY DoneMoves DEF ResumeThawed
<1>2. TypeOK'
  <2>1. task' \in [Procs -> Tasks]
    BY <1>1 DEF Moved
  <2> QED BY <2>1, ConsumedKeys DEF ResumeThawed, TypeOK, Rows, Opt, Work
<1> QED BY <1>1, <1>2, IdleBase, NoneAssumption
       DEF ResumeThawed, Chosen, Equipped, TypeOK, Rows, HoldsSaved

\* ResumeStop keeps the invariant.
LEMMA BaseResumeStop ==
    ASSUME Base, NEW p \in Procs, ResumeStop(p)
    PROVE  Base'
<1> USE DEF Base
<1>1. Moved(p, "rInstall") /\ Kept(p)
  BY GotoMoves DEF ResumeStop
<1>2. TypeOK'
  <2>1. task' \in [Procs -> Tasks]
    BY <1>1 DEF Moved
  <2> QED BY <2>1 DEF ResumeStop, TypeOK, Rows, Opt, Work
<1> QED BY <1>1, <1>2, GotoBase, NoneAssumption
       DEF ResumeStop, Chosen, Equipped, TypeOK, Rows, HoldsSaved, HoldsSource, SourcePc

\* ResumeInstall keeps the invariant.
LEMMA BaseResumeInstall ==
    ASSUME Base, NEW p \in Procs, ResumeInstall(p)
    PROVE  Base'
<1> USE DEF Base
<1>1. Moved(p, "rLaunch") /\ Kept(p)
  BY GotoMoves DEF ResumeInstall
<1>2. TypeOK'
  <2>1. task' \in [Procs -> Tasks]
    BY <1>1 DEF Moved
  <2> QED BY <2>1 DEF ResumeInstall, TypeOK, Rows, Opt, Work, Equipped
<1> QED BY <1>1, <1>2, GotoBase, NoneAssumption
       DEF ResumeInstall, Chosen, Equipped, TypeOK, Rows, HoldsSaved, HoldsSource, SourcePc

\* ResumeFinish keeps the invariant.
LEMMA BaseResumeFinish ==
    ASSUME Base, NEW p \in Procs, ResumeFinish(p)
    PROVE  Base'
<1> USE DEF Base
<1>1. Moved(p, "rClean") /\ Kept(p)
  BY GotoMoves DEF ResumeFinish
<1>2. TypeOK'
  <2>1. task' \in [Procs -> Tasks]
    BY <1>1 DEF Moved
  <2>2. task[p].vm \in Vmms /\ vmm \in Opt([id : Vmms, frozen : BOOLEAN, at : Work, own : BOOLEAN])
    BY DEF Equipped, TypeOK, ResumeFinish
  <2> QED BY <2>1, <2>2, ConsumedKeys DEF ResumeFinish, TypeOK, Rows, Opt, Work, NamedWork, Alive
<1> QED BY <1>1, <1>2, GotoBase, NoneAssumption
       DEF ResumeFinish, Chosen, Equipped, TypeOK, Rows, HoldsSaved, HoldsSource, SourcePc

\* ResumeClean keeps the invariant.
LEMMA BaseResumeClean ==
    ASSUME Base, NEW p \in Procs, ResumeClean(p)
    PROVE  Base'
<1> USE DEF Base
<1>1. Moved(p, "idle")
  BY DoneMoves DEF ResumeClean
<1>2. TypeOK'
  <2>1. task' \in [Procs -> Tasks]
    BY <1>1 DEF Moved
  <2> QED BY <2>1 DEF ResumeClean, TypeOK, Rows, Opt, Work
<1> QED BY <1>1, <1>2, IdleBase, NoneAssumption
       DEF ResumeClean, Chosen, Equipped, TypeOK, Rows, HoldsSaved

\* ResumeFails keeps the invariant.
LEMMA BaseResumeFails ==
    ASSUME Base, NEW p \in Procs, ResumeFails(p)
    PROVE  Base'
<1> USE DEF Base
<1>1. Moved(p, "idle")
  BY DoneMoves DEF ResumeFails
<1>2. TypeOK'
  <2>1. task' \in [Procs -> Tasks]
    BY <1>1 DEF Moved
  <2> QED BY <2>1 DEF ResumeFails, TypeOK, Rows, Opt, Work
<1> QED BY <1>1, <1>2, IdleBase, NoneAssumption
       DEF ResumeFails, Chosen, Equipped, TypeOK, Rows, HoldsSaved

\* StartOrphan keeps the invariant.
LEMMA BaseStartOrphan ==
    ASSUME Base, NEW p \in Procs, StartOrphan(p)
    PROVE  Base'
<1> USE DEF Base
<1>1. Moved(p, "sEnsure") /\ Kept(p)
  BY GotoMoves DEF StartOrphan
<1>2. TypeOK'
  <2>1. task' \in [Procs -> Tasks]
    BY <1>1 DEF Moved
  <2> QED BY <2>1 DEF StartOrphan, TypeOK, Rows, Opt, Work
<1> QED BY <1>1, <1>2, GotoBase, NoneAssumption
       DEF StartOrphan, Chosen, Equipped, TypeOK, Rows, HoldsSaved, HoldsSource, SourcePc

\* StartReprobe keeps the invariant.
LEMMA BaseStartReprobe ==
    ASSUME Base, NEW p \in Procs, StartReprobe(p)
    PROVE  Base'
<1> USE DEF Base
<1>1. \/ Moved(p, "sKill") /\ Kept(p)
      \/ Moved(p, "sEnsure") /\ Kept(p)
      \/ Moved(p, "idle")
  BY DoneMoves, GotoMoves DEF StartReprobe
<1>2. TypeOK'
  <2>1. task' \in [Procs -> Tasks]
    BY <1>1 DEF Moved
  <2> QED BY <2>1 DEF StartReprobe, TypeOK, Rows, Opt, Work
<1>3. CASE Moved(p, "sKill") /\ Kept(p)
  BY <1>2, <1>3, GotoBase, NoneAssumption
     DEF StartReprobe, Chosen, Equipped, TypeOK, Rows, HoldsSaved, HoldsSource, SourcePc
<1>4. CASE Moved(p, "sEnsure") /\ Kept(p)
  BY <1>2, <1>4, GotoBase, NoneAssumption
     DEF StartReprobe, Chosen, Equipped, TypeOK, Rows, HoldsSaved, HoldsSource, SourcePc
<1>5. CASE Moved(p, "idle")
  BY <1>2, <1>5, IdleBase, NoneAssumption
     DEF StartReprobe, Chosen, Equipped, TypeOK, Rows, HoldsSaved
<1> QED BY <1>1, <1>3, <1>4, <1>5

\* StartKill keeps the invariant.
LEMMA BaseStartKill ==
    ASSUME Base, NEW p \in Procs, StartKill(p)
    PROVE  Base'
<1> USE DEF Base
<1>1. Moved(p, "sClear") /\ Kept(p)
  BY GotoMoves DEF StartKill
<1>2. TypeOK'
  <2>1. task' \in [Procs -> Tasks]
    BY <1>1 DEF Moved
  <2> QED BY <2>1 DEF StartKill, TypeOK, Rows, Opt, Work
<1> QED BY <1>1, <1>2, GotoBase, NoneAssumption
       DEF StartKill, Chosen, Equipped, TypeOK, Rows, HoldsSaved, HoldsSource, SourcePc

\* StartClear keeps the invariant.
LEMMA BaseStartClear ==
    ASSUME Base, NEW p \in Procs, StartClear(p)
    PROVE  Base'
<1> USE DEF Base
<1>1. Moved(p, "sEnsure") /\ Kept(p)
  BY GotoMoves DEF StartClear
<1>2. TypeOK'
  <2>1. task' \in [Procs -> Tasks]
    BY <1>1 DEF Moved
  <2> QED BY <2>1 DEF StartClear, TypeOK, Rows, Opt, Work
<1> QED BY <1>1, <1>2, GotoBase, NoneAssumption
       DEF StartClear, Chosen, Equipped, TypeOK, Rows, HoldsSaved, HoldsSource, SourcePc

\* StartEnsure keeps the invariant.
LEMMA BaseStartEnsure ==
    ASSUME Base, NEW p \in Procs, StartEnsure(p)
    PROVE  Base'
<1> USE DEF Base
<1>1. \/ Moved(p, "sLaunch") /\ Kept(p)
      \/ Moved(p, "idle")
  BY DoneMoves, GotoMoves DEF StartEnsure
<1>2. TypeOK'
  <2>1. task' \in [Procs -> Tasks]
    BY <1>1 DEF Moved
  <2> QED BY <2>1 DEF StartEnsure, TypeOK, Rows, Opt, Work
<1>3. CASE Moved(p, "sLaunch") /\ Kept(p)
  BY <1>2, <1>3, GotoBase, NoneAssumption
     DEF StartEnsure, Chosen, Equipped, TypeOK, Rows, HoldsSaved, HoldsSource, SourcePc
<1>4. CASE Moved(p, "idle")
  BY <1>2, <1>4, IdleBase, NoneAssumption
     DEF StartEnsure, Chosen, Equipped, TypeOK, Rows, HoldsSaved
<1> QED BY <1>1, <1>3, <1>4

\* StartCommit keeps the invariant.
LEMMA BaseStartCommit ==
    ASSUME Base, NEW p \in Procs, StartCommit(p)
    PROVE  Base'
<1> USE DEF Base
<1>1. Moved(p, "idle")
  BY DoneMoves DEF StartCommit
<1>2. TypeOK'
  <2>1. task' \in [Procs -> Tasks]
    BY <1>1 DEF Moved
  <2>2. task[p].vm \in Vmms /\ vmm \in Opt([id : Vmms, frozen : BOOLEAN, at : Work, own : BOOLEAN])
    BY DEF Equipped, TypeOK, StartCommit
  <2> QED BY <2>1, <2>2 DEF StartCommit, TypeOK, Rows, Opt, Work, NamedWork, Alive
<1> QED BY <1>1, <1>2, IdleBase, NoneAssumption
       DEF StartCommit, Chosen, Equipped, TypeOK, Rows, HoldsSaved

\* StopKill keeps the invariant.
LEMMA BaseStopKill ==
    ASSUME Base, NEW p \in Procs, StopKill(p)
    PROVE  Base'
<1> USE DEF Base
<1>1. \/ Moved(p, "idle")
      \/ Moved(p, "tCommit") /\ Kept(p)
  BY DoneMoves, GotoMoves DEF StopKill
<1>2. TypeOK'
  <2>1. task' \in [Procs -> Tasks]
    BY <1>1 DEF Moved
  <2> QED BY <2>1 DEF StopKill, TypeOK, Rows, Opt, Work
<1>3. CASE Moved(p, "idle")
  BY <1>2, <1>3, IdleBase, NoneAssumption DEF StopKill, Chosen, Equipped, TypeOK, Rows, HoldsSaved
<1>4. CASE Moved(p, "tCommit") /\ Kept(p)
  BY <1>2, <1>4, GotoBase, NoneAssumption
     DEF StopKill, Chosen, Equipped, TypeOK, Rows, HoldsSaved, HoldsSource, SourcePc
<1> QED BY <1>1, <1>3, <1>4

\* StopCommit keeps the invariant.
LEMMA BaseStopCommit ==
    ASSUME Base, NEW p \in Procs, StopCommit(p)
    PROVE  Base'
<1> USE DEF Base
<1>1. Moved(p, "idle")
  BY DoneMoves DEF StopCommit
<1>2. TypeOK'
  <2>1. task' \in [Procs -> Tasks]
    BY <1>1 DEF Moved
  <2> QED BY <2>1 DEF StopCommit, TypeOK, Rows, Opt, Work
<1> QED BY <1>1, <1>2, IdleBase, NoneAssumption
     DEF StopCommit, Chosen, Equipped, TypeOK, Rows, HoldsSaved

\* CheckpointSave keeps the invariant.
LEMMA BaseCheckpointSave ==
    ASSUME Base, NEW p \in Procs, CheckpointSave(p)
    PROVE  Base'
<1> USE DEF Base
<1>1. Moved(p, "cThaw") /\ Kept(p)
  BY GotoMoves DEF CheckpointSave
<1>2. TypeOK'
  <2>1. task' \in [Procs -> Tasks]
    BY <1>1 DEF Moved
  <2> QED BY <2>1 DEF CheckpointSave, TypeOK, Rows, Opt, Work
<1> QED BY <1>1, <1>2, GotoBase, NoneAssumption
     DEF CheckpointSave, Chosen, Equipped, TypeOK, Rows, HoldsSaved, HoldsSource, SourcePc

\* CheckpointThaw keeps the invariant.
LEMMA BaseCheckpointThaw ==
    ASSUME Base, NEW p \in Procs, CheckpointThaw(p)
    PROVE  Base'
<1> USE DEF Base
<1>1. Moved(p, "idle")
  BY DoneMoves DEF CheckpointThaw
<1>2. TypeOK'
  <2>1. task' \in [Procs -> Tasks]
    BY <1>1 DEF Moved
  <2> QED BY <2>1 DEF CheckpointThaw, TypeOK, Rows, Opt, Work
<1> QED BY <1>1, <1>2, IdleBase, NoneAssumption
       DEF CheckpointThaw, Chosen, Equipped, TypeOK, Rows, HoldsSaved

\* Crash keeps the invariant.
LEMMA BaseCrash ==
    ASSUME Base, NEW p \in Procs, Crash(p)
    PROVE  Base'
<1> USE DEF Base
<1>1. Moved(p, "idle")
  BY DoneMoves DEF Crash
<1>2. TypeOK'
  <2>1. task' \in [Procs -> Tasks]
    BY <1>1 DEF Moved
  <2> QED BY <2>1, BoundAssumption DEF Crash, TypeOK, Rows, Opt, Work
<1> QED BY <1>1, <1>2, IdleBase, NoneAssumption
     DEF Crash, Chosen, Equipped, TypeOK, Rows, HoldsSaved

\* A request is taken up under the locks it needs.
LEMMA BaseBegin ==
    ASSUME Base, NEW p \in Procs, NEW pc \in Pcs \ (OutPcs \cup CommitPcs \cup {"rLaunch"}),
           NEW op \in Opt(Ops), Begin(p, pc, op),
           UNCHANGED <<rec, vmm, arts, disk, marker, known, faults>>,
           ops' \in [Ops -> {"unknown", "active", "consumed"}], ops' = ops \/ SavedFree,
           pc \in PausePcs \cup ResumePcs => SavedFree,
           SourcePc(p, pc) => SourceFree,
           pc \in SeenPcs => rec.cp \in Arts,
           pc \in PausePcs /\ op # None => ops'[op] = "active"
    PROVE  Base'
<1>1. Moved(p, pc) /\ task'[p].op = op /\ task'[p].seen = rec
  BY BeginMoves DEF Base
<1>2. TypeOK'
  BY <1>1 DEF Base, TypeOK, Moved, Begin
<1> QED BY <1>1, <1>2, BaseMove DEF Base, Chosen

\* StartProbe keeps the invariant.
LEMMA BaseStartProbe ==
    ASSUME Base, NEW p \in Procs, StartProbe(p)
    PROVE  Base'
<1> USE DEF Base
<1>1. \/ Moved(p, "idle")
      \/ Moved(p, "sReread") /\ Kept(p)
      \/ Moved(p, "sOrphan") /\ Kept(p) /\ p \in Unlocked
      \/ Moved(p, "sEnsure") /\ Kept(p)
  BY DoneMoves, GotoMoves DEF StartProbe
<1>2. TypeOK'
  <2>1. task' \in [Procs -> Tasks]
    BY <1>1 DEF Moved
  <2> QED BY <2>1 DEF StartProbe, TypeOK, Rows, Opt, Work
<1>3. /\ rec'.cp = rec.cp /\ rec'.state = "Paused" => rec.state = "Paused"
      /\ arts' = arts /\ ops' = ops /\ task[p].pc = "sProbe"
  BY DEF StartProbe, TypeOK, Rows
<1>4. rec'.cp = rec.cp /\ (rec'.state = "Paused" => rec'.cp # None)
  BY <1>3 DEF Chosen, StartProbe, TypeOK, Rows
<1>5. CASE Moved(p, "idle")
  BY <1>2, <1>3, <1>4, <1>5, IdleBase
<1>6. ASSUME NEW pc \in {"sReread", "sOrphan", "sEnsure"}, Moved(p, pc), Kept(p)
      PROVE  Base'
  BY <1>2, <1>3, <1>4, <1>6, GotoBase DEF HoldsSource, SourcePc
<1> QED BY <1>1, <1>5, <1>6

\* A pause takes its key, then what it found.
LEMMA BasePauseBegin ==
    ASSUME Base, NEW p \in Procs, NEW op \in Opt(Ops), PauseBegin(p, op)
    PROVE  Base'
<1> DEFINE pc == PausePath(op)
<1>1. /\ pc \in {"pRecover", "pFinishStop", "pCapture"}
      /\ pc = "pFinishStop" => rec.state = "Paused"
  BY DEF PauseBegin, PausePath
<1>2. pc = "pFinishStop" => rec.cp \in Arts
  BY <1>1 DEF Base, Chosen, TypeOK, Rows, Opt
<1>3. ops' \in [Ops -> {"unknown", "active", "consumed"}] /\ (op # None => ops'[op] = "active")
  BY DEF PauseBegin, Base, TypeOK, Opt
<1>4. pc \in Pcs \ (OutPcs \cup CommitPcs \cup {"rLaunch"}) /\ ~SourcePc(p, pc)
  BY <1>1 DEF SourcePc
<1>5. pc \in SeenPcs => pc = "pFinishStop"
  BY <1>1
<1>6. Begin(p, pc, op) /\ SavedFree /\ UNCHANGED <<rec, vmm, arts, disk, marker, known, faults>>
  BY DEF PauseBegin
<1> HIDE DEF pc
<1> QED BY <1>2, <1>3, <1>4, <1>5, <1>6, BaseBegin

\* A resume of a saved execution takes both locks.
LEMMA BaseResumeBegin ==
    ASSUME Base, NEW p \in Procs, NEW op \in Opt(Ops), ResumeBegin(p, op)
    PROVE  Base'
<1> DEFINE pc == ResumePath
<1>1. pc \in {"rThaw", "rStop", "rInstall"} /\ rec.cp \in Arts
  BY DEF ResumeBegin, ResumePath, Base, TypeOK, Rows, Opt
<1>2. pc \in Pcs \ (OutPcs \cup CommitPcs \cup {"rLaunch"}) /\ pc \notin PausePcs
  BY <1>1
<1>3. /\ Begin(p, pc, op) /\ SavedFree /\ SourceFree
      /\ ops' = ops /\ UNCHANGED <<rec, vmm, arts, disk, marker, known, faults>>
      /\ ops' \in [Ops -> {"unknown", "active", "consumed"}]
  BY DEF Base, TypeOK, ResumeBegin
<1> HIDE DEF pc
<1> QED BY <1>1, <1>2, <1>3, BaseBegin

\* Start, stop and checkpoint requests.
LEMMA BaseOthersBegin ==
    ASSUME Base, NEW p \in Procs,
           StartBegin(p) \/ ImplicitBegin(p) \/ RestartBegin(p) \/ StopBegin(p) \/ CheckpointBegin(p)
    PROVE  Base'
<1>1. /\ ops' = ops /\ UNCHANGED <<rec, vmm, arts, disk, marker, known, faults>>
      /\ ops' \in [Ops -> {"unknown", "active", "consumed"}]
  BY DEF Base, TypeOK, StartBegin, ImplicitBegin, RestartBegin, StopBegin, CheckpointBegin
<1>2. None \in Opt(Ops)
  BY DEF Opt
<1>3. CASE StartBegin(p)
  <2>1. Begin(p, "sProbe", None) /\ (p \in Unlocked \/ SourceFree)
    BY <1>3 DEF StartBegin
  <2> QED BY <1>1, <1>2, <2>1, BaseBegin DEF SourcePc
<1>4. CASE ImplicitBegin(p) \/ RestartBegin(p)
  <2>1. Begin(p, "iLaunch", None) \/ Begin(p, "uLaunch", None)
    BY <1>4 DEF ImplicitBegin, RestartBegin
  <2> QED BY <1>1, <1>2, <2>1, BaseBegin DEF SourcePc
<1>5. CASE StopBegin(p) \/ CheckpointBegin(p)
  <2>1. (Begin(p, "tKill", None) \/ Begin(p, "cSave", None)) /\ SourceFree
    BY <1>5 DEF StopBegin, CheckpointBegin
  <2> QED BY <1>1, <1>2, <2>1, BaseBegin DEF SourcePc
<1> QED BY <1>3, <1>4, <1>5

\* The guest is awake again and the row says so.
LEMMA BasePauseRecovered ==
    ASSUME Base, NEW p \in Procs, PauseRecovered(p)
    PROVE  Base'
<1>1. rec' \in Rows /\ rec'.cp = None /\ rec'.state = "Running"
  BY DEF Base, TypeOK, Rows, Opt, PauseRecovered
<1>2. Moved(p, "pCapture") /\ task'[p].op = task[p].op
  BY <1>1, SeenMoves DEF Base, PauseRecovered
<1>3. TypeOK'
  BY <1>1, <1>2 DEF Base, TypeOK, Moved, PauseRecovered
<1>4. task'[p].op # None => ops'[task'[p].op] = "active"
  BY <1>2 DEF Base, Keyed, PauseRecovered
<1> QED BY <1>1, <1>2, <1>3, <1>4, BaseMove DEF PauseRecovered, HoldsSaved, SourcePc

\* The intent names the artifact of the capture.
LEMMA BasePauseIntent ==
    ASSUME Base, NEW p \in Procs, NEW a \in Arts, PauseIntent(p, a)
    PROVE  Base'
<1>1. rec' \in Rows /\ rec'.cp = a /\ rec'.state = "Pausing"
  BY DEF Base, TypeOK, Rows, Opt, PauseIntent
<1>2. Moved(p, "pSave") /\ task'[p].op = task[p].op /\ task'[p].out = a
  BY OutMoves DEF Base, PauseIntent
<1>3. TypeOK'
  BY <1>1, <1>2 DEF Base, TypeOK, Moved, PauseIntent, Opt
<1>4. task'[p].op # None => ops'[task'[p].op] = "active"
  BY <1>2 DEF Base, Keyed, PauseIntent
<1>5. HoldsSaved(p) /\ HoldsSource(p)
  BY DEF PauseIntent, HoldsSaved, HoldsSource
<1> QED BY <1>1, <1>2, <1>3, <1>4, <1>5, BaseMove

\* A resume takes the VMM over that answers, or restores the memory.
LEMMA BaseResumeLaunch ==
    ASSUME Base, NEW p \in Procs, ResumeLaunch(p)
    PROVE  Base'
<1>0. /\ task[p].pc = "rLaunch" /\ UNCHANGED <<rec, ops, arts, disk, marker, known, faults, loose>>
      /\ arts[task[p].seen.cp] \in Work
  BY DEF ResumeLaunch, Base, TypeOK, Equipped, Opt
<1>1. PICK v \in Vmms :
         /\ task' = [task EXCEPT ![p].pc = "rFinish", ![p].vm = v]
         /\ vmm' \in Opt([id : Vmms, frozen : BOOLEAN, at : Work, own : BOOLEAN])
  <2>1. CASE Reachable /\ UNCHANGED vmm
    <3>1. vmm.id \in Vmms
      BY <2>1 DEF Reachable, Base, TypeOK, Opt
    <3>2. task' = [task EXCEPT ![p].pc = "rFinish", ![p].vm = vmm.id]
      BY <2>1 DEF ResumeLaunch, Reachable
    <3> QED BY <2>1, <3>1, <3>2 DEF Base, TypeOK
  <2>2. CASE ~(Reachable /\ UNCHANGED vmm)
    <3>1. PICK v \in Vmms :
             /\ vmm' = [id |-> v, frozen |-> FALSE, at |-> arts[task[p].seen.cp], own |-> TRUE]
             /\ task' = [task EXCEPT ![p].pc = "rFinish", ![p].vm = v]
      BY <2>2 DEF ResumeLaunch
    <3> QED BY <1>0, <3>1 DEF Opt
  <2> QED BY <2>1, <2>2
<1>2. Moved(p, "rFinish") /\ task'[p].seen = task[p].seen /\ task'[p].vm = v
  BY <1>1, VmMoves DEF Base
<1>3. TypeOK'
  BY <1>0, <1>1, <1>2 DEF Base, TypeOK, Moved
<1>4. HoldsSaved(p) /\ HoldsSource(p) /\ task'[p].seen.cp \in Arts
  BY <1>0, <1>2 DEF Base, Equipped, HoldsSaved, HoldsSource
<1>5. "rFinish" \in Pcs \ (PausePcs \cup OutPcs)
  OBVIOUS
<1> QED BY <1>0, <1>1, <1>2, <1>3, <1>4, <1>5, BaseMove DEF Base, Chosen

\* A start takes the VMM over that answers, gives up or boots the machine.
LEMMA LaunchCases ==
    ASSUME TypeOK, NEW p \in Procs, NEW pc \in {"sCommit", "iCommit"}, Launches(p, pc)
    PROVE  \/ Done(p) /\ UNCHANGED vmm
           \/ \E v \in Vmms :
                 /\ task' = [task EXCEPT ![p].pc = pc, ![p].vm = v]
                 /\ \/ vmm' = vmm /\ vmm # None /\ vmm.id = v
                    \/ /\ vmm' = [id |-> v, frozen |-> FALSE, at |-> disk, own |-> TRUE]
                       /\ v # rec.pid
<1>1. CASE Reachable /\ task' = [task EXCEPT ![p].pc = pc, ![p].vm = vmm.id] /\ UNCHANGED vmm
  <2>1. vmm.id \in Vmms /\ vmm # None
    BY <1>1 DEF Reachable, TypeOK, Opt
  <2> QED BY <1>1, <2>1
<1>2. CASE Boots(p, pc)
  BY <1>2 DEF Boots, FreshVmm
<1> QED BY <1>1, <1>2 DEF Launches

\* The launch of any start keeps the invariant.
LEMMA BaseLaunches ==
    ASSUME Base, NEW p \in Procs, NEW pc \in {"sCommit", "iCommit"},
           task[p].pc \in {"sLaunch", "iLaunch", "uLaunch"},
           pc = "sCommit" => task[p].pc = "sLaunch",
           Launches(p, pc) \/ (Done(p) /\ UNCHANGED vmm),
           UNCHANGED <<rec, ops, arts, disk, marker, known, faults, loose>>
    PROVE  Base'
<1>1. CASE Done(p) /\ UNCHANGED vmm
  <2>1. Moved(p, "idle")
    BY <1>1, DoneMoves DEF Base
  <2>2. TypeOK'
    BY <1>1, <2>1 DEF Base, TypeOK, Moved
  <2> QED BY <2>1, <2>2, IdleBase DEF Base, Chosen
<1>2. ASSUME NEW v \in Vmms, task' = [task EXCEPT ![p].pc = pc, ![p].vm = v],
             vmm' \in Opt([id : Vmms, frozen : BOOLEAN, at : Work, own : BOOLEAN])
      PROVE  Base'
  <2>1. Moved(p, pc) /\ task'[p].vm = v
    BY <1>2, VmMoves DEF Base
  <2>2. TypeOK'
    BY <1>2, <2>1 DEF Base, TypeOK, Moved
  <2>3. /\ pc \in Pcs \ (PausePcs \cup OutPcs \cup SeenPcs \cup ResumePcs)
        /\ SourcePc(p, pc) => HoldsSource(p)
    BY DEF SourcePc, HoldsSource
  <2> QED BY <2>1, <2>2, <2>3, BaseMove DEF Base, Chosen
<1>3. ASSUME NEW v \in Vmms
      PROVE  [id |-> v, frozen |-> FALSE, at |-> disk, own |-> TRUE]
                \in Opt([id : Vmms, frozen : BOOLEAN, at : Work, own : BOOLEAN])
  BY DEF Opt, Base, TypeOK
<1>4. \/ Done(p) /\ UNCHANGED vmm
      \/ \E v \in Vmms : /\ task' = [task EXCEPT ![p].pc = pc, ![p].vm = v]
                         /\ vmm' \in Opt([id : Vmms, frozen : BOOLEAN, at : Work, own : BOOLEAN])
  <2>1. TypeOK /\ vmm \in Opt([id : Vmms, frozen : BOOLEAN, at : Work, own : BOOLEAN])
    BY DEF Base, TypeOK
  <2>2. CASE Done(p) /\ UNCHANGED vmm
    BY <2>2
  <2>3. CASE Launches(p, pc)
    <3> DEFINE Takes(v) == task' = [task EXCEPT ![p].pc = pc, ![p].vm = v]
    <3>1. \/ Done(p) /\ UNCHANGED vmm
          \/ \E v \in Vmms :
                /\ Takes(v)
                /\ \/ vmm' = vmm /\ vmm # None /\ vmm.id = v
                   \/ /\ vmm' = [id |-> v, frozen |-> FALSE, at |-> disk, own |-> TRUE]
                      /\ v # rec.pid
      BY <2>1, <2>3, LaunchCases
    <3> HIDE DEF Takes
    <3>2. \/ Done(p) /\ UNCHANGED vmm
          \/ \E v \in Vmms :
                /\ Takes(v)
                /\ vmm' \in Opt([id : Vmms, frozen : BOOLEAN, at : Work, own : BOOLEAN])
      BY <1>3, <2>1, <3>1
    <3> QED BY <3>2 DEF Takes
  <2> QED BY <2>2, <2>3
<1> QED BY <1>1, <1>2, <1>4

\* An explicit, an implicit or an automatic start launches.
LEMMA BaseStartLaunch ==
    ASSUME Base, NEW p \in Procs, StartLaunch(p) \/ ImplicitLaunch(p) \/ RestartLaunch(p)
    PROVE  Base'
<1>1. CASE StartLaunch(p)
  BY <1>1, BaseLaunches DEF StartLaunch
<1>2. CASE ImplicitLaunch(p)
  BY <1>2, BaseLaunches DEF ImplicitLaunch
<1>3. CASE RestartLaunch(p)
  BY <1>3, BaseLaunches DEF RestartLaunch, Launches
<1> QED BY <1>1, <1>2, <1>3

\* RestartStops keeps the invariant.
LEMMA BaseRestartStops ==
    ASSUME Base, NEW p \in Procs, RestartStops(p)
    PROVE  Base'
<1> USE DEF Base
<1>1. Moved(p, "idle")
  BY DoneMoves DEF RestartStops
<1>2. TypeOK'
  <2>1. task' \in [Procs -> Tasks]
    BY <1>1 DEF Moved
  <2> QED BY <2>1 DEF RestartStops, TypeOK, Rows, Opt, Work
<1> QED BY <1>1, <1>2, IdleBase, NoneAssumption
     DEF RestartStops, Chosen, Equipped, TypeOK, Rows, HoldsSaved

\* recover_if_unreachable reads the row again.
LEMMA BaseStartReread ==
    ASSUME Base, NEW p \in Procs, StartReread(p)
    PROVE  Base'
<1>1. Moved(p, "sReprobe")
  BY SeenMoves DEF Base, TypeOK, StartReread
<1>2. TypeOK'
  BY <1>1 DEF Base, TypeOK, Moved, StartReread
<1>3. SourcePc(p, "sReprobe") => HoldsSource(p)
  BY DEF StartReread, SourcePc, HoldsSource
<1> QED BY <1>1, <1>2, <1>3, BaseMove DEF Base, Chosen, StartReread

\* Steps of no request.
LEMMA BaseWorld ==
    ASSUME Base, GuestWorks \/ VmmExits \/ Reload
    PROVE  Base'
<1>1. /\ UNCHANGED <<ops, arts, task>> /\ rec'.cp = rec.cp
      /\ rec'.state = "Paused" => rec.state = "Paused"
  BY DEF GuestWorks, VmmExits, Reload, Base, TypeOK, Rows
<1>2. TypeOK'
  <2>1. CASE GuestWorks
    <3>1. /\ vmm \in [id : Vmms, frozen : BOOLEAN, at : Work, own : BOOLEAN]
          /\ vmm.at + 1 \in Work
      BY <2>1, BoundAssumption DEF Base, TypeOK, GuestWorks, Reachable, Opt, Work
    <3>2. /\ vmm' = [vmm EXCEPT !.at = vmm.at + 1]
          /\ disk' = (IF vmm.own THEN vmm.at + 1 ELSE disk)
          /\ known' = (IF Alive(rec.pid) THEN vmm.at + 1 ELSE known)
          /\ UNCHANGED <<rec, ops, arts, marker, task, faults, loose>>
      BY <2>1 DEF GuestWorks
    <3> QED BY <3>1, <3>2 DEF Base, TypeOK, Opt
  <2>2. CASE VmmExits
    BY <2>2 DEF Base, TypeOK, VmmExits, Opt
  <2>3. CASE Reload
    BY <2>3 DEF Base, TypeOK, Reload, Rows, Opt
  <2> QED BY <2>1, <2>2, <2>3
<1> QED BY <1>1, <1>2 DEF Base, Locks, HoldsSaved, HoldsSource, Equipped, Chosen, Keyed

\* Retiring the keys of a machine that runs.
LEMMA BaseResumeRunning ==
    ASSUME Base, NEW p \in Procs, NEW op \in Opt(Ops), ResumeRunning(p, op)
    PROVE  Base'
<1>1. /\ SavedFree /\ ops' = Consumed
      /\ UNCHANGED <<rec, vmm, arts, disk, marker, known, task, faults, loose>>
  BY DEF ResumeRunning
<1>2. TypeOK'
  BY <1>1, ConsumedKeys DEF Base, TypeOK
<1>3. Keyed'
  BY <1>1 DEF Keyed, SavedFree
<1> QED BY <1>1, <1>2, <1>3 DEF Base, Locks, HoldsSaved, HoldsSource, Equipped, Chosen

\* Every step keeps locks, keys and what requests carry.
LEMMA BaseStep == Base /\ [Next]_vars => Base'
<1> SUFFICES ASSUME Base, [Next]_vars PROVE Base'
  OBVIOUS
<1>1. CASE UNCHANGED vars
  BY <1>1 DEF vars, Base, TypeOK, Locks, HoldsSaved, HoldsSource, Equipped, Chosen, Keyed
<1>2. ASSUME NEW p \in Procs, Request(p) PROVE Base'
  BY <1>2, BasePauseBegin, BaseResumeBegin, BaseResumeRunning, BaseOthersBegin DEF Request
<1>3. ASSUME NEW p \in Procs, PauseStep(p) PROVE Base'
  BY <1>3, BasePauseRecover, BasePauseFinishStop, BasePauseCapture, BasePauseSave, BasePausePack,
     BasePauseDurable, BasePauseStop, BasePauseMark, BasePauseRecord, BasePauseFails,
     BasePauseWakes, BasePauseUndo, BasePauseClean, BasePauseRecovered, BasePauseIntent,
     BaseSaveFails, BaseGuardFails
     DEF PauseStep
<1>4. ASSUME NEW p \in Procs, ResumeStep(p) PROVE Base'
  BY <1>4, BaseResumeThaw, BaseResumeThawed, BaseResumeStop, BaseResumeInstall, BaseResumeFinish,
     BaseResumeClean, BaseResumeFails, BaseResumeLaunch
     DEF ResumeStep
<1>5. ASSUME NEW p \in Procs, StartStep(p) PROVE Base'
  BY <1>5, BaseStartProbe, BaseStartOrphan, BaseStartReprobe, BaseStartKill, BaseStartClear,
     BaseStartEnsure, BaseStartCommit, BaseStartReread, BaseStartLaunch
     DEF StartStep
<1>6. ASSUME NEW p \in Procs, StopStep(p) \/ CheckpointStep(p) \/ Crash(p) PROVE Base'
  BY <1>6, BaseStopKill, BaseStopCommit, BaseCheckpointSave, BaseCheckpointThaw, BaseCrash
     DEF StopStep, CheckpointStep
<1>7. ASSUME NEW p \in Procs, ImplicitStep(p) PROVE Base'
  BY <1>7, BaseStartLaunch, BaseRestartStops DEF ImplicitStep
<1> QED BY <1>1, <1>2, <1>3, <1>4, <1>5, <1>6, <1>7, BaseWorld DEF Next, Step

\* The locks exclude, requests carry what they use, and keys of pauses in service
\* are active, also with loose starts.
LEMMA BaseHolds == Spec => []Base
BY BaseInit, BaseStep, PTL DEF Spec

\* Rows, keys, artifacts and requests stay what they are declared to be.
THEOREM Types == Spec => []TypeOK
<1>1. Base => TypeOK
  BY DEF Base
<1> QED BY BaseHolds, <1>1, PTL

\* No capture runs for a key a resume has retired, also with loose starts:
\* Consumed happens only under the lock of the saved execution.
THEOREM SpentKeysRest == Spec => []SpentOperationsRest
<1>1. Base => SpentOperationsRest
  BY DEF Base, Keyed, SpentOperationsRest
<1> QED BY BaseHolds, <1>1, PTL

-----------------------------------------------------------------------------
(* Requests among each other, until a start is loose *)

\* The step of p meets no other request that relies on what it changes.
Undisturbed(p) ==
    \/ HoldsSaved(p) /\ (HoldsSource(p) \/ rec.cp # None)
    \/ HoldsSource(p) /\ rec.cp = None /\ rec'.cp = None
    \/ HoldsSaved(p) /\ UNCHANGED <<rec, vmm, disk, marker, known>>
    \/ UNCHANGED <<rec, vmm, arts, disk, marker, known>>
    \/ TakesNoLock(p, task[p].pc)

\* Every other request in service holds a lock.
LEMMA Locked ==
    ASSUME TypeOK, NEW q \in Procs
    PROVE  \/ task[q].pc = "idle" \/ HoldsSaved(q) \/ HoldsSource(q)
           \/ TakesNoLock(q, task[q].pc)
<1>1. task[q].pc \in Pcs
  BY DEF TypeOK, Tasks
<1> QED BY <1>1 DEF HoldsSaved, HoldsSource, TakesNoLock

\* While something is saved, whoever holds the saved-execution lock is alone.
LEMMA Alone ==
    ASSUME Inv, Lonely, NEW p \in Procs, HoldsSaved(p), HoldsSource(p) \/ rec.cp # None,
           NEW q \in Procs \ {p}
    PROVE  task[q].pc = "idle"
<1>1. ~HoldsSaved(q) /\ (HoldsSource(p) => ~HoldsSource(q))
  BY DEF Inv, Base, Locks
<1>2. task[q].pc \in Pcs /\ At(q)
  BY DEF Inv, Base, TypeOK, Tasks
<1>3. HoldsSource(q) /\ ~HoldsSaved(q) => rec.cp = None
  BY <1>2 DEF At, HoldsSource, HoldsSaved
<1>4. ~TakesNoLock(q, task[q].pc)
  BY DEF Lonely, HoldsSaved
<1> QED BY <1>1, <1>3, <1>4, Locked DEF Inv, Base

\* While nothing is saved, a pause waits beside a request that holds the source.
LEMMA Meek ==
    ASSUME Inv, Lonely, NEW p \in Procs, HoldsSource(p), rec.cp = None,
           NEW q \in Procs \ {p}
    PROVE  task[q].pc \in {"idle", "pCapture", "pClean"}
<1>1. ~HoldsSource(q) /\ task[q].pc \in Pcs /\ At(q)
  BY DEF Inv, Base, Locks, TypeOK, Tasks
<1>2. HoldsSaved(q) =>
         task[q].pc \in {"pRecover", "pFinishStop", "pCapture", "pRecord", "pUndo", "pClean"}
  BY <1>1 DEF HoldsSaved, HoldsSource
<1>3. rec.state \notin {"Pausing", "Paused"}
  BY DEF Inv, RowTrue
<1>4. task[q].pc \notin {"pRecover", "pFinishStop", "pRecord"}
  BY <1>1, <1>3 DEF At
<1>5. task[q].pc # "pUndo"
  <2>1. task[q].pc = "pUndo" => task[q].out \in Arts /\ rec.cp = task[q].out
    BY DEF Inv, Base, Equipped, Chosen
  <2> QED BY <2>1, NoneAssumption
<1>6. ~TakesNoLock(q, task[q].pc)
  BY DEF Lonely, HoldsSource
<1> QED BY <1>1, <1>2, <1>4, <1>5, <1>6, Locked DEF Inv, Base

\* A process that serves no request relies on nothing.
LEMMA AtIdle ==
    ASSUME NEW q \in Procs, task'[q].pc = "idle"
    PROVE  At(q)'
BY DEF At, Named, Alive

\* A pause that waits, or cleans up, relies on no more than that nothing is saved.
LEMMA AtMeek ==
    ASSUME NEW q \in Procs, task'[q].pc \in {"pCapture", "pClean"}, rec'.cp = None
    PROVE  At(q)'
BY DEF At, Named, Alive

\* What no step changed is still relied on.
LEMMA AtFrame ==
    ASSUME NEW q \in Procs, At(q), task'[q] = task[q],
           UNCHANGED <<rec, vmm, arts, disk, marker, known>>
    PROVE  At(q)'
BY DEF At, Named, Alive

\* Only pause and resume rely on artifacts.
LEMMA AtArtifacts ==
    ASSUME NEW q \in Procs, At(q), ~HoldsSaved(q), task'[q] = task[q],
           UNCHANGED <<rec, vmm, disk, marker, known>>
    PROVE  At(q)'
BY DEF At, Named, Alive, HoldsSaved

\* The invariant after a step of p.
LEMMA InvMove ==
    ASSUME Inv, Lonely, Base', NEW p \in Procs, \A q \in Procs \ {p} : task'[q] = task[q],
           Undisturbed(p), At(p)', RowTrue', DisksTrue', Unkilled'
    PROVE  Inv'
<1>1. ASSUME NEW q \in Procs \ {p} PROVE At(q)'
  <2>1. CASE HoldsSaved(p) /\ (HoldsSource(p) \/ rec.cp # None)
    BY <2>1, Alone, AtIdle
  <2>2. CASE HoldsSource(p) /\ rec.cp = None /\ rec'.cp = None
    BY <2>2, Meek, AtIdle, AtMeek
  <2>3. CASE UNCHANGED <<rec, vmm, arts, disk, marker, known>>
    BY <2>3, AtFrame DEF Inv
  <2>4. CASE HoldsSaved(p) /\ UNCHANGED <<rec, vmm, disk, marker, known>>
    BY <2>4, AtArtifacts DEF Inv, Base, Locks
  <2>5. CASE TakesNoLock(p, task[p].pc)
    BY <2>5, AtIdle DEF Lonely
  <2> QED BY <2>1, <2>2, <2>3, <2>4, <2>5 DEF Undisturbed
<1> QED BY <1>1 DEF Inv

\* Without kills, a step that neither launches nor renames keeps the VMM accounted for.
LEMMA UnkilledKept ==
    ASSUME Unkilled, NEW p \in Procs, \A q \in Procs \ {p} : task'[q] = task[q],
           task[p].pc \notin CommitPcs, faults' = faults, rec'.pid = rec.pid,
           vmm' # None => vmm # None /\ vmm'.id = vmm.id /\ vmm'.own = vmm.own
    PROVE  Unkilled'
BY DEF Unkilled, Alive

\* While any other request is in service, the row of a running machine names its VMM.
LEMMA RowNamed ==
    ASSUME Inv, Lonely, NEW p \in Procs, task[p].pc # "idle", ~Recording(p)
    PROVE  rec.state = "Running" => Named
<1>1. \A q \in Procs : ~Recording(q)
  BY DEF Lonely, Recording
<1> QED BY <1>1 DEF Inv, RowTrue

\* Steps that change nothing but requests and keys.
LEMMA RowFrame ==
    ASSUME RowTrue, DisksTrue, rec.state = "Running" => Named,
           UNCHANGED <<rec, vmm, arts, disk, marker, known>>
    PROVE  RowTrue' /\ DisksTrue'
BY DEF RowTrue, DisksTrue, Named, Alive

\* PauseRecover wakes the guest of the row.
LEMMA InvPauseRecover ==
    ASSUME Inv, Lonely, NEW p \in Procs, PauseRecover(p)
    PROVE  Inv'
<1>0. /\ TypeOK /\ Equipped /\ Chosen /\ RowTrue /\ DisksTrue /\ At(p) /\ Unkilled
      /\ Base' /\ (rec.state = "Running" => Named)
  BY BasePauseRecover, RowNamed DEF Inv, Base, Recording, PauseRecover
<1>1. \/ Moved(p, "idle")
      \/ Moved(p, "pRecovered") /\ Kept(p)
  BY <1>0, DoneMoves, GotoMoves DEF PauseRecover
<1>2. /\ task[p].pc = "pRecover" /\ rec.state = "Pausing" /\ rec.cp # None
      /\ rec.pid \in Vmms /\ Named /\ marker = None
  BY <1>0, NoneAssumption
     DEF PauseRecover, RowTrue, DisksTrue, Chosen, Equipped, TypeOK, Rows, Opt, At, Named, Alive
<1>3. Undisturbed(p)
  BY <1>0, <1>2 DEF Undisturbed, PauseRecover, TypeOK, Rows, HoldsSaved, HoldsSource, TakesNoLock
<1>4. RowTrue'
  BY <1>0, <1>2, NoneAssumption DEF RowTrue, Named, Alive, PauseRecover, TypeOK, Rows, Opt, Work
<1>5. DisksTrue'
  BY <1>0, <1>2, NoneAssumption DEF DisksTrue, RowTrue, PauseRecover, TypeOK, Rows, Opt, Work
<1>6. At(p)'
  BY <1>0, <1>1, <1>2, NoneAssumption
     DEF Moved, Kept, PauseRecover, TypeOK, Rows, Opt, At, Named, Alive
<1>7. Unkilled'
  BY <1>0, <1>1, <1>2, UnkilledKept DEF Moved, PauseRecover, TypeOK, Rows, Opt
<1> QED BY <1>0, <1>1, <1>3, <1>4, <1>5, <1>6, <1>7, InvMove DEF Moved

\* PauseFinishStop ends a frozen VMM.
LEMMA InvPauseFinishStop ==
    ASSUME Inv, Lonely, NEW p \in Procs, PauseFinishStop(p)
    PROVE  Inv'
<1>0. /\ TypeOK /\ Equipped /\ Chosen /\ RowTrue /\ DisksTrue /\ At(p) /\ Unkilled
      /\ Base' /\ (rec.state = "Running" => Named)
  BY BasePauseFinishStop, RowNamed DEF Inv, Base, Recording, PauseFinishStop
<1>1. Moved(p, "idle")
  BY <1>0, DoneMoves DEF PauseFinishStop
<1>2. /\ task[p].pc = "pFinishStop" /\ rec.state = "Paused" /\ rec.cp # None
  BY <1>0, NoneAssumption
     DEF PauseFinishStop, RowTrue, DisksTrue, Chosen, Equipped, TypeOK, Rows, Opt, At, Named,
         Alive
<1>3. Undisturbed(p)
  BY <1>0, <1>2 DEF Undisturbed, PauseFinishStop, TypeOK, Rows, HoldsSaved, HoldsSource, TakesNoLock
<1>4. RowTrue'
  BY <1>0, <1>2, NoneAssumption DEF RowTrue, Named, Alive, PauseFinishStop, TypeOK, Rows, Opt, Work
<1>5. DisksTrue'
  BY <1>0, <1>2, NoneAssumption DEF DisksTrue, RowTrue, PauseFinishStop, TypeOK, Rows, Opt, Work
<1>6. At(p)'
  BY <1>1, AtIdle DEF Moved
<1>7. Unkilled'
  BY <1>0, <1>1, <1>2, UnkilledKept DEF Moved, PauseFinishStop, TypeOK, Rows, Opt
<1> QED BY <1>0, <1>1, <1>3, <1>4, <1>5, <1>6, <1>7, InvMove DEF Moved

\* PauseCapture goes on for a machine that runs.
LEMMA InvPauseCapture ==
    ASSUME Inv, Lonely, NEW p \in Procs, PauseCapture(p)
    PROVE  Inv'
<1>0. /\ TypeOK /\ Equipped /\ Chosen /\ RowTrue /\ DisksTrue /\ At(p) /\ Unkilled
      /\ Base' /\ (rec.state = "Running" => Named)
  BY BasePauseCapture, RowNamed DEF Inv, Base, Recording, PauseCapture
<1>1. \/ Moved(p, "idle")
      \/ Moved(p, "pIntent") /\ rec.state = "Running"
  BY <1>0, DoneMoves, GotoMoves DEF PauseCapture, ResolvesRunning
<1>2. /\ task[p].pc = "pCapture" /\ rec.cp = None
      /\ rec.state = "Running" => Named
  BY <1>0, NoneAssumption
     DEF PauseCapture, RowTrue, DisksTrue, Chosen, Equipped, TypeOK, Rows, Opt, At, Named, Alive
<1>3. Undisturbed(p)
  BY <1>0, <1>2 DEF Undisturbed, PauseCapture, TypeOK, Rows, HoldsSaved, HoldsSource, TakesNoLock
<1>4. RowTrue'
  BY <1>0, RowFrame DEF PauseCapture
<1>5. DisksTrue'
  BY <1>0, RowFrame DEF PauseCapture
<1>6. At(p)'
  <2>1. CASE Moved(p, "idle")
    BY <2>1, AtIdle DEF Moved
  <2>2. CASE Moved(p, "pIntent") /\ rec.state = "Running"
    BY <1>2, <2>2 DEF Moved, PauseCapture, At, Named, Alive
  <2> QED BY <1>1, <2>1, <2>2
<1>7. Unkilled'
  BY <1>0, <1>1, <1>2, UnkilledKept DEF Moved, PauseCapture, TypeOK, Rows, Opt
<1> QED BY <1>0, <1>1, <1>3, <1>4, <1>5, <1>6, <1>7, InvMove DEF Moved

\* PauseSave freezes the guest.
LEMMA InvPauseSave ==
    ASSUME Inv, Lonely, NEW p \in Procs, PauseSave(p)
    PROVE  Inv'
<1>0. /\ TypeOK /\ Equipped /\ Chosen /\ RowTrue /\ DisksTrue /\ At(p) /\ Unkilled
      /\ Base' /\ (rec.state = "Running" => Named)
  BY BasePauseSave, RowNamed DEF Inv, Base, Recording, PauseSave
<1>1. Moved(p, "pPack") /\ Kept(p)
  BY <1>0, GotoMoves DEF PauseSave
<1>2. /\ task[p].pc = "pSave" /\ rec.state = "Pausing" /\ rec.cp = task[p].out /\ rec.cp # None
      /\ Named /\ marker = None
  BY <1>0, NoneAssumption
     DEF PauseSave, RowTrue, DisksTrue, Chosen, Equipped, TypeOK, Rows, Opt, At, Named, Alive
<1>3. Undisturbed(p)
  BY <1>0, <1>2 DEF Undisturbed, PauseSave, TypeOK, Rows, HoldsSaved, HoldsSource, TakesNoLock
<1>4. RowTrue'
  BY <1>0, <1>2, NoneAssumption DEF RowTrue, Named, Alive, PauseSave, TypeOK, Rows, Opt, Work
<1>5. DisksTrue'
  BY <1>0, <1>2, NoneAssumption DEF DisksTrue, RowTrue, PauseSave, TypeOK, Rows, Opt, Work
<1>6. At(p)'
  BY <1>0, <1>1, <1>2, NoneAssumption
     DEF Moved, Kept, PauseSave, TypeOK, Rows, Opt, At, Named, Alive
<1>7. Unkilled'
  BY <1>0, <1>1, <1>2, UnkilledKept DEF Moved, PauseSave, TypeOK, Rows, Opt
<1> QED BY <1>0, <1>1, <1>3, <1>4, <1>5, <1>6, <1>7, InvMove DEF Moved

\* PausePack completes the artifact.
LEMMA InvPausePack ==
    ASSUME Inv, Lonely, NEW p \in Procs, PausePack(p)
    PROVE  Inv'
<1>0. /\ TypeOK /\ Equipped /\ Chosen /\ RowTrue /\ DisksTrue /\ At(p) /\ Unkilled
      /\ Base' /\ (rec.state = "Running" => Named)
  BY BasePausePack, RowNamed DEF Inv, Base, Recording, PausePack
<1>1. Moved(p, "pDurable") /\ Kept(p)
  BY <1>0, GotoMoves DEF PausePack
<1>2. /\ task[p].pc = "pPack" /\ rec.state = "Pausing" /\ rec.cp = task[p].out /\ rec.cp \in Arts
      /\ Named /\ vmm.frozen /\ marker = None /\ known = vmm.at
  BY <1>0, NoneAssumption
     DEF PausePack, RowTrue, DisksTrue, Chosen, Equipped, TypeOK, Rows, Opt, At, Named, Alive
<1>3. Undisturbed(p)
  BY <1>0, <1>2 DEF Undisturbed, PausePack, TypeOK, Rows, HoldsSaved, HoldsSource, TakesNoLock
<1>4. RowTrue'
  BY <1>0, <1>2, NoneAssumption DEF RowTrue, Named, Alive, PausePack, TypeOK, Rows, Opt, Work
<1>5. DisksTrue'
  BY <1>0, <1>2, NoneAssumption DEF DisksTrue, RowTrue, PausePack, TypeOK, Rows, Opt, Work
<1>6. At(p)'
  BY <1>0, <1>1, <1>2, NoneAssumption
     DEF Moved, Kept, PausePack, TypeOK, Rows, Opt, At, Named, Alive
<1>7. Unkilled'
  BY <1>0, <1>1, <1>2, UnkilledKept DEF Moved, PausePack, TypeOK, Rows, Opt
<1> QED BY <1>0, <1>1, <1>3, <1>4, <1>5, <1>6, <1>7, InvMove DEF Moved

\* PauseDurable commits what PausePack wrote.
LEMMA InvPauseDurable ==
    ASSUME Inv, Lonely, NEW p \in Procs, PauseDurable(p)
    PROVE  Inv'
<1>0. /\ TypeOK /\ Equipped /\ Chosen /\ RowTrue /\ DisksTrue /\ At(p) /\ Unkilled
      /\ Base' /\ (rec.state = "Running" => Named)
  BY BasePauseDurable, RowNamed DEF Inv, Base, Recording, PauseDurable
<1>1. Moved(p, "pStop") /\ Kept(p)
  BY <1>0, GotoMoves DEF PauseDurable
<1>2. /\ task[p].pc = "pDurable" /\ rec.state = "Pausing" /\ rec.cp = task[p].out /\ rec.cp \in Arts
      /\ Named /\ (vmm # None => vmm.frozen) /\ marker = None /\ arts[task[p].out] = known
  BY <1>0, NoneAssumption
     DEF PauseDurable, RowTrue, DisksTrue, Chosen, Equipped, TypeOK, Rows, Opt, At, Named, Alive
<1>3. Undisturbed(p)
  BY <1>0, <1>2 DEF Undisturbed, PauseDurable, TypeOK, Rows, HoldsSaved, HoldsSource, TakesNoLock
<1>4. RowTrue'
  BY <1>0, <1>2, NoneAssumption DEF RowTrue, Named, Alive, PauseDurable, TypeOK, Rows, Opt, Work
<1>5. DisksTrue'
  BY <1>0, <1>2, NoneAssumption DEF DisksTrue, RowTrue, PauseDurable, TypeOK, Rows, Opt, Work
<1>6. At(p)'
  BY <1>0, <1>1, <1>2, NoneAssumption
     DEF Moved, Kept, PauseDurable, TypeOK, Rows, Opt, At, Named, Alive
<1>7. Unkilled'
  BY <1>0, <1>1, <1>2, UnkilledKept DEF Moved, PauseDurable, TypeOK, Rows, Opt
<1> QED BY <1>0, <1>1, <1>3, <1>4, <1>5, <1>6, <1>7, InvMove DEF Moved

\* PauseStop ends the VMM.
LEMMA InvPauseStop ==
    ASSUME Inv, Lonely, NEW p \in Procs, PauseStop(p)
    PROVE  Inv'
<1>0. /\ TypeOK /\ Equipped /\ Chosen /\ RowTrue /\ DisksTrue /\ At(p) /\ Unkilled
      /\ Base' /\ (rec.state = "Running" => Named)
  BY BasePauseStop, RowNamed DEF Inv, Base, Recording, PauseStop
<1>1. Moved(p, "pMark") /\ Kept(p)
  BY <1>0, GotoMoves DEF PauseStop
<1>2. /\ task[p].pc = "pStop" /\ rec.state = "Paused" /\ rec.cp = task[p].out /\ rec.cp # None
      /\ arts[task[p].out] = known
  BY <1>0, NoneAssumption
     DEF PauseStop, RowTrue, DisksTrue, Chosen, Equipped, TypeOK, Rows, Opt, At, Named, Alive
<1>3. Undisturbed(p)
  BY <1>0, <1>2 DEF Undisturbed, PauseStop, TypeOK, Rows, HoldsSaved, HoldsSource, TakesNoLock
<1>4. RowTrue'
  BY <1>0, <1>2, NoneAssumption DEF RowTrue, Named, Alive, PauseStop, TypeOK, Rows, Opt, Work
<1>5. DisksTrue'
  BY <1>0, <1>2, NoneAssumption DEF DisksTrue, RowTrue, PauseStop, TypeOK, Rows, Opt, Work
<1>6. At(p)'
  BY <1>0, <1>1, <1>2, NoneAssumption
     DEF Moved, Kept, PauseStop, TypeOK, Rows, Opt, At, Named, Alive
<1>7. Unkilled'
  BY <1>0, <1>1, <1>2, UnkilledKept DEF Moved, PauseStop, TypeOK, Rows, Opt
<1> QED BY <1>0, <1>1, <1>3, <1>4, <1>5, <1>6, <1>7, InvMove DEF Moved

\* PauseMark records the disks at rest.
LEMMA InvPauseMark ==
    ASSUME Inv, Lonely, NEW p \in Procs, PauseMark(p)
    PROVE  Inv'
<1>0. /\ TypeOK /\ Equipped /\ Chosen /\ RowTrue /\ DisksTrue /\ At(p) /\ Unkilled
      /\ Base' /\ (rec.state = "Running" => Named)
  BY BasePauseMark, RowNamed DEF Inv, Base, Recording, PauseMark
<1>1. Moved(p, "pRecord") /\ Kept(p)
  BY <1>0, GotoMoves DEF PauseMark
<1>2. /\ task[p].pc = "pMark" /\ rec.state = "Paused" /\ rec.cp = task[p].out /\ rec.cp # None
      /\ arts[task[p].out] = known /\ vmm = None
  BY <1>0, NoneAssumption
     DEF PauseMark, RowTrue, DisksTrue, Chosen, Equipped, TypeOK, Rows, Opt, At, Named, Alive
<1>3. Undisturbed(p)
  BY <1>0, <1>2 DEF Undisturbed, PauseMark, TypeOK, Rows, HoldsSaved, HoldsSource, TakesNoLock
<1>4. RowTrue'
  BY <1>0, <1>2, NoneAssumption DEF RowTrue, Named, Alive, PauseMark, TypeOK, Rows, Opt, Work
<1>5. DisksTrue'
  BY <1>0, <1>2, NoneAssumption DEF DisksTrue, RowTrue, PauseMark, TypeOK, Rows, Opt, Work
<1>6. At(p)'
  BY <1>0, <1>1, <1>2, NoneAssumption
     DEF Moved, Kept, PauseMark, TypeOK, Rows, Opt, At, Named, Alive
<1>7. Unkilled'
  BY <1>0, <1>1, <1>2, UnkilledKept DEF Moved, PauseMark, TypeOK, Rows, Opt
<1> QED BY <1>0, <1>1, <1>3, <1>4, <1>5, <1>6, <1>7, InvMove DEF Moved

\* PauseRecord ends the pause.
LEMMA InvPauseRecord ==
    ASSUME Inv, Lonely, NEW p \in Procs, PauseRecord(p)
    PROVE  Inv'
<1>0. /\ TypeOK /\ Equipped /\ Chosen /\ RowTrue /\ DisksTrue /\ At(p) /\ Unkilled
      /\ Base' /\ (rec.state = "Running" => Named)
  BY BasePauseRecord, RowNamed DEF Inv, Base, Recording, PauseRecord
<1>1. Moved(p, "idle")
  BY <1>0, DoneMoves DEF PauseRecord
<1>2. /\ task[p].pc = "pRecord" /\ rec.state = "Paused" /\ rec.cp = task[p].out /\ rec.cp # None
      /\ arts[task[p].out] = known /\ vmm = None
  BY <1>0, NoneAssumption
     DEF PauseRecord, RowTrue, DisksTrue, Chosen, Equipped, TypeOK, Rows, Opt, At, Named, Alive
<1>3. Undisturbed(p)
  BY <1>0, <1>2 DEF Undisturbed, PauseRecord, TypeOK, Rows, HoldsSaved, HoldsSource, TakesNoLock
<1>4. RowTrue'
  BY <1>0, <1>2, NoneAssumption DEF RowTrue, Named, Alive, PauseRecord, TypeOK, Rows, Opt, Work
<1>5. DisksTrue'
  BY <1>0, <1>2, NoneAssumption DEF DisksTrue, RowTrue, PauseRecord, TypeOK, Rows, Opt, Work
<1>6. At(p)'
  BY <1>1, AtIdle DEF Moved
<1>7. Unkilled'
  BY <1>2 DEF Unkilled, PauseRecord
<1> QED BY <1>0, <1>1, <1>3, <1>4, <1>5, <1>6, <1>7, InvMove DEF Moved

\* PauseFails leaves the capture.
LEMMA InvPauseFails ==
    ASSUME Inv, Lonely, NEW p \in Procs, PauseFails(p)
    PROVE  Inv'
<1>0. /\ TypeOK /\ Equipped /\ Chosen /\ RowTrue /\ DisksTrue /\ At(p) /\ Unkilled
      /\ Base' /\ (rec.state = "Running" => Named)
  BY BasePauseFails, RowNamed DEF Inv, Base, Recording, PauseFails
<1>1. Moved(p, "pFail") /\ Kept(p)
  BY <1>0, GotoMoves DEF PauseFails
<1>2. /\ task[p].pc \in {"pPack", "pDurable", "pStop"}
      /\ rec.cp = task[p].out /\ Named
  BY <1>0, NoneAssumption
     DEF PauseFails, RowTrue, DisksTrue, Chosen, Equipped, TypeOK, Rows, Opt, At, Named, Alive
<1>3. Undisturbed(p)
  BY <1>0, <1>2 DEF Undisturbed, PauseFails, TypeOK, Rows, HoldsSaved, HoldsSource, TakesNoLock
<1>4. RowTrue'
  BY <1>0, RowFrame DEF PauseFails
<1>5. DisksTrue'
  BY <1>0, RowFrame DEF PauseFails
<1>6. At(p)'
  BY <1>0, <1>1, <1>2, NoneAssumption
     DEF Moved, Kept, PauseFails, TypeOK, Rows, Opt, At, Named, Alive
<1>7. Unkilled'
  BY <1>0, <1>1, <1>2, UnkilledKept DEF Moved, PauseFails, TypeOK, Rows, Opt
<1> QED BY <1>0, <1>1, <1>3, <1>4, <1>5, <1>6, <1>7, InvMove DEF Moved

\* PauseWakes wakes the guest of the row.
LEMMA InvPauseWakes ==
    ASSUME Inv, Lonely, NEW p \in Procs, PauseWakes(p)
    PROVE  Inv'
<1>0. /\ TypeOK /\ Equipped /\ Chosen /\ RowTrue /\ DisksTrue /\ At(p) /\ Unkilled
      /\ Base' /\ (rec.state = "Running" => Named)
  BY BasePauseWakes, RowNamed DEF Inv, Base, Recording, PauseWakes
<1>1. Moved(p, "pUndo") /\ Kept(p)
  BY <1>0, GotoMoves DEF PauseWakes
<1>2. /\ task[p].pc = "pFail" /\ rec.cp = task[p].out /\ rec.cp # None
      /\ Named
  BY <1>0, NoneAssumption
     DEF PauseWakes, RowTrue, DisksTrue, Chosen, Equipped, TypeOK, Rows, Opt, At, Named, Alive
<1>3. Undisturbed(p)
  BY <1>0, <1>2 DEF Undisturbed, PauseWakes, TypeOK, Rows, HoldsSaved, HoldsSource, TakesNoLock
<1>4. RowTrue'
  BY <1>0, <1>2, NoneAssumption DEF RowTrue, Named, Alive, PauseWakes, TypeOK, Rows, Opt, Work
<1>5. DisksTrue'
  BY <1>0, <1>2, NoneAssumption DEF DisksTrue, RowTrue, PauseWakes, TypeOK, Rows, Opt, Work
<1>6. At(p)'
  BY <1>0, <1>1, <1>2, NoneAssumption
     DEF Moved, Kept, PauseWakes, TypeOK, Rows, Opt, At, Named, Alive
<1>7. Unkilled'
  BY <1>0, <1>1, <1>2, UnkilledKept DEF Moved, PauseWakes, TypeOK, Rows, Opt
<1> QED BY <1>0, <1>1, <1>3, <1>4, <1>5, <1>6, <1>7, InvMove DEF Moved

\* A failed SAVE leaves the row as it is and may leave the guest frozen.
LEMMA InvSaveFails ==
    ASSUME Inv, Lonely, NEW p \in Procs, SaveFails(p)
    PROVE  Inv'
<1>0. /\ TypeOK /\ Equipped /\ Chosen /\ RowTrue /\ DisksTrue /\ At(p) /\ Unkilled
      /\ Base' /\ (rec.state = "Running" => Named)
  BY BaseSaveFails, RowNamed DEF Inv, Base, Recording, SaveFails
<1>1. \/ Moved(p, "idle")
      \/ Moved(p, "pUndo") /\ Kept(p) /\ task[p].pc = "pSave"
  BY <1>0, DoneMoves, GotoMoves DEF SaveFails
<1>2. /\ task[p].pc \in {"pSave", "cSave"} /\ rec.state # "Paused" /\ marker = None
      /\ task[p].pc = "cSave" => rec.cp = None
      /\ UNCHANGED <<rec, arts, disk, marker, known, faults>>
  BY <1>0, NoneAssumption DEF SaveFails, RowTrue, DisksTrue, TypeOK, Rows, Opt, At
<1>3. \/ vmm' = vmm
      \/ vmm # None /\ vmm'.id = vmm.id /\ vmm'.own = vmm.own /\ vmm'.at = vmm.at
  BY <1>0 DEF SaveFails, TypeOK, Opt
<1>4. Undisturbed(p)
  BY <1>2 DEF Undisturbed, HoldsSaved, HoldsSource
<1>5. RowTrue'
  BY <1>0, <1>2, <1>3 DEF RowTrue, Named, Alive
<1>6. DisksTrue'
  BY <1>0, <1>2, <1>3 DEF DisksTrue
<1>7. At(p)'
  <2>1. CASE Moved(p, "idle")
    BY <2>1, AtIdle DEF Moved
  <2>2. CASE Moved(p, "pUndo") /\ Kept(p) /\ task[p].pc = "pSave"
    BY <1>0, <1>2, <1>3, <2>2 DEF Moved, Kept, At, Named, Alive
  <2> QED BY <1>1, <2>1, <2>2
<1>8. Unkilled'
  BY <1>0, <1>1, <1>2, <1>3, UnkilledKept DEF Moved
<1> QED BY <1>0, <1>1, <1>4, <1>5, <1>6, <1>7, <1>8, InvMove DEF Moved

\* A guard whose RESUME fails leaves everything as it is.
LEMMA InvGuardFails ==
    ASSUME Inv, Lonely, NEW p \in Procs, GuardFails(p)
    PROVE  Inv'
<1>0. /\ TypeOK /\ Equipped /\ Chosen /\ RowTrue /\ DisksTrue /\ At(p) /\ Unkilled
      /\ Base' /\ (rec.state = "Running" => Named)
  BY BaseGuardFails, RowNamed DEF Inv, Base, Recording, GuardFails
<1>1. \/ Moved(p, "idle")
      \/ Moved(p, "pUndo") /\ Kept(p) /\ task[p].pc = "pFail"
  BY <1>0, DoneMoves, GotoMoves DEF GuardFails
<1>2. UNCHANGED <<rec, vmm, arts, disk, marker, known, faults>> /\ task[p].pc \in {"pFail", "cThaw"}
  BY DEF GuardFails
<1>3. RowTrue' /\ DisksTrue' /\ Undisturbed(p)
  BY <1>0, <1>2, RowFrame DEF Undisturbed
<1>4. At(p)'
  <2>1. CASE Moved(p, "idle")
    BY <2>1, AtIdle DEF Moved
  <2>2. CASE Moved(p, "pUndo") /\ Kept(p) /\ task[p].pc = "pFail"
    BY <1>0, <1>2, <2>2 DEF Moved, Kept, At, Named, Alive
  <2> QED BY <1>1, <2>1, <2>2
<1>5. Unkilled'
  BY <1>0, <1>1, <1>2, UnkilledKept DEF Moved
<1> QED BY <1>0, <1>1, <1>3, <1>4, <1>5, InvMove DEF Moved

\* PauseUndo takes the row back only if its VMM answers.
LEMMA InvPauseUndo ==
    ASSUME Inv, Lonely, NEW p \in Procs, PauseUndo(p)
    PROVE  Inv'
<1>0. /\ TypeOK /\ Equipped /\ Chosen /\ RowTrue /\ DisksTrue /\ At(p) /\ Unkilled
      /\ Base' /\ (rec.state = "Running" => Named)
  BY BasePauseUndo, RowNamed DEF Inv, Base, Recording, PauseUndo
<1>1. \/ Moved(p, "idle")
      \/ Moved(p, "pClean") /\ rec'.cp = None
  <2>1. task[p].out = rec.cp
    BY <1>0 DEF PauseUndo, Chosen
  <2> QED BY <1>0, <2>1, DoneMoves, GotoMoves DEF PauseUndo, TypeOK, Rows
<1>2. /\ task[p].pc = "pUndo" /\ rec.cp = task[p].out /\ rec.cp # None
      /\ Named
  BY <1>0, NoneAssumption
     DEF PauseUndo, RowTrue, DisksTrue, Chosen, Equipped, TypeOK, Rows, Opt, At, Named, Alive
<1>3. Undisturbed(p)
  BY <1>0, <1>2 DEF Undisturbed, PauseUndo, TypeOK, Rows, HoldsSaved, HoldsSource, TakesNoLock
<1>4. RowTrue'
  BY <1>0, <1>2, NoneAssumption
     DEF RowTrue, Named, Alive, PauseUndo, TypeOK, Rows, Opt, Work, Reachable
<1>5. DisksTrue'
  BY <1>0, <1>2, NoneAssumption
     DEF DisksTrue, RowTrue, PauseUndo, TypeOK, Rows, Opt, Work, Reachable, Alive
<1>6. At(p)'
  <2>1. CASE Moved(p, "idle")
    BY <2>1, AtIdle DEF Moved
  <2>2. CASE Moved(p, "pClean") /\ rec'.cp = None
    BY <2>2, AtMeek DEF Moved
  <2> QED BY <1>1, <2>1, <2>2
<1>7. Unkilled'
  BY <1>0, <1>1, <1>2, UnkilledKept DEF Moved, PauseUndo, TypeOK, Rows, Opt
<1> QED BY <1>0, <1>1, <1>3, <1>4, <1>5, <1>6, <1>7, InvMove DEF Moved

\* PauseClean removes an artifact that no row names.
LEMMA InvPauseClean ==
    ASSUME Inv, Lonely, NEW p \in Procs, PauseClean(p)
    PROVE  Inv'
<1>0. /\ TypeOK /\ Equipped /\ Chosen /\ RowTrue /\ DisksTrue /\ At(p) /\ Unkilled
      /\ Base' /\ (rec.state = "Running" => Named)
  BY BasePauseClean, RowNamed DEF Inv, Base, Recording, PauseClean
<1>1. Moved(p, "idle")
  BY <1>0, DoneMoves DEF PauseClean
<1>2. /\ task[p].pc = "pClean" /\ rec.cp = None
      /\ rec.state # "Paused" /\ marker = None
  BY <1>0, NoneAssumption
     DEF PauseClean, RowTrue, DisksTrue, Chosen, Equipped, TypeOK, Rows, Opt, At, Named, Alive
<1>3. Undisturbed(p)
  BY <1>0, <1>2 DEF Undisturbed, PauseClean, TypeOK, Rows, HoldsSaved, HoldsSource, TakesNoLock
<1>4. RowTrue'
  BY <1>0, <1>2, NoneAssumption DEF RowTrue, Named, Alive, PauseClean, TypeOK, Rows, Opt, Work
<1>5. DisksTrue'
  BY <1>0, <1>2, NoneAssumption DEF DisksTrue, RowTrue, PauseClean, TypeOK, Rows, Opt, Work
<1>6. At(p)'
  BY <1>1, AtIdle DEF Moved
<1>7. Unkilled'
  BY <1>0, <1>1, <1>2, UnkilledKept DEF Moved, PauseClean, TypeOK, Rows, Opt
<1> QED BY <1>0, <1>1, <1>3, <1>4, <1>5, <1>6, <1>7, InvMove DEF Moved

\* PauseRecovered says that the guest runs.
LEMMA InvPauseRecovered ==
    ASSUME Inv, Lonely, NEW p \in Procs, PauseRecovered(p)
    PROVE  Inv'
<1>0. /\ TypeOK /\ Equipped /\ Chosen /\ RowTrue /\ DisksTrue /\ At(p) /\ Unkilled
      /\ Base' /\ (rec.state = "Running" => Named)
  BY BasePauseRecovered, RowNamed DEF Inv, Base, Recording, PauseRecovered
<1>1. Moved(p, "pCapture")
  <2>1. rec' \in Rows
    BY <1>0 DEF TypeOK, Base
  <2> QED BY <1>0, <2>1, SeenMoves DEF PauseRecovered
<1>2. /\ task[p].pc = "pRecovered" /\ rec.state = "Pausing"
      /\ rec.pid \in Vmms /\ Named /\ marker = None
  BY <1>0, NoneAssumption
     DEF PauseRecovered, RowTrue, DisksTrue, Chosen, Equipped, TypeOK, Rows, Opt, At, Named,
         Alive
<1>3. Undisturbed(p)
  BY <1>0, <1>2 DEF Undisturbed, PauseRecovered, TypeOK, Rows, HoldsSaved, HoldsSource, TakesNoLock
<1>4. RowTrue'
  BY <1>0, <1>2, NoneAssumption DEF RowTrue, Named, Alive, PauseRecovered, TypeOK, Rows, Opt, Work
<1>5. DisksTrue'
  BY <1>0, <1>2, NoneAssumption DEF DisksTrue, RowTrue, PauseRecovered, TypeOK, Rows, Opt, Work
<1>6. At(p)'
  BY <1>0, <1>1, <1>2, NoneAssumption
     DEF Moved, Kept, PauseRecovered, TypeOK, Rows, Opt, At, Named, Alive
<1>7. Unkilled'
  BY <1>0, <1>1, <1>2, UnkilledKept DEF Moved, PauseRecovered, TypeOK, Rows, Opt
<1> QED BY <1>0, <1>1, <1>3, <1>4, <1>5, <1>6, <1>7, InvMove DEF Moved

\* PauseIntent makes the row name its artifact.
LEMMA InvPauseIntent ==
    ASSUME Inv, Lonely, NEW p \in Procs, NEW a \in Arts, PauseIntent(p, a)
    PROVE  Inv'
<1>0. /\ TypeOK /\ Equipped /\ Chosen /\ RowTrue /\ DisksTrue /\ At(p) /\ Unkilled
      /\ Base' /\ (rec.state = "Running" => Named)
  BY BasePauseIntent, RowNamed DEF Inv, Base, Recording, PauseIntent
<1>1. Moved(p, "pSave") /\ task'[p].out = a
  BY <1>0, OutMoves DEF PauseIntent
<1>2. /\ task[p].pc = "pIntent" /\ rec.cp = None
      /\ Named /\ a # None
  BY <1>0, NoneAssumption
     DEF PauseIntent, RowTrue, DisksTrue, Chosen, Equipped, TypeOK, Rows, Opt, At, Named, Alive
<1>3. Undisturbed(p)
  BY <1>0, <1>2 DEF Undisturbed, PauseIntent, TypeOK, Rows, HoldsSaved, HoldsSource, TakesNoLock
<1>4. RowTrue'
  BY <1>0, <1>2, NoneAssumption DEF RowTrue, Named, Alive, PauseIntent, TypeOK, Rows, Opt, Work
<1>5. DisksTrue'
  BY <1>0, <1>2, NoneAssumption DEF DisksTrue, RowTrue, PauseIntent, TypeOK, Rows, Opt, Work
<1>6. At(p)'
  BY <1>0, <1>1, <1>2, NoneAssumption
     DEF Moved, Kept, PauseIntent, TypeOK, Rows, Opt, At, Named, Alive
<1>7. Unkilled'
  BY <1>0, <1>1, <1>2, UnkilledKept DEF Moved, PauseIntent, TypeOK, Rows, Opt
<1> QED BY <1>0, <1>1, <1>3, <1>4, <1>5, <1>6, <1>7, InvMove DEF Moved

\* ResumeThaw wakes the guest of the row.
LEMMA InvResumeThaw ==
    ASSUME Inv, Lonely, NEW p \in Procs, ResumeThaw(p)
    PROVE  Inv'
<1>0. /\ TypeOK /\ Equipped /\ Chosen /\ RowTrue /\ DisksTrue /\ At(p) /\ Unkilled
      /\ Base' /\ (rec.state = "Running" => Named)
  BY BaseResumeThaw, RowNamed DEF Inv, Base, Recording, ResumeThaw
<1>1. \/ Moved(p, "idle")
      \/ Moved(p, "rThawed") /\ Kept(p)
  BY <1>0, DoneMoves, GotoMoves DEF ResumeThaw
<1>2. /\ task[p].pc = "rThaw" /\ rec.state = "Pausing" /\ rec.cp = task[p].seen.cp /\ rec.cp # None
      /\ rec.pid \in Vmms /\ Named /\ marker = None
  BY <1>0, NoneAssumption
     DEF ResumeThaw, RowTrue, DisksTrue, Chosen, Equipped, TypeOK, Rows, Opt, At, Named, Alive
<1>3. Undisturbed(p)
  BY <1>0, <1>2 DEF Undisturbed, ResumeThaw, TypeOK, Rows, HoldsSaved, HoldsSource, TakesNoLock
<1>4. RowTrue'
  BY <1>0, <1>2, NoneAssumption DEF RowTrue, Named, Alive, ResumeThaw, TypeOK, Rows, Opt, Work
<1>5. DisksTrue'
  BY <1>0, <1>2, NoneAssumption DEF DisksTrue, RowTrue, ResumeThaw, TypeOK, Rows, Opt, Work
<1>6. At(p)'
  BY <1>0, <1>1, <1>2, NoneAssumption
     DEF Moved, Kept, ResumeThaw, TypeOK, Rows, Opt, At, Named, Alive
<1>7. Unkilled'
  BY <1>0, <1>1, <1>2, UnkilledKept DEF Moved, ResumeThaw, TypeOK, Rows, Opt
<1> QED BY <1>0, <1>1, <1>3, <1>4, <1>5, <1>6, <1>7, InvMove DEF Moved

\* ResumeThawed says that the guest runs.
LEMMA InvResumeThawed ==
    ASSUME Inv, Lonely, NEW p \in Procs, ResumeThawed(p)
    PROVE  Inv'
<1>0. /\ TypeOK /\ Equipped /\ Chosen /\ RowTrue /\ DisksTrue /\ At(p) /\ Unkilled
      /\ Base' /\ (rec.state = "Running" => Named)
  BY BaseResumeThawed, RowNamed DEF Inv, Base, Recording, ResumeThawed
<1>1. Moved(p, "idle")
  BY <1>0, DoneMoves DEF ResumeThawed
<1>2. /\ task[p].pc = "rThawed" /\ rec.state = "Pausing"
      /\ rec.pid \in Vmms /\ Named /\ marker = None
  BY <1>0, NoneAssumption
     DEF ResumeThawed, RowTrue, DisksTrue, Chosen, Equipped, TypeOK, Rows, Opt, At, Named, Alive
<1>3. Undisturbed(p)
  BY <1>0, <1>2 DEF Undisturbed, ResumeThawed, TypeOK, Rows, HoldsSaved, HoldsSource, TakesNoLock
<1>4. RowTrue'
  BY <1>0, <1>2, NoneAssumption DEF RowTrue, Named, Alive, ResumeThawed, TypeOK, Rows, Opt, Work
<1>5. DisksTrue'
  BY <1>0, <1>2, NoneAssumption DEF DisksTrue, RowTrue, ResumeThawed, TypeOK, Rows, Opt, Work
<1>6. At(p)'
  BY <1>1, AtIdle DEF Moved
<1>7. Unkilled'
  BY <1>0, <1>1, <1>2, UnkilledKept DEF Moved, ResumeThawed, TypeOK, Rows, Opt
<1> QED BY <1>0, <1>1, <1>3, <1>4, <1>5, <1>6, <1>7, InvMove DEF Moved

\* ResumeStop ends the VMM whose work is saved.
LEMMA InvResumeStop ==
    ASSUME Inv, Lonely, NEW p \in Procs, ResumeStop(p)
    PROVE  Inv'
<1>0. /\ TypeOK /\ Equipped /\ Chosen /\ RowTrue /\ DisksTrue /\ At(p) /\ Unkilled
      /\ Base' /\ (rec.state = "Running" => Named)
  BY BaseResumeStop, RowNamed DEF Inv, Base, Recording, ResumeStop
<1>1. Moved(p, "rInstall") /\ Kept(p)
  BY <1>0, GotoMoves DEF ResumeStop
<1>2. /\ task[p].pc = "rStop" /\ rec.state = "Paused"
      /\ rec.cp = task[p].seen.cp /\ rec.pid = task[p].seen.pid
  BY <1>0, NoneAssumption
     DEF ResumeStop, RowTrue, DisksTrue, Chosen, Equipped, TypeOK, Rows, Opt, At, Named, Alive
<1>3. Undisturbed(p)
  BY <1>0, <1>2 DEF Undisturbed, ResumeStop, TypeOK, Rows, HoldsSaved, HoldsSource, TakesNoLock
<1>4. RowTrue'
  BY <1>0, <1>2, NoneAssumption DEF RowTrue, Named, Alive, ResumeStop, TypeOK, Rows, Opt, Work
<1>5. DisksTrue'
  BY <1>0, <1>2, NoneAssumption DEF DisksTrue, RowTrue, ResumeStop, TypeOK, Rows, Opt, Work
<1>6. At(p)'
  BY <1>0, <1>1, <1>2, NoneAssumption
     DEF Moved, Kept, ResumeStop, TypeOK, Rows, Opt, At, Named, Alive
<1>7. Unkilled'
  BY <1>0, <1>1, <1>2, UnkilledKept DEF Moved, ResumeStop, TypeOK, Rows, Opt
<1> QED BY <1>0, <1>1, <1>3, <1>4, <1>5, <1>6, <1>7, InvMove DEF Moved

\* ResumeInstall puts the disks of the artifact in place, and no VMM the row names
\* loses its own.
LEMMA InvResumeInstall ==
    ASSUME Inv, Lonely, NEW p \in Procs, ResumeInstall(p)
    PROVE  Inv'
<1>0. /\ TypeOK /\ Equipped /\ Chosen /\ RowTrue /\ DisksTrue /\ At(p) /\ Unkilled
      /\ Base' /\ (rec.state = "Running" => Named)
  BY BaseResumeInstall, RowNamed DEF Inv, Base, Recording, ResumeInstall
<1>1. Moved(p, "rLaunch") /\ Kept(p)
  BY <1>0, GotoMoves DEF ResumeInstall
<1>2. /\ task[p].pc = "rInstall"
      /\ rec.cp = task[p].seen.cp /\ rec.pid = task[p].seen.pid /\ rec.cp \in Arts
      /\ ~Alive(rec.pid) /\ rec.state \in {"Pausing", "Paused"}
  BY <1>0, NoneAssumption
     DEF ResumeInstall, RowTrue, DisksTrue, Chosen, Equipped, TypeOK, Rows, Opt, At, Named, Alive
<1>3. Undisturbed(p)
  BY <1>0, <1>2 DEF Undisturbed, ResumeInstall, TypeOK, Rows, HoldsSaved, HoldsSource, TakesNoLock
<1>4. RowTrue'
  BY <1>0, <1>2, NoneAssumption DEF RowTrue, Named, Alive, ResumeInstall, TypeOK, Rows, Opt, Work
<1>5. DisksTrue'
  BY <1>0, <1>2, NoneAssumption DEF DisksTrue, RowTrue, ResumeInstall, TypeOK, Rows, Opt, Work
<1>6. At(p)'
  BY <1>0, <1>1, <1>2, NoneAssumption
     DEF Moved, Kept, ResumeInstall, TypeOK, Rows, Opt, At, Named, Alive, DisksIntact, DisksTrue
<1>7. Unkilled'
  <2>1. HoldsSaved(p) /\ HoldsSource(p)
    BY <1>2 DEF HoldsSaved, HoldsSource
  <2>2. \A q \in Procs : task[q].pc \notin CommitPcs
    BY <1>2, <2>1, Alone
  <2>3. faults = 0 => vmm = None
    BY <1>0, <1>2, <2>2 DEF Unkilled
  <2> QED BY <2>3 DEF Unkilled, ResumeInstall
<1> QED BY <1>0, <1>1, <1>3, <1>4, <1>5, <1>6, <1>7, InvMove DEF Moved

\* ResumeFinish makes the row name the VMM that runs.
LEMMA InvResumeFinish ==
    ASSUME Inv, Lonely, NEW p \in Procs, ResumeFinish(p)
    PROVE  Inv'
<1>0. /\ TypeOK /\ Equipped /\ Chosen /\ RowTrue /\ DisksTrue /\ At(p) /\ Unkilled
      /\ Base' /\ (rec.state = "Running" => Named)
  BY BaseResumeFinish, RowNamed DEF Inv, Base, Recording, ResumeFinish
<1>1. Moved(p, "rClean") /\ Kept(p)
  BY <1>0, GotoMoves DEF ResumeFinish
<1>2. /\ task[p].pc = "rFinish" /\ task[p].vm \in Vmms /\ marker = None
      /\ vmm # None => vmm.id = task[p].vm
  BY <1>0, NoneAssumption
     DEF ResumeFinish, RowTrue, DisksTrue, Chosen, Equipped, TypeOK, Rows, Opt, At, Named, Alive
<1>3. Undisturbed(p)
  BY <1>0, <1>2 DEF Undisturbed, ResumeFinish, TypeOK, Rows, HoldsSaved, HoldsSource, TakesNoLock
<1>4. RowTrue'
  BY <1>0, <1>2, NoneAssumption
     DEF RowTrue, Named, Alive, ResumeFinish, TypeOK, Rows, Opt, Work, NamedWork
<1>5. DisksTrue'
  BY <1>0, <1>2, NoneAssumption DEF DisksTrue, RowTrue, ResumeFinish, TypeOK, Rows, Opt, Work
<1>6. At(p)'
  BY <1>0, <1>1, <1>2, NoneAssumption
     DEF Moved, Kept, ResumeFinish, TypeOK, Rows, Opt, At, Named, Alive
<1>7. Unkilled'
  BY <1>0, <1>2 DEF Unkilled, Alive, ResumeFinish
<1> QED BY <1>0, <1>1, <1>3, <1>4, <1>5, <1>6, <1>7, InvMove DEF Moved

\* ResumeClean removes an artifact that no row names.
LEMMA InvResumeClean ==
    ASSUME Inv, Lonely, NEW p \in Procs, ResumeClean(p)
    PROVE  Inv'
<1>0. /\ TypeOK /\ Equipped /\ Chosen /\ RowTrue /\ DisksTrue /\ At(p) /\ Unkilled
      /\ Base' /\ (rec.state = "Running" => Named)
  BY BaseResumeClean, RowNamed DEF Inv, Base, Recording, ResumeClean
<1>1. Moved(p, "idle")
  BY <1>0, DoneMoves DEF ResumeClean
<1>2. /\ task[p].pc = "rClean" /\ rec.cp = None
      /\ rec.state # "Paused" /\ marker = None
  BY <1>0, NoneAssumption
     DEF ResumeClean, RowTrue, DisksTrue, Chosen, Equipped, TypeOK, Rows, Opt, At, Named, Alive
<1>3. Undisturbed(p)
  BY <1>0, <1>2 DEF Undisturbed, ResumeClean, TypeOK, Rows, HoldsSaved, HoldsSource, TakesNoLock
<1>4. RowTrue'
  BY <1>0, <1>2, NoneAssumption DEF RowTrue, Named, Alive, ResumeClean, TypeOK, Rows, Opt, Work
<1>5. DisksTrue'
  BY <1>0, <1>2, NoneAssumption DEF DisksTrue, RowTrue, ResumeClean, TypeOK, Rows, Opt, Work
<1>6. At(p)'
  BY <1>1, AtIdle DEF Moved
<1>7. Unkilled'
  BY <1>0, <1>1, <1>2, UnkilledKept DEF Moved, ResumeClean, TypeOK, Rows, Opt
<1> QED BY <1>0, <1>1, <1>3, <1>4, <1>5, <1>6, <1>7, InvMove DEF Moved

\* ResumeFails ends the VMM it launched.
LEMMA InvResumeFails ==
    ASSUME Inv, Lonely, NEW p \in Procs, ResumeFails(p)
    PROVE  Inv'
<1>0. /\ TypeOK /\ Equipped /\ Chosen /\ RowTrue /\ DisksTrue /\ At(p) /\ Unkilled
      /\ Base' /\ (rec.state = "Running" => Named)
  BY BaseResumeFails, RowNamed DEF Inv, Base, Recording, ResumeFails
<1>1. Moved(p, "idle")
  BY <1>0, DoneMoves DEF ResumeFails
<1>2. /\ task[p].pc \in {"rStop", "rInstall", "rLaunch", "rFinish"}
      /\ rec.cp = task[p].seen.cp
  BY <1>0, NoneAssumption
     DEF ResumeFails, RowTrue, DisksTrue, Chosen, Equipped, TypeOK, Rows, Opt, At, Named, Alive
<1>3. Undisturbed(p)
  BY <1>0, <1>2 DEF Undisturbed, ResumeFails, TypeOK, Rows, HoldsSaved, HoldsSource, TakesNoLock
<1>4. RowTrue'
  BY <1>0, <1>2, NoneAssumption DEF RowTrue, Named, Alive, ResumeFails, TypeOK, Rows, Opt, Work
<1>5. DisksTrue'
  BY <1>0, <1>2, NoneAssumption DEF DisksTrue, RowTrue, ResumeFails, TypeOK, Rows, Opt, Work
<1>6. At(p)'
  BY <1>1, AtIdle DEF Moved
<1>7. Unkilled'
  <2>1. CASE task[p].pc = "rFinish"
    BY <2>1 DEF Unkilled, ResumeFails
  <2>2. CASE task[p].pc # "rFinish"
    BY <1>0, <1>1, <1>2, <2>2, UnkilledKept DEF Moved, ResumeFails
  <2> QED BY <2>1, <2>2
<1> QED BY <1>0, <1>1, <1>3, <1>4, <1>5, <1>6, <1>7, InvMove DEF Moved

\* StartProbe clears the row of a machine that is gone.
LEMMA InvStartProbe ==
    ASSUME Inv, Lonely, NEW p \in Procs, StartProbe(p)
    PROVE  Inv'
<1>0. /\ TypeOK /\ Equipped /\ Chosen /\ RowTrue /\ DisksTrue /\ At(p) /\ Unkilled
      /\ Base' /\ (rec.state = "Running" => Named)
  BY BaseStartProbe, RowNamed DEF Inv, Base, Recording, StartProbe
<1>1. \/ Moved(p, "idle") /\ rec' = rec
      \/ (Moved(p, "sReread") \/ (Moved(p, "sOrphan") /\ p \in Unlocked)) /\ rec' = rec
      \/ /\ Moved(p, "sEnsure") /\ rec' = [rec EXCEPT !.state = "Stopped", !.pid = None]
         /\ ~ResolvesRunning(task[p].seen) /\ ~ResolvesUnreachable(task[p].seen)
  BY <1>0, DoneMoves, GotoMoves DEF StartProbe
<1>2. /\ task[p].pc = "sProbe" /\ rec.cp = None /\ marker = None
      /\ task[p].seen = rec \/ rec.state = "Stopped"
  BY <1>0, NoneAssumption
     DEF StartProbe, RowTrue, DisksTrue, Chosen, Equipped, TypeOK, Rows, Opt, At, Named, Alive
<1>3. Undisturbed(p)
  BY <1>0, <1>2 DEF Undisturbed, StartProbe, TypeOK, Rows, HoldsSaved, HoldsSource, TakesNoLock
<1>4. RowTrue'
  <2>1. CASE rec' = rec
    BY <1>0, <2>1, RowFrame DEF StartProbe
  <2>2. CASE rec' = [rec EXCEPT !.state = "Stopped", !.pid = None]
    BY <1>0, <1>2, <2>2, NoneAssumption DEF RowTrue, Named, Alive, StartProbe, TypeOK, Rows, Opt
  <2> QED BY <1>1, <2>1, <2>2
<1>5. DisksTrue'
  BY <1>0, <1>2 DEF DisksTrue, StartProbe
<1>6. At(p)'
  <2>1. CASE Moved(p, "idle")
    BY <2>1, AtIdle DEF Moved
  <2>2. CASE (Moved(p, "sReread") \/ (Moved(p, "sOrphan") /\ p \in Unlocked)) /\ rec' = rec
    BY <1>2, <2>2 DEF Moved, At, Named, Alive
  <2>3. CASE Moved(p, "sEnsure") /\ rec' = [rec EXCEPT !.state = "Stopped", !.pid = None]
    <3>1. rec'.cp = None /\ rec'.state = "Stopped"
      BY <1>0, <1>2, <2>3 DEF TypeOK, Rows
    <3> QED BY <2>3, <3>1 DEF Moved, At, Named, Alive
  <2> QED BY <1>1, <2>1, <2>2, <2>3
<1>7. Unkilled'
  <2>1. CASE rec' = rec
    BY <1>0, <1>1, <1>2, <2>1, UnkilledKept DEF Moved, StartProbe
  <2>2. CASE ~ResolvesRunning(task[p].seen) /\ ~ResolvesUnreachable(task[p].seen)
    <3>1. \A q \in Procs : task[q].pc \notin CommitPcs
      <4>1. HoldsSource(p) \/ TakesNoLock(p, task[p].pc)
        BY <1>2 DEF HoldsSource, TakesNoLock
      <4> QED BY <1>2, <4>1, Meek DEF Lonely
    <3>2. ~Alive(rec.pid)
      BY <1>0, <1>2, <2>2, NoneAssumption
         DEF ResolvesRunning, ResolvesUnreachable, Alive, RowTrue, TypeOK, Rows, Opt
    <3>3. faults = 0 => vmm = None
      BY <1>0, <3>1, <3>2 DEF Unkilled
    <3> QED BY <3>3 DEF Unkilled, StartProbe
  <2> QED BY <1>1, <2>1, <2>2
<1> QED BY <1>0, <1>1, <1>3, <1>4, <1>5, <1>6, <1>7, InvMove DEF Moved

\* StartOrphan leaves no VMM.
LEMMA InvStartOrphan ==
    ASSUME Inv, Lonely, NEW p \in Procs, StartOrphan(p)
    PROVE  Inv'
<1>0. /\ TypeOK /\ Equipped /\ Chosen /\ RowTrue /\ DisksTrue /\ At(p) /\ Unkilled
      /\ Base' /\ (rec.state = "Running" => Named)
  BY BaseStartOrphan, RowNamed DEF Inv, Base, Recording, StartOrphan
<1>1. Moved(p, "sEnsure") /\ Kept(p)
  BY <1>0, GotoMoves DEF StartOrphan
<1>2. /\ task[p].pc = "sOrphan" /\ p \in Unlocked
      /\ rec.cp = None /\ marker = None /\ rec.state # "Paused"
  BY <1>0 DEF StartOrphan, RowTrue, DisksTrue, At
<1>3. Undisturbed(p)
  BY <1>2 DEF Undisturbed, StartOrphan, TakesNoLock
<1>4. RowTrue'
  BY <1>0, <1>2, NoneAssumption DEF RowTrue, Named, Alive, StartOrphan, TypeOK, Rows, Opt, Work
<1>5. DisksTrue'
  BY <1>0, <1>2, NoneAssumption DEF DisksTrue, RowTrue, StartOrphan, TypeOK, Rows, Opt, Work
<1>6. At(p)'
  BY <1>0, <1>1, <1>2, NoneAssumption
     DEF Moved, Kept, StartOrphan, TypeOK, Rows, Opt, At, Named, Alive
<1>7. Unkilled'
  BY <1>0, <1>1, <1>2, UnkilledKept DEF Moved, StartOrphan, TypeOK, Rows, Opt
<1> QED BY <1>0, <1>1, <1>3, <1>4, <1>5, <1>6, <1>7, InvMove DEF Moved

\* StartReread reads the row again.
LEMMA InvStartReread ==
    ASSUME Inv, Lonely, NEW p \in Procs, StartReread(p)
    PROVE  Inv'
<1>0. /\ TypeOK /\ Equipped /\ Chosen /\ RowTrue /\ DisksTrue /\ At(p) /\ Unkilled
      /\ Base' /\ (rec.state = "Running" => Named)
  BY BaseStartReread, RowNamed DEF Inv, Base, Recording, StartReread
<1>1. Moved(p, "sReprobe")
  BY <1>0, SeenMoves DEF TypeOK, StartReread
<1>2. /\ task[p].pc = "sReread" /\ rec.cp = None
  BY <1>0, NoneAssumption
     DEF StartReread, RowTrue, DisksTrue, Chosen, Equipped, TypeOK, Rows, Opt, At, Named, Alive
<1>3. Undisturbed(p)
  BY <1>0, <1>2 DEF Undisturbed, StartReread, TypeOK, Rows, HoldsSaved, HoldsSource, TakesNoLock
<1>4. RowTrue'
  BY <1>0, RowFrame DEF StartReread
<1>5. DisksTrue'
  BY <1>0, RowFrame DEF StartReread
<1>6. At(p)'
  BY <1>0, <1>1, <1>2, NoneAssumption
     DEF Moved, Kept, StartReread, TypeOK, Rows, Opt, At, Named, Alive
<1>7. Unkilled'
  BY <1>0, <1>1, <1>2, UnkilledKept DEF Moved, StartReread, TypeOK, Rows, Opt
<1> QED BY <1>0, <1>1, <1>3, <1>4, <1>5, <1>6, <1>7, InvMove DEF Moved

\* StartReprobe condemns the VMM it saw.
LEMMA InvStartReprobe ==
    ASSUME Inv, Lonely, NEW p \in Procs, StartReprobe(p)
    PROVE  Inv'
<1>0. /\ TypeOK /\ Equipped /\ Chosen /\ RowTrue /\ DisksTrue /\ At(p) /\ Unkilled
      /\ Base' /\ (rec.state = "Running" => Named)
  BY BaseStartReprobe, RowNamed DEF Inv, Base, Recording, StartReprobe
<1>1. \/ Moved(p, "idle")
      \/ Moved(p, "sKill") /\ Kept(p) /\ Alive(task[p].seen.pid)
      \/ Moved(p, "sEnsure") /\ p \in Unlocked
  BY <1>0, DoneMoves, GotoMoves DEF StartReprobe, ResolvesUnreachable
<1>2. /\ task[p].pc = "sReprobe" /\ rec.cp = None
  BY <1>0, NoneAssumption
     DEF StartReprobe, RowTrue, DisksTrue, Chosen, Equipped, TypeOK, Rows, Opt, At, Named, Alive
<1>3. Undisturbed(p)
  BY <1>0, <1>2 DEF Undisturbed, StartReprobe, TypeOK, Rows, HoldsSaved, HoldsSource, TakesNoLock
<1>4. RowTrue'
  BY <1>0, RowFrame DEF StartReprobe
<1>5. DisksTrue'
  BY <1>0, RowFrame DEF StartReprobe
<1>6. At(p)'
  <2>1. CASE Moved(p, "idle")
    BY <2>1, AtIdle DEF Moved
  <2>2. CASE Moved(p, "sKill") /\ Kept(p) /\ Alive(task[p].seen.pid)
    BY <1>2, <2>2 DEF Moved, Kept, StartReprobe, At, Named, Alive
  <2>3. CASE Moved(p, "sEnsure") /\ p \in Unlocked
    BY <1>2, <2>3 DEF Moved, StartReprobe, At, Named, Alive
  <2> QED BY <1>1, <2>1, <2>2, <2>3
<1>7. Unkilled'
  BY <1>0, <1>1, <1>2, UnkilledKept DEF Moved, StartReprobe, TypeOK, Rows, Opt
<1> QED BY <1>0, <1>1, <1>3, <1>4, <1>5, <1>6, <1>7, InvMove DEF Moved

\* StartKill leaves no VMM.
LEMMA InvStartKill ==
    ASSUME Inv, Lonely, NEW p \in Procs, StartKill(p)
    PROVE  Inv'
<1>0. /\ TypeOK /\ Equipped /\ Chosen /\ RowTrue /\ DisksTrue /\ At(p) /\ Unkilled
      /\ Base' /\ (rec.state = "Running" => Named)
  BY BaseStartKill, RowNamed DEF Inv, Base, Recording, StartKill
<1>1. Moved(p, "sClear") /\ Kept(p)
  BY <1>0, GotoMoves DEF StartKill
<1>2. /\ task[p].pc = "sKill" /\ rec.cp = None /\ marker = None /\ rec.state # "Paused"
      /\ vmm # None => vmm.id = task[p].seen.pid
  BY <1>0, NoneAssumption
     DEF StartKill, RowTrue, DisksTrue, Chosen, Equipped, TypeOK, Rows, Opt, At, Named, Alive
<1>3. Undisturbed(p)
  BY <1>0, <1>2 DEF Undisturbed, StartKill, TypeOK, Rows, HoldsSaved, HoldsSource, TakesNoLock
<1>4. RowTrue'
  BY <1>0, <1>2, NoneAssumption DEF RowTrue, Named, Alive, StartKill, TypeOK, Rows, Opt, Work
<1>5. DisksTrue'
  BY <1>0, <1>2, NoneAssumption DEF DisksTrue, RowTrue, StartKill, TypeOK, Rows, Opt, Work
<1>6. At(p)'
  BY <1>0, <1>1, <1>2, NoneAssumption
     DEF Moved, Kept, StartKill, TypeOK, Rows, Opt, At, Named, Alive
<1>7. Unkilled'
  BY <1>0, <1>1, <1>2, UnkilledKept DEF Moved, StartKill, TypeOK, Rows, Opt
<1> QED BY <1>0, <1>1, <1>3, <1>4, <1>5, <1>6, <1>7, InvMove DEF Moved

\* StartClear clears the row.
LEMMA InvStartClear ==
    ASSUME Inv, Lonely, NEW p \in Procs, StartClear(p)
    PROVE  Inv'
<1>0. /\ TypeOK /\ Equipped /\ Chosen /\ RowTrue /\ DisksTrue /\ At(p) /\ Unkilled
      /\ Base' /\ (rec.state = "Running" => Named)
  BY BaseStartClear, RowNamed DEF Inv, Base, Recording, StartClear
<1>1. Moved(p, "sEnsure") /\ Kept(p)
  BY <1>0, GotoMoves DEF StartClear
<1>2. /\ task[p].pc = "sClear" /\ rec.cp = None /\ vmm = None /\ marker = None
  BY <1>0, NoneAssumption
     DEF StartClear, RowTrue, DisksTrue, Chosen, Equipped, TypeOK, Rows, Opt, At, Named, Alive
<1>3. Undisturbed(p)
  BY <1>0, <1>2 DEF Undisturbed, StartClear, TypeOK, Rows, HoldsSaved, HoldsSource, TakesNoLock
<1>4. RowTrue'
  BY <1>0, <1>2, NoneAssumption DEF RowTrue, Named, Alive, StartClear, TypeOK, Rows, Opt, Work
<1>5. DisksTrue'
  BY <1>0, <1>2, NoneAssumption DEF DisksTrue, RowTrue, StartClear, TypeOK, Rows, Opt, Work
<1>6. At(p)'
  BY <1>0, <1>1, <1>2, NoneAssumption
     DEF Moved, Kept, StartClear, TypeOK, Rows, Opt, At, Named, Alive
<1>7. Unkilled'
  BY <1>2 DEF Unkilled, StartClear
<1> QED BY <1>0, <1>1, <1>3, <1>4, <1>5, <1>6, <1>7, InvMove DEF Moved

\* StartEnsure looks at the row.
LEMMA InvStartEnsure ==
    ASSUME Inv, Lonely, NEW p \in Procs, StartEnsure(p)
    PROVE  Inv'
<1>0. /\ TypeOK /\ Equipped /\ Chosen /\ RowTrue /\ DisksTrue /\ At(p) /\ Unkilled
      /\ Base' /\ (rec.state = "Running" => Named)
  BY BaseStartEnsure, RowNamed DEF Inv, Base, Recording, StartEnsure
<1>1. \/ Moved(p, "idle")
      \/ Moved(p, "sLaunch") /\ Kept(p)
  BY <1>0, DoneMoves, GotoMoves DEF StartEnsure
<1>2. /\ task[p].pc = "sEnsure" /\ rec.cp = None
      /\ p \notin Unlocked => rec.state = "Stopped"
  BY <1>0, NoneAssumption
     DEF StartEnsure, RowTrue, DisksTrue, Chosen, Equipped, TypeOK, Rows, Opt, At, Named, Alive
<1>3. Undisturbed(p)
  BY <1>0, <1>2 DEF Undisturbed, StartEnsure, TypeOK, Rows, HoldsSaved, HoldsSource, TakesNoLock
<1>4. RowTrue'
  BY <1>0, RowFrame DEF StartEnsure
<1>5. DisksTrue'
  BY <1>0, RowFrame DEF StartEnsure
<1>6. At(p)'
  BY <1>0, <1>1, <1>2, NoneAssumption
     DEF Moved, Kept, StartEnsure, TypeOK, Rows, Opt, At, Named, Alive
<1>7. Unkilled'
  BY <1>0, <1>1, <1>2, UnkilledKept DEF Moved, StartEnsure, TypeOK, Rows, Opt
<1> QED BY <1>0, <1>1, <1>3, <1>4, <1>5, <1>6, <1>7, InvMove DEF Moved

\* StartCommit makes the row name the VMM that runs.
LEMMA InvStartCommit ==
    ASSUME Inv, Lonely, NEW p \in Procs, StartCommit(p)
    PROVE  Inv'
<1>0. /\ TypeOK /\ Equipped /\ Chosen /\ RowTrue /\ DisksTrue /\ At(p) /\ Unkilled
      /\ Base'
  BY BaseStartCommit DEF Inv, Base
<1>1. Moved(p, "idle")
  BY <1>0, DoneMoves DEF StartCommit
<1>2. /\ task[p].pc \in {"sCommit", "iCommit"} /\ task[p].vm \in Vmms /\ rec.cp = None /\ marker = None
      /\ vmm # None => vmm.id = task[p].vm
  BY <1>0, NoneAssumption
     DEF StartCommit, RowTrue, DisksTrue, Chosen, Equipped, TypeOK, Rows, Opt, At, Named, Alive
<1>3. Undisturbed(p)
  BY <1>0, <1>2 DEF Undisturbed, StartCommit, TypeOK, Rows, HoldsSaved, HoldsSource, TakesNoLock
<1>4. RowTrue'
  BY <1>0, <1>2, NoneAssumption
     DEF RowTrue, Named, Alive, StartCommit, TypeOK, Rows, Opt, Work, NamedWork
<1>5. DisksTrue'
  BY <1>0, <1>2, NoneAssumption DEF DisksTrue, RowTrue, StartCommit, TypeOK, Rows, Opt, Work
<1>6. At(p)'
  BY <1>1, AtIdle DEF Moved
<1>7. Unkilled'
  BY <1>0, <1>2 DEF Unkilled, Alive, StartCommit, TypeOK, Rows
<1> QED BY <1>0, <1>1, <1>3, <1>4, <1>5, <1>6, <1>7, InvMove DEF Moved

\* StopKill leaves no VMM.
LEMMA InvStopKill ==
    ASSUME Inv, Lonely, NEW p \in Procs, StopKill(p)
    PROVE  Inv'
<1>0. /\ TypeOK /\ Equipped /\ Chosen /\ RowTrue /\ DisksTrue /\ At(p) /\ Unkilled
      /\ Base' /\ (rec.state = "Running" => Named)
  BY BaseStopKill, RowNamed DEF Inv, Base, Recording, StopKill
<1>1. Moved(p, "idle") \/ (Moved(p, "tCommit") /\ Kept(p))
  BY <1>0, DoneMoves, GotoMoves DEF StopKill
<1>2. /\ task[p].pc = "tKill" /\ rec.cp = None /\ marker = None /\ rec.state # "Paused"
  BY <1>0, NoneAssumption
     DEF StopKill, RowTrue, DisksTrue, Chosen, Equipped, TypeOK, Rows, Opt, At, Named, Alive
<1>3. Undisturbed(p)
  BY <1>0, <1>2 DEF Undisturbed, StopKill, TypeOK, Rows, HoldsSaved, HoldsSource, TakesNoLock
<1>4. RowTrue'
  BY <1>0, <1>2, NoneAssumption DEF RowTrue, Named, Alive, StopKill, TypeOK, Rows, Opt, Work
<1>5. DisksTrue'
  BY <1>0, <1>2, NoneAssumption DEF DisksTrue, RowTrue, StopKill, TypeOK, Rows, Opt, Work
<1>6. At(p)'
  <2>1. CASE Moved(p, "idle")
    BY <2>1, AtIdle DEF Moved
  <2>2. CASE Moved(p, "tCommit") /\ Kept(p)
    BY <1>0, <1>2, <2>2, NoneAssumption
       DEF Moved, Kept, StopKill, TypeOK, Rows, Opt, At, Named, Alive
  <2> QED BY <1>1, <2>1, <2>2
<1>7. Unkilled'
  BY <1>0, <1>1, <1>2, UnkilledKept DEF Moved, StopKill, TypeOK, Rows, Opt
<1> QED BY <1>0, <1>1, <1>3, <1>4, <1>5, <1>6, <1>7, InvMove DEF Moved

\* StopCommit clears the row.
LEMMA InvStopCommit ==
    ASSUME Inv, Lonely, NEW p \in Procs, StopCommit(p)
    PROVE  Inv'
<1>0. /\ TypeOK /\ Equipped /\ Chosen /\ RowTrue /\ DisksTrue /\ At(p) /\ Unkilled
      /\ Base' /\ (rec.state = "Running" => Named)
  BY BaseStopCommit, RowNamed DEF Inv, Base, Recording, StopCommit
<1>1. Moved(p, "idle")
  BY <1>0, DoneMoves DEF StopCommit
<1>2. /\ task[p].pc = "tCommit" /\ rec.cp = None /\ vmm = None /\ marker = None
  BY <1>0, NoneAssumption
     DEF StopCommit, RowTrue, DisksTrue, Chosen, Equipped, TypeOK, Rows, Opt, At, Named, Alive
<1>3. Undisturbed(p)
  BY <1>0, <1>2 DEF Undisturbed, StopCommit, TypeOK, Rows, HoldsSaved, HoldsSource, TakesNoLock
<1>4. RowTrue'
  BY <1>0, <1>2, NoneAssumption DEF RowTrue, Named, Alive, StopCommit, TypeOK, Rows, Opt, Work
<1>5. DisksTrue'
  BY <1>0, <1>2, NoneAssumption DEF DisksTrue, RowTrue, StopCommit, TypeOK, Rows, Opt, Work
<1>6. At(p)'
  BY <1>1, AtIdle DEF Moved
<1>7. Unkilled'
  BY <1>2 DEF Unkilled, StopCommit
<1> QED BY <1>0, <1>1, <1>3, <1>4, <1>5, <1>6, <1>7, InvMove DEF Moved

\* CheckpointSave freezes the guest for a while.
LEMMA InvCheckpointSave ==
    ASSUME Inv, Lonely, NEW p \in Procs, CheckpointSave(p)
    PROVE  Inv'
<1>0. /\ TypeOK /\ Equipped /\ Chosen /\ RowTrue /\ DisksTrue /\ At(p) /\ Unkilled
      /\ Base' /\ (rec.state = "Running" => Named)
  BY BaseCheckpointSave, RowNamed DEF Inv, Base, Recording, CheckpointSave
<1>1. Moved(p, "cThaw") /\ Kept(p)
  BY <1>0, GotoMoves DEF CheckpointSave
<1>2. /\ task[p].pc = "cSave" /\ rec.cp = None /\ marker = None /\ rec.state # "Paused"
  BY <1>0, NoneAssumption
     DEF CheckpointSave, RowTrue, DisksTrue, Chosen, Equipped, TypeOK, Rows, Opt, At, Named,
         Alive
<1>3. Undisturbed(p)
  BY <1>0, <1>2 DEF Undisturbed, CheckpointSave, TypeOK, Rows, HoldsSaved, HoldsSource, TakesNoLock
<1>4. RowTrue'
  BY <1>0, <1>2, NoneAssumption DEF RowTrue, Named, Alive, CheckpointSave, TypeOK, Rows, Opt, Work
<1>5. DisksTrue'
  BY <1>0, <1>2, NoneAssumption DEF DisksTrue, RowTrue, CheckpointSave, TypeOK, Rows, Opt, Work
<1>6. At(p)'
  BY <1>0, <1>1, <1>2, NoneAssumption
     DEF Moved, Kept, CheckpointSave, TypeOK, Rows, Opt, At, Named, Alive
<1>7. Unkilled'
  BY <1>0, <1>1, <1>2, UnkilledKept DEF Moved, CheckpointSave, TypeOK, Rows, Opt
<1> QED BY <1>0, <1>1, <1>3, <1>4, <1>5, <1>6, <1>7, InvMove DEF Moved

\* CheckpointThaw wakes it.
LEMMA InvCheckpointThaw ==
    ASSUME Inv, Lonely, NEW p \in Procs, CheckpointThaw(p)
    PROVE  Inv'
<1>0. /\ TypeOK /\ Equipped /\ Chosen /\ RowTrue /\ DisksTrue /\ At(p) /\ Unkilled
      /\ Base' /\ (rec.state = "Running" => Named)
  BY BaseCheckpointThaw, RowNamed DEF Inv, Base, Recording, CheckpointThaw
<1>1. Moved(p, "idle")
  BY <1>0, DoneMoves DEF CheckpointThaw
<1>2. /\ task[p].pc = "cThaw" /\ rec.cp = None /\ marker = None /\ rec.state # "Paused"
  BY <1>0, NoneAssumption
     DEF CheckpointThaw, RowTrue, DisksTrue, Chosen, Equipped, TypeOK, Rows, Opt, At, Named,
         Alive
<1>3. Undisturbed(p)
  BY <1>0, <1>2 DEF Undisturbed, CheckpointThaw, TypeOK, Rows, HoldsSaved, HoldsSource, TakesNoLock
<1>4. RowTrue'
  BY <1>0, <1>2, NoneAssumption DEF RowTrue, Named, Alive, CheckpointThaw, TypeOK, Rows, Opt, Work
<1>5. DisksTrue'
  BY <1>0, <1>2, NoneAssumption DEF DisksTrue, RowTrue, CheckpointThaw, TypeOK, Rows, Opt, Work
<1>6. At(p)'
  BY <1>1, AtIdle DEF Moved
<1>7. Unkilled'
  BY <1>0, <1>1, <1>2, UnkilledKept DEF Moved, CheckpointThaw, TypeOK, Rows, Opt
<1> QED BY <1>0, <1>1, <1>3, <1>4, <1>5, <1>6, <1>7, InvMove DEF Moved

\* A killed process leaves the row, the VMM and the disks as they are.
LEMMA InvCrash ==
    ASSUME Inv, Lonely, NEW p \in Procs, Crash(p), ~loose'
    PROVE  Inv'
<1>0. /\ TypeOK /\ Equipped /\ Chosen /\ RowTrue /\ DisksTrue /\ At(p) /\ Unkilled
      /\ Base' /\ (rec.state = "Running" => Named)
  BY BaseCrash, RowNamed DEF Inv, Base, Recording, Crash
<1>1. Moved(p, "idle")
  BY <1>0, DoneMoves DEF Crash
<1>2. /\ task[p].pc # "idle" /\ faults + 1 # 0
  BY <1>0, NoneAssumption
     DEF Crash, RowTrue, DisksTrue, Chosen, Equipped, TypeOK, Rows, Opt, At, Named, Alive
<1>3. Undisturbed(p)
  BY <1>0, <1>2 DEF Undisturbed, Crash, TypeOK, Rows, HoldsSaved, HoldsSource, TakesNoLock
<1>4. RowTrue'
  BY <1>0, RowFrame DEF Crash
<1>5. DisksTrue'
  BY <1>0, RowFrame DEF Crash
<1>6. At(p)'
  BY <1>1, AtIdle DEF Moved
<1>7. Unkilled'
  BY <1>2 DEF Unkilled, Crash
<1> QED BY <1>0, <1>1, <1>3, <1>4, <1>5, <1>6, <1>7, InvMove DEF Moved

\* A request that is taken up finds what it relies on.
LEMMA InvBegin ==
    ASSUME Inv, Lonely, Base', NEW p \in Procs, task[p].pc = "idle",
           \A q \in Procs \ {p} : task'[q] = task[q], At(p)',
           UNCHANGED <<rec, vmm, arts, disk, marker, known, faults>>
    PROVE  Inv'
<1>1. RowTrue' /\ DisksTrue'
  <2>1. \A q \in Procs : Recording(q) => Recording(q)'
    BY DEF Recording, TakesNoLock
  <2> QED BY <2>1 DEF Inv, RowTrue, DisksTrue, Named, Alive
<1>2. Unkilled'
  BY UnkilledKept DEF Inv
<1>3. Undisturbed(p)
  BY DEF Undisturbed
<1> QED BY <1>1, <1>2, <1>3, InvMove

\* A pause finds what PausePath looked at.
LEMMA InvPauseBegin ==
    ASSUME Inv, Lonely, NEW p \in Procs, NEW op \in Opt(Ops), PauseBegin(p, op)
    PROVE  Inv'
<1>0. TypeOK /\ RowTrue /\ Base'
  BY BasePauseBegin DEF Inv, Base
<1> DEFINE pc == PausePath(op)
<1>1. pc \in {"pRecover", "pFinishStop", "pCapture"}
  BY DEF PauseBegin, PausePath
<1>2. /\ pc = "pRecover" => rec.state = "Pausing" /\ Alive(rec.pid)
      /\ pc = "pFinishStop" => rec.state = "Paused" /\ Alive(rec.pid)
      /\ pc = "pCapture" => rec.cp = None
  BY DEF PausePath
<1>3. Moved(p, pc) /\ task'[p].seen = rec
  BY <1>0, <1>1, BeginMoves DEF PauseBegin
<1>4. Alive(rec.pid) => Named /\ rec.pid \in Vmms
  BY <1>0 DEF Alive, Named, TypeOK, Opt
<1> HIDE DEF pc
<1>5. At(p)'
  BY <1>1, <1>2, <1>3, <1>4 DEF PauseBegin, Moved, At, Named, Alive
<1> QED BY <1>0, <1>3, <1>5, InvBegin DEF PauseBegin, Moved

\* A resume finds what ResumePath looked at.
LEMMA InvResumeBegin ==
    ASSUME Inv, Lonely, NEW p \in Procs, NEW op \in Opt(Ops), ResumeBegin(p, op)
    PROVE  Inv'
<1>0. TypeOK /\ RowTrue /\ Base'
  BY BaseResumeBegin DEF Inv, Base
<1> DEFINE pc == ResumePath
<1>1. /\ pc \in {"rThaw", "rStop", "rInstall"} /\ rec.cp # None
      /\ pc = "rThaw" => Alive(rec.pid) /\ rec.state = "Pausing"
      /\ pc = "rStop" => Alive(rec.pid) /\ rec.state # "Pausing" /\ vmm.frozen
  BY DEF ResumeBegin, ResumePath
<1>2. pc = "rStop" => rec.state = "Paused"
  BY <1>0, <1>1 DEF RowTrue
<1>3. Moved(p, pc) /\ task'[p].seen = rec
  BY <1>0, <1>1, BeginMoves DEF ResumeBegin
<1>4. Alive(rec.pid) => Named /\ rec.pid \in Vmms
  BY <1>0 DEF Alive, Named, TypeOK, Opt
<1> HIDE DEF pc
<1>5. At(p)'
  BY <1>1, <1>2, <1>3, <1>4 DEF ResumeBegin, Moved, At, Named, Alive
<1> QED BY <1>0, <1>3, <1>5, InvBegin DEF ResumeBegin, Moved

\* Start, stop and checkpoint begin while nothing is saved.
LEMMA InvOthersBegin ==
    ASSUME Inv, Lonely, NEW p \in Procs,
           StartBegin(p) \/ ImplicitBegin(p) \/ RestartBegin(p) \/ StopBegin(p) \/ CheckpointBegin(p)
    PROVE  Inv'
<1>0. TypeOK /\ RowTrue /\ Base'
  BY BaseOthersBegin DEF Inv, Base
<1>1. /\ rec.cp = None /\ task[p].pc = "idle"
      /\ UNCHANGED <<rec, vmm, arts, disk, marker, known, faults>>
      /\ \/ Begin(p, "sProbe", None) \/ Begin(p, "tKill", None) \/ Begin(p, "cSave", None)
         \/ Begin(p, "iLaunch", None)
         \/ Begin(p, "uLaunch", None) /\ vmm = None
  BY <1>0 DEF StartBegin, ImplicitBegin, RestartBegin, StopBegin, CheckpointBegin, ResolvesRunning,
              RowTrue
<1>2. None \in Opt(Ops)
  BY DEF Opt
<1>3. PICK pc \in {"sProbe", "tKill", "cSave", "iLaunch", "uLaunch"} :
         Moved(p, pc) /\ task'[p].seen = rec /\ (pc = "uLaunch" => vmm = None)
  BY <1>0, <1>1, <1>2, BeginMoves
<1>4. At(p)'
  BY <1>1, <1>3 DEF Moved, At, Named, Alive
<1> QED BY <1>0, <1>1, <1>3, <1>4, InvBegin DEF Moved

\* Retiring the keys of a machine that runs.
LEMMA InvResumeRunning ==
    ASSUME Inv, Lonely, NEW p \in Procs, NEW op \in Opt(Ops), ResumeRunning(p, op)
    PROVE  Inv'
<1>1. /\ Base' /\ task' = task /\ task[p].pc = "idle"
      /\ UNCHANGED <<rec, vmm, arts, disk, marker, known, faults>>
  BY BaseResumeRunning DEF Inv, ResumeRunning
<1>2. At(p)'
  BY <1>1, AtIdle
<1> QED BY <1>1, <1>2, InvBegin

\* A resumed guest has the memory and the disks of one artifact.
LEMMA InvResumeLaunch ==
    ASSUME Inv, Lonely, NEW p \in Procs, ResumeLaunch(p)
    PROVE  Inv'
<1>0. /\ TypeOK /\ Equipped /\ Chosen /\ RowTrue /\ DisksTrue /\ At(p) /\ Unkilled
      /\ Base' /\ (rec.state = "Running" => Named)
  BY BaseResumeLaunch, RowNamed DEF Inv, Base, Recording, ResumeLaunch
<1>1. /\ task[p].pc = "rLaunch" /\ rec.cp = task[p].seen.cp /\ rec.cp \in Arts /\ rec.cp # None
      /\ marker = None /\ disk = arts[task[p].seen.cp] /\ rec.state \in {"Pausing", "Paused"}
      /\ UNCHANGED <<rec, ops, arts, disk, marker, known, faults>>
  BY <1>0, NoneAssumption DEF ResumeLaunch, RowTrue, Equipped, At, Named, Alive
<1>2. PICK v \in Vmms :
         /\ task' = [task EXCEPT ![p].pc = "rFinish", ![p].vm = v]
         /\ \/ vmm' = vmm /\ vmm # None /\ vmm.id = v
            \/ /\ vmm' = [id |-> v, frozen |-> FALSE, at |-> disk, own |-> TRUE]
               /\ v # rec.pid
  <2>1. CASE Reachable /\ UNCHANGED vmm
    <3>1. vmm.id \in Vmms /\ vmm # None
      BY <1>0, <2>1 DEF Reachable, TypeOK, Opt
    <3>2. task' = [task EXCEPT ![p].pc = "rFinish", ![p].vm = vmm.id]
      BY <2>1, <3>1 DEF ResumeLaunch
    <3> QED BY <2>1, <3>1, <3>2
  <2>2. CASE ~(Reachable /\ UNCHANGED vmm)
    BY <1>1, <2>2 DEF ResumeLaunch, FreshVmm
  <2> QED BY <2>1, <2>2
<1>3. Moved(p, "rFinish") /\ task'[p].seen = task[p].seen /\ task'[p].vm = v
  BY <1>0, <1>2, VmMoves
<1>4. RowTrue'
  BY <1>0, <1>1, <1>2 DEF RowTrue, Named, Alive
<1>5. DisksTrue'
  BY <1>0, <1>1, <1>2 DEF DisksTrue
<1>6. At(p)'
  BY <1>1, <1>2, <1>3 DEF Moved, At, Named, Alive
<1>7. Unkilled'
  BY <1>0, <1>1, <1>2, <1>3 DEF Unkilled, Moved
<1>8. Undisturbed(p)
  BY <1>1 DEF Undisturbed, HoldsSaved
<1> QED BY <1>0, <1>3, <1>4, <1>5, <1>6, <1>7, <1>8, InvMove DEF Moved

\* A fresh boot knows what is on the disks.
LEMMA InvLaunches ==
    ASSUME Inv, Lonely, Base', NEW p \in Procs, NEW pc \in {"sCommit", "iCommit"},
           task[p].pc \in {"sLaunch", "iLaunch", "uLaunch"},
           pc = "sCommit" <=> task[p].pc = "sLaunch",
           Launches(p, pc) \/ (Done(p) /\ UNCHANGED vmm),
           UNCHANGED <<rec, ops, arts, disk, marker, known, faults, loose>>
    PROVE  Inv'
<1>0. /\ TypeOK /\ RowTrue /\ DisksTrue /\ At(p) /\ Unkilled
      /\ rec.state = "Running" => Named
  BY RowNamed DEF Inv, Base, Recording
<1>1. /\ rec.cp = None /\ marker = None
      /\ pc = "sCommit" /\ p \notin Unlocked => rec.state = "Stopped"
  BY <1>0 DEF RowTrue, DisksTrue, At
<1>2. CASE Done(p) /\ UNCHANGED vmm
  <2>1. Moved(p, "idle")
    BY <1>0, <1>2, DoneMoves
  <2>2. RowTrue' /\ DisksTrue' /\ Undisturbed(p)
    BY <1>0, <1>1, <1>2, RowFrame DEF Undisturbed
  <2>3. At(p)' /\ Unkilled'
    BY <1>0, <1>1, <1>2, <2>1, AtIdle, UnkilledKept DEF Moved
  <2> QED BY <2>1, <2>2, <2>3, InvMove DEF Moved
<1>3. ASSUME NEW v \in Vmms,
             task' = [task EXCEPT ![p].pc = pc, ![p].vm = v],
             \/ vmm' = vmm /\ vmm # None /\ vmm.id = v
             \/ /\ vmm' = [id |-> v, frozen |-> FALSE, at |-> disk, own |-> TRUE]
                /\ v # rec.pid
      PROVE  Inv'
  <2>1. Moved(p, pc) /\ task'[p].seen = task[p].seen /\ task'[p].vm = v
    BY <1>0, <1>3, VmMoves
  <2>2. rec.state = "Running" => Recording(p)'
    BY <1>1, <2>1 DEF Moved, Recording, TakesNoLock
  <2>3. RowTrue'
    BY <1>0, <1>1, <1>3, <2>2 DEF RowTrue, Named, Alive
  <2>4. DisksTrue'
    BY <1>0, <1>1, <1>3 DEF DisksTrue
  <2>5. At(p)'
    BY <1>1, <1>3, <2>1 DEF Moved, At, Named, Alive
  <2>6. Unkilled'
    BY <1>0, <1>1, <1>3, <2>1 DEF Unkilled, Moved
  <2>7. Undisturbed(p)
    BY <1>1 DEF Undisturbed, HoldsSource, TakesNoLock
  <2> QED BY <2>1, <2>3, <2>4, <2>5, <2>6, <2>7, InvMove DEF Moved
<1>4. CASE Launches(p, pc)
  BY <1>0, <1>2, <1>3, <1>4, LaunchCases
<1> QED BY <1>2, <1>4

\* An explicit, an implicit or an automatic start launches.
LEMMA InvStartLaunch ==
    ASSUME Inv, Lonely, NEW p \in Procs, StartLaunch(p) \/ ImplicitLaunch(p) \/ RestartLaunch(p)
    PROVE  Inv'
<1>0. Base'
  BY BaseStartLaunch DEF Inv
<1>1. CASE StartLaunch(p)
  BY <1>0, <1>1, InvLaunches DEF StartLaunch
<1>2. CASE ImplicitLaunch(p)
  BY <1>0, <1>2, InvLaunches DEF ImplicitLaunch
<1>3. CASE RestartLaunch(p)
  BY <1>0, <1>3, InvLaunches DEF RestartLaunch, Launches
<1> QED BY <1>1, <1>2, <1>3

\* RestartStops clears the row of a machine that is gone.
LEMMA InvRestartStops ==
    ASSUME Inv, Lonely, NEW p \in Procs, RestartStops(p)
    PROVE  Inv'
<1>0. /\ TypeOK /\ Equipped /\ Chosen /\ RowTrue /\ DisksTrue /\ At(p) /\ Unkilled
      /\ Base'
  BY BaseRestartStops DEF Inv, Base
<1>1. Moved(p, "idle")
  BY <1>0, DoneMoves DEF RestartStops
<1>2. /\ task[p].pc = "uLaunch" /\ rec.cp = None /\ vmm = None /\ marker = None
  BY <1>0 DEF RestartStops, RowTrue, DisksTrue, At
<1>3. Undisturbed(p)
  BY <1>2 DEF Undisturbed, TakesNoLock
<1>4. RowTrue'
  BY <1>0, <1>2, NoneAssumption DEF RowTrue, Named, Alive, RestartStops, TypeOK, Rows, Opt, Work
<1>5. DisksTrue'
  BY <1>0, <1>2, NoneAssumption DEF DisksTrue, RowTrue, RestartStops, TypeOK, Rows, Opt, Work
<1>6. At(p)'
  BY <1>1, AtIdle DEF Moved
<1>7. Unkilled'
  BY <1>2 DEF Unkilled, RestartStops
<1> QED BY <1>0, <1>1, <1>3, <1>4, <1>5, <1>6, <1>7, InvMove DEF Moved

\* The guest works: whoever relies on its memory has frozen it.
LEMMA InvGuestWorks ==
    ASSUME Inv, GuestWorks
    PROVE  Inv'
<1>0. TypeOK /\ RowTrue /\ DisksTrue /\ Unkilled /\ Base'
  BY BaseWorld DEF Inv, Base
<1>1. /\ vmm # None /\ ~vmm.frozen /\ marker = None
      /\ vmm \in [id : Vmms, frozen : BOOLEAN, at : Work, own : BOOLEAN]
      /\ UNCHANGED <<rec, ops, arts, marker, task, faults>>
      /\ disk' = (IF vmm.own THEN vmm.at + 1 ELSE disk)
      /\ known' = (IF Alive(rec.pid) THEN vmm.at + 1 ELSE known)
  BY <1>0 DEF GuestWorks, Reachable, DisksTrue, TypeOK, Opt
<1>3. vmm'.id = vmm.id /\ vmm'.frozen = FALSE /\ vmm'.own = vmm.own /\ vmm'.at = vmm.at + 1
  <2>1. vmm' = [vmm EXCEPT !.at = vmm.at + 1]
    BY DEF GuestWorks
  <2> QED BY <1>1, <2>1
<1>4. rec.pid = None => ~Alive(rec.pid)
  BY <1>1, NoneAssumption DEF Alive
<1>5. RowTrue'
  <2>1. \A q \in Procs : Recording(q)' = Recording(q)
    BY <1>1 DEF Recording, TakesNoLock
  <2> QED BY <1>0, <1>1, <1>3, <1>4, <2>1 DEF RowTrue, Named, Alive
<1>6. DisksTrue'
  BY <1>0, <1>1, <1>3 DEF DisksTrue
<1>7. ASSUME NEW q \in Procs PROVE At(q)'
  <2>1. At(q)
    BY DEF Inv
  <2>2. task[q].pc \notin {"pPack", "pDurable", "pStop", "rStop", "pMark", "pRecord",
                        "sClear", "tCommit"}
    BY <1>1, <2>1 DEF At
  <2>3. task[q].pc = "rLaunch" => ~vmm.own /\ disk' = disk
    BY <1>1, <2>1 DEF At
  <2> QED BY <1>1, <1>3, <2>1, <2>2, <2>3 DEF At, Named
<1>8. Unkilled'
  BY <1>0, <1>1, <1>3 DEF Unkilled, Alive
<1> QED BY <1>0, <1>5, <1>6, <1>7, <1>8 DEF Inv

\* Whatever relies on a VMM allows for its exit.
LEMMA InvVmmExits ==
    ASSUME Inv, VmmExits
    PROVE  Inv'
<1>0. TypeOK /\ RowTrue /\ DisksTrue /\ Base'
  BY BaseWorld DEF Inv, Base
<1>1. vmm' = None /\ UNCHANGED <<rec, ops, arts, disk, marker, known, task, faults>>
  BY DEF VmmExits
<1>2. RowTrue' /\ DisksTrue' /\ Unkilled'
  BY <1>0, <1>1 DEF RowTrue, DisksTrue, Unkilled, Named, Alive
<1>3. ASSUME NEW q \in Procs PROVE At(q)'
  <2>1. At(q)
    BY DEF Inv
  <2> QED BY <1>1, <2>1 DEF At, Named
<1> QED BY <1>0, <1>2, <1>3 DEF Inv

\* A server that starts clears only the row of a machine that is gone.
LEMMA InvReload ==
    ASSUME Inv, Reload
    PROVE  Inv'
<1>0. TypeOK /\ RowTrue /\ DisksTrue /\ Equipped /\ Unkilled /\ Base'
  BY BaseWorld DEF Inv, Base
<1>1. /\ rec.cp = None /\ rec.pid # None /\ ~Alive(rec.pid)
      /\ UNCHANGED <<vmm, arts, disk, marker, known, task, faults>>
  BY DEF Reload
<1>2. rec.state = "Running" /\ marker = None
  BY <1>0, <1>1 DEF RowTrue, DisksTrue, TypeOK, Rows
<1>3. rec'.state = "Stopped" /\ rec'.cp = None /\ rec'.pid = None
  BY <1>0, <1>1 DEF Reload, TypeOK, Rows
<1>4. ~Alive(rec'.pid)
  BY <1>0, <1>3, NoneAssumption DEF Alive, TypeOK, Opt
<1>5. RowTrue' /\ DisksTrue' /\ Unkilled'
  BY <1>0, <1>1, <1>2, <1>3, <1>4 DEF RowTrue, DisksTrue, Unkilled, Alive
<1>6. ASSUME NEW q \in Procs PROVE At(q)'
  <2>1. At(q) /\ task'[q] = task[q] /\ UNCHANGED <<vmm, arts, disk, marker, known>>
    BY <1>1 DEF Inv
  <2>2. task[q].pc \notin OutPcs \ {"pClean"} /\ task[q].pc \notin SeenPcs \ {"rClean"}
    BY <1>0, <1>1, <2>1, NoneAssumption DEF At, Equipped
  <2>3. task[q].pc \notin {"pRecover", "pRecovered", "rThaw", "rThawed"}
    BY <1>2, <2>1 DEF At
  <2>4. task[q].pc = "pIntent" => vmm = None
    BY <1>1, <2>1 DEF At, Named, Alive
  <2> QED BY <1>3, <2>1, <2>2, <2>3, <2>4 DEF At, Named
<1> QED BY <1>0, <1>5, <1>6 DEF Inv

\* The machine runs on its disks and nothing is saved.
LEMMA InvInit == Init => Inv
<1> SUFFICES ASSUME Init PROVE Inv
  OBVIOUS
<1>1. PICK v \in Vmms : /\ rec = [state |-> "Running", cp |-> None, pid |-> v]
                        /\ vmm = [id |-> v, frozen |-> FALSE, at |-> 0, own |-> TRUE]
  BY DEF Init
<1>2. RowTrue /\ DisksTrue /\ Unkilled
  BY <1>1 DEF Init, RowTrue, DisksTrue, Unkilled, Named, Alive
<1>3. ASSUME NEW p \in Procs PROVE At(p)
  <2>1. task[p].pc = "idle"
    BY DEF Init, Idle
  <2> QED BY <2>1 DEF At, Named, Alive
<1> QED BY <1>2, <1>3, BaseInit DEF Inv

\* Every step keeps the invariant.
LEMMA InvStep ==
    ASSUME Inv, Lonely, [Next]_vars, ~loose'
    PROVE  Inv'
<1>1. CASE UNCHANGED vars
  <2>1. UNCHANGED <<rec, vmm, arts, disk, marker, known, task, faults>>
    BY <1>1 DEF vars
  <2>2. Base'
    BY BaseStep DEF Inv
  <2>3. RowTrue' /\ DisksTrue'
    <3>1. \A q \in Procs : Recording(q)' = Recording(q)
      BY <2>1 DEF Recording, TakesNoLock
    <3> QED BY <2>1, <3>1 DEF Inv, RowTrue, DisksTrue, Named, Alive
  <2>4. Unkilled'
    BY <2>1 DEF Inv, Unkilled, Alive
  <2>5. ASSUME NEW q \in Procs PROVE At(q)'
    BY <2>1, AtFrame DEF Inv
  <2> QED BY <2>2, <2>3, <2>4, <2>5 DEF Inv
<1>2. ASSUME NEW p \in Procs, Request(p) PROVE Inv'
  BY <1>2, InvPauseBegin, InvResumeBegin, InvResumeRunning, InvOthersBegin DEF Request
<1>3. ASSUME NEW p \in Procs, PauseStep(p) PROVE Inv'
  BY <1>3, InvPauseRecover, InvPauseRecovered, InvPauseFinishStop, InvPauseCapture,
     InvPauseIntent, InvPauseSave, InvPausePack, InvPauseDurable, InvPauseStop, InvPauseMark,
     InvPauseRecord, InvPauseFails, InvPauseWakes, InvPauseUndo, InvPauseClean,
     InvSaveFails, InvGuardFails
     DEF PauseStep
<1>4. ASSUME NEW p \in Procs, ResumeStep(p) PROVE Inv'
  BY <1>4, InvResumeThaw, InvResumeThawed, InvResumeStop, InvResumeInstall, InvResumeLaunch,
     InvResumeFinish, InvResumeClean, InvResumeFails
     DEF ResumeStep
<1>5. ASSUME NEW p \in Procs, StartStep(p) PROVE Inv'
  BY <1>5, InvStartProbe, InvStartOrphan, InvStartReread, InvStartReprobe, InvStartKill,
     InvStartClear, InvStartEnsure, InvStartLaunch, InvStartCommit
     DEF StartStep
<1>6. ASSUME NEW p \in Procs, StopStep(p) \/ CheckpointStep(p) \/ Crash(p) PROVE Inv'
  BY <1>6, InvStopKill, InvStopCommit, InvCheckpointSave, InvCheckpointThaw, InvCrash
     DEF StopStep, CheckpointStep
<1>7. ASSUME NEW p \in Procs, ImplicitStep(p) PROVE Inv'
  BY <1>7, InvStartLaunch, InvRestartStops DEF ImplicitStep
<1> QED BY <1>1, <1>2, <1>3, <1>4, <1>5, <1>6, <1>7, InvGuestWorks, InvVmmExits, InvReload
        DEF Next, Step

-----------------------------------------------------------------------------
(* Starts without the source lock, until one is loose                       *)

\* A step of a pause stays in the pause or ends it.
LEMMA PauseMoves ==
    ASSUME TypeOK, NEW p \in Procs, PauseStep(p)
    PROVE  /\ task[p].pc # "idle" /\ loose' = loose
           /\ \E pc \in {"idle"} \cup PausePcs : Moved(p, pc)
<1>1. CASE PauseRecover(p) \/ PauseFinishStop(p) \/ PauseCapture(p) \/ PauseSave(p)
  BY <1>1, DoneMoves, GotoMoves
     DEF PauseRecover, PauseFinishStop, PauseCapture, PauseSave, Pcs, PausePcs
<1>2. CASE PauseRecovered(p)
  <2>1. rec' \in Rows /\ task' = [task EXCEPT ![p].pc = "pCapture", ![p].seen = rec']
    BY <1>2 DEF PauseRecovered, TypeOK, Rows, Opt
  <2>2. PICK row \in Rows : task' = [task EXCEPT ![p].pc = "pCapture", ![p].seen = row]
    BY <2>1
  <2>3. Moved(p, "pCapture")
    BY <2>2, SeenMoves DEF Pcs, PausePcs
  <2> QED BY <1>2, <2>3 DEF PauseRecovered, PausePcs
<1>3. CASE \E a \in Arts : PauseIntent(p, a)
  BY <1>3, OutMoves DEF PauseIntent, PausePcs
<1>4. CASE PausePack(p) \/ PauseDurable(p) \/ PauseStop(p) \/ PauseMark(p) \/ PauseRecord(p)
  BY <1>4, DoneMoves, GotoMoves
     DEF PausePack, PauseDurable, PauseStop, PauseMark, PauseRecord, Pcs, PausePcs
<1>5. CASE PauseFails(p) \/ PauseWakes(p) \/ PauseUndo(p) \/ PauseClean(p)
  BY <1>5, DoneMoves, GotoMoves
     DEF PauseFails, PauseWakes, PauseUndo, PauseClean, Pcs, PausePcs
<1>6. CASE SaveFails(p) \/ GuardFails(p)
  BY <1>6, DoneMoves, GotoMoves DEF SaveFails, GuardFails, Pcs, PausePcs
<1> QED BY <1>1, <1>2, <1>3, <1>4, <1>5, <1>6 DEF PauseStep

\* A step of a resume stays in the resume or ends it.
LEMMA ResumeMoves ==
    ASSUME TypeOK, NEW p \in Procs, ResumeStep(p)
    PROVE  /\ task[p].pc # "idle" /\ loose' = loose
           /\ \E pc \in {"idle"} \cup ResumePcs : Moved(p, pc)
<1>1. CASE ResumeThaw(p) \/ ResumeThawed(p) \/ ResumeStop(p) \/ ResumeInstall(p)
  BY <1>1, DoneMoves, GotoMoves
     DEF ResumeThaw, ResumeThawed, ResumeStop, ResumeInstall, Pcs, ResumePcs
<1>2. CASE ResumeLaunch(p)
  <2>1. PICK v \in Vmms : task' = [task EXCEPT ![p].pc = "rFinish", ![p].vm = v]
    BY <1>2 DEF ResumeLaunch, Reachable, TypeOK, Opt
  <2> QED BY <1>2, <2>1, VmMoves DEF ResumeLaunch, Pcs, ResumePcs
<1>3. CASE ResumeFinish(p) \/ ResumeClean(p) \/ ResumeFails(p)
  BY <1>3, DoneMoves, GotoMoves DEF ResumeFinish, ResumeClean, ResumeFails, Pcs, ResumePcs
<1> QED BY <1>1, <1>2, <1>3 DEF ResumeStep

\* A launch ends in a record or in nothing.
LEMMA LaunchMoves ==
    ASSUME TypeOK, NEW p \in Procs, NEW pc \in {"sCommit", "iCommit"},
           Launches(p, pc) \/ Boots(p, pc) \/ Done(p)
    PROVE  Moved(p, pc) \/ Moved(p, "idle")
<1>1. CASE Done(p)
  BY <1>1, DoneMoves
<1>2. CASE Launches(p, pc) \/ Boots(p, pc)
  <2>1. Done(p) \/ \E v \in Vmms : task' = [task EXCEPT ![p].pc = pc, ![p].vm = v]
    BY <1>2, LaunchCases DEF Launches
  <2>2. pc \in Pcs
    BY DEF Pcs, StartPcs, ImplicitPcs
  <2> QED BY <2>1, <2>2, DoneMoves, VmMoves
<1> QED BY <1>1, <1>2

\* A step of a start stays in the start or ends it.
LEMMA StartMoves ==
    ASSUME TypeOK, NEW p \in Procs, StartStep(p) \/ ImplicitStep(p)
    PROVE  /\ task[p].pc \in StartPcs \cup ImplicitPcs /\ loose' = loose
           /\ \E pc \in {"idle"} \cup StartPcs \cup ImplicitPcs :
                 Moved(p, pc) /\ (TakesNoLock(p, pc) => TakesNoLock(p, task[p].pc))
<1>1. CASE StartProbe(p) \/ StartOrphan(p) \/ StartReprobe(p) \/ StartKill(p)
  <2>1. task[p].pc \in StartPcs /\ loose' = loose
    BY <1>1 DEF StartProbe, StartOrphan, StartReprobe, StartKill, StartPcs
  <2>2. \E pc \in {"idle", "sReread", "sOrphan", "sEnsure", "sKill", "sClear"} : Moved(p, pc)
    BY <1>1, DoneMoves, GotoMoves
       DEF StartProbe, StartOrphan, StartReprobe, StartKill, Pcs, StartPcs
  <2> QED BY <2>1, <2>2 DEF TakesNoLock, StartPcs, ImplicitPcs
<1>2. CASE StartReread(p)
  <2>1. Moved(p, "sReprobe") /\ task[p].pc = "sReread" /\ loose' = loose
    BY <1>2, SeenMoves DEF StartReread, TypeOK, Pcs, StartPcs
  <2> QED BY <2>1 DEF TakesNoLock, StartPcs, ImplicitPcs
<1>3. CASE StartClear(p) \/ StartEnsure(p) \/ StartCommit(p)
  <2>1. task[p].pc \in StartPcs \cup {"iCommit"} /\ loose' = loose
    BY <1>3 DEF StartClear, StartEnsure, StartCommit, StartPcs
  <2>2. \/ Moved(p, "idle")
        \/ task[p].pc \in StartPcs /\ (Moved(p, "sEnsure") \/ Moved(p, "sLaunch"))
    BY <1>3, DoneMoves, GotoMoves DEF StartClear, StartEnsure, StartCommit, Pcs, StartPcs
  <2> QED BY <2>1, <2>2 DEF TakesNoLock, StartPcs, ImplicitPcs
<1>4. CASE StartLaunch(p)
  <2>1. (Moved(p, "sCommit") \/ Moved(p, "idle")) /\ task[p].pc = "sLaunch" /\ loose' = loose
    BY <1>4, LaunchMoves DEF StartLaunch
  <2> QED BY <2>1 DEF TakesNoLock, StartPcs, ImplicitPcs
<1>5. CASE ImplicitStep(p)
  <2>1. (Moved(p, "iCommit") \/ Moved(p, "idle")) /\ loose' = loose
    BY <1>5, LaunchMoves, DoneMoves
       DEF ImplicitStep, ImplicitLaunch, RestartLaunch, RestartStops
  <2>2. task[p].pc \in ImplicitPcs
    BY <1>5 DEF ImplicitStep, ImplicitLaunch, RestartLaunch, RestartStops, ImplicitPcs
  <2> QED BY <2>1, <2>2 DEF TakesNoLock, StartPcs, ImplicitPcs
<1> QED BY <1>1, <1>2, <1>3, <1>4, <1>5 DEF StartStep

\* A request in service never becomes a start without the source lock.
LEMMA StepMoves ==
    ASSUME TypeOK, NEW p \in Procs, Step(p)
    PROVE  /\ task[p].pc # "idle" /\ loose' = loose
           /\ \A q \in Procs \ {p} : task'[q] = task[q]
           /\ TakesNoLock(p, task'[p].pc) => TakesNoLock(p, task[p].pc)
<1>1. CASE PauseStep(p)
  BY <1>1, PauseMoves DEF Moved, TakesNoLock, PausePcs, StartPcs, ImplicitPcs
<1>2. CASE ResumeStep(p)
  BY <1>2, ResumeMoves DEF Moved, TakesNoLock, ResumePcs, StartPcs, ImplicitPcs
<1>3. CASE StartStep(p) \/ ImplicitStep(p)
  BY <1>3, StartMoves DEF Moved, StartPcs, ImplicitPcs
<1>4. CASE StopStep(p) \/ CheckpointStep(p)
  <2>1. /\ task[p].pc # "idle" /\ loose' = loose
        /\ Moved(p, "idle") \/ Moved(p, "tCommit") \/ Moved(p, "cThaw")
    BY <1>4, DoneMoves, GotoMoves
       DEF StopStep, CheckpointStep, StopKill, StopCommit, CheckpointSave, CheckpointThaw, Pcs,
           StopPcs, CheckpointPcs
  <2> QED BY <2>1 DEF Moved, TakesNoLock, StartPcs, ImplicitPcs
<1> QED BY <1>1, <1>2, <1>3, <1>4 DEF Step

\* A request taken up beside a start without the source lock makes it loose.
LEMMA RequestMoves ==
    ASSUME TypeOK, NEW p \in Procs, Request(p)
    PROVE  /\ loose => loose'
           /\ \/ UNCHANGED task
              \/ \E pc \in Pcs : /\ Moved(p, pc) /\ task[p].pc = "idle"
                                 /\ loose' = (loose \/ Crosses(p, pc))
<1>1. ASSUME NEW pc \in Pcs, NEW op \in Opt(Ops), Begin(p, pc, op)
      PROVE  Moved(p, pc) /\ loose' = (loose \/ Crosses(p, pc))
  BY <1>1, BeginMoves DEF Begin
<1>2. None \in Opt(Ops)
  BY DEF Opt
<1>3. ASSUME NEW op \in Opt(Ops), PauseBegin(p, op)
      PROVE  \E pc \in Pcs : Begin(p, pc, op) /\ task[p].pc = "idle"
  <2>1. PausePath(op) \in Pcs
    BY DEF PausePath, Pcs, PausePcs
  <2> QED BY <1>3, <2>1 DEF PauseBegin
<1>4. ASSUME NEW op \in Opt(Ops), ResumeBegin(p, op)
      PROVE  \E pc \in Pcs : Begin(p, pc, op) /\ task[p].pc = "idle"
  <2>1. ResumePath \in Pcs
    BY DEF ResumePath, Pcs, ResumePcs
  <2> QED BY <1>4, <2>1 DEF ResumeBegin
<1>5. ASSUME StartBegin(p) \/ ImplicitBegin(p) \/ RestartBegin(p) \/ StopBegin(p)
             \/ CheckpointBegin(p)
      PROVE  \E pc \in Pcs : Begin(p, pc, None) /\ task[p].pc = "idle"
  BY <1>5 DEF StartBegin, ImplicitBegin, RestartBegin, StopBegin, CheckpointBegin, Pcs, StartPcs,
              ImplicitPcs, StopPcs, CheckpointPcs
<1>6. ASSUME NEW op \in Opt(Ops), ResumeRunning(p, op)
      PROVE  UNCHANGED task /\ loose' = loose
  BY <1>6 DEF ResumeRunning
<1> QED BY <1>1, <1>2, <1>3, <1>4, <1>5, <1>6 DEF Request

\* A start without the source lock stays the only request until it is loose.
LEMMA LonelyStep ==
    ASSUME TypeOK, Lonely, [Next]_vars, ~loose'
    PROVE  Lonely' /\ ~loose
<1>1. CASE UNCHANGED <<task, loose>>
  BY <1>1 DEF Lonely, TakesNoLock
<1>2. ASSUME NEW p \in Procs, Step(p) PROVE Lonely' /\ ~loose
  <2>1. /\ task[p].pc # "idle" /\ loose' = loose
        /\ \A q \in Procs \ {p} : task'[q] = task[q]
        /\ TakesNoLock(p, task'[p].pc) => TakesNoLock(p, task[p].pc)
    BY <1>2, StepMoves
  <2>2. \A q \in Procs \ {p} : ~TakesNoLock(q, task[q].pc)
    BY <2>1 DEF Lonely
  <2>3. \A q \in Procs \ {p} : ~TakesNoLock(q, task'[q].pc)
    BY <2>1, <2>2
  <2> QED BY <2>1, <2>3 DEF Lonely, TakesNoLock
<1>3. ASSUME NEW p \in Procs, Request(p) PROVE Lonely' /\ ~loose
  <2>1. CASE UNCHANGED task
    BY <1>3, <2>1, RequestMoves DEF Lonely, TakesNoLock
  <2>2. ASSUME NEW pc \in Pcs, Moved(p, pc), task[p].pc = "idle", loose' = (loose \/ Crosses(p, pc))
        PROVE  Lonely' /\ ~loose
    <3>1. ~Crosses(p, pc) /\ task'[p].pc = pc /\ \A q \in Procs \ {p} : task'[q] = task[q]
      BY <2>2 DEF Moved
    <3>2. \A q \in Procs \ {p} :
             task[q].pc # "idle" => ~TakesNoLock(p, pc) /\ ~TakesNoLock(q, task[q].pc)
      BY <3>1 DEF Crosses
    <3>3. \A q \in Procs : task[q].pc = "idle" => ~TakesNoLock(q, task[q].pc)
      BY DEF TakesNoLock, StartPcs, ImplicitPcs
    <3>4. ASSUME NEW a \in Procs, NEW b \in Procs, a # b, TakesNoLock(a, task'[a].pc)
          PROVE  task'[b].pc = "idle"
      <4>1. CASE a = p
        BY <3>1, <3>2, <3>4, <4>1
      <4>2. CASE a # p
        <5>1. task'[a] = task[a] /\ task[a].pc = "idle"
          BY <3>1, <3>2, <3>3, <3>4, <4>2
        <5> QED BY <3>3, <3>4, <5>1
      <4> QED BY <4>1, <4>2
    <3> QED BY <2>2, <3>1, <3>4 DEF Lonely, TakesNoLock
  <2> QED BY <1>3, <2>1, <2>2, RequestMoves
<1>4. ASSUME NEW p \in Procs, Crash(p) PROVE Lonely' /\ ~loose
  <2>1. Moved(p, "idle") /\ ~loose
    BY <1>4, DoneMoves DEF Crash
  <2> QED BY <2>1 DEF Moved, Lonely, TakesNoLock, StartPcs, ImplicitPcs
<1>5. CASE GuestWorks \/ VmmExits \/ Reload
  BY <1>1, <1>5 DEF GuestWorks, VmmExits, Reload
<1> QED BY <1>1, <1>2, <1>3, <1>4, <1>5 DEF Next, vars

\* What is loose stays loose.
LEMMA LooseStays ==
    ASSUME TypeOK, [Next]_vars, loose
    PROVE  loose'
<1>1. ASSUME NEW p \in Procs, Step(p) \/ Request(p) \/ Crash(p) PROVE loose'
  BY <1>1, StepMoves, RequestMoves DEF Crash
<1> QED BY <1>1 DEF Next, vars, GuestWorks, VmmExits, Reload

-----------------------------------------------------------------------------
(* Theorems, for any number of processes with and without the source lock   *)

\* What holds until a start is loose.
Calm == Lonely /\ Inv

\* Until a start is loose the requests do not disturb each other.
LEMMA InvHolds == Spec => [](Base /\ (loose \/ Calm))
<1> DEFINE I == Base /\ (loose \/ Calm)
<1>1. Init => I
  <2>1. Init => Lonely
    BY DEF Init, Lonely, TakesNoLock, Idle, StartPcs, ImplicitPcs
  <2> QED BY <2>1, BaseInit, InvInit DEF Calm
<1>2. I /\ [Next]_vars => I'
  <2> SUFFICES ASSUME I, [Next]_vars PROVE I'
    OBVIOUS
  <2>1. Base'
    BY BaseStep
  <2>2. CASE loose
    BY <2>1, <2>2, LooseStays DEF Base
  <2>3. CASE Calm /\ ~loose'
    BY <2>1, <2>3, LonelyStep, InvStep DEF Calm, Base
  <2> QED BY <2>1, <2>2, <2>3
<1> QED BY <1>1, <1>2, PTL DEF Spec

\* Until a start is loose, a row that says Paused names a complete artifact, and
\* once the pause has returned the artifact holds everything the guest did.
THEOREM PausedMachinesAreSaved == Spec => []PausedIsSaved
<1>1. loose \/ Calm => PausedIsSaved
  BY DEF Calm, Inv, RowTrue, PausedIsSaved
<1> QED BY InvHolds, <1>1, PTL

\* Until a start is loose, the guest's memory and the machine's disks are of one
\* moment, whatever prepare_paused_restore kept or replaced.
THEOREM MemoryAndDisksAgree == Spec => []MemoryMatchesDisks
<1>1. loose \/ Calm => MemoryMatchesDisks
  BY DEF Calm, Inv, DisksTrue, MemoryMatchesDisks
<1> QED BY InvHolds, <1>1, PTL

\* Until a start is loose, and as long as no process was killed, a running machine
\* has its disks.
THEOREM UnkilledMachinesKeepTheirDisks == Spec => []UnkilledRunsOnItsDisks
<1>1. loose \/ Calm => UnkilledRunsOnItsDisks
  BY DEF Calm, Inv, Unkilled, UnkilledRunsOnItsDisks, RunsOnItsDisks, Alive
<1> QED BY InvHolds, <1>1, PTL

\* Until a start is loose, recover_if_unreachable never condemns a guest that a
\* capture froze. The zombie run shows a loose start that does.
THEOREM OnlyZombiesAreKilled == Spec => []LockedKillsOnlyZombies
<1>1. Calm => KillsOnlyZombies
  <2> SUFFICES ASSUME Calm, NEW p \in Procs, NEW q \in Procs, task[p].pc = "sKill",
                      task[q].pc \in {"pPack", "pDurable", "pStop", "cThaw"}
               PROVE  FALSE
    BY DEF KillsOnlyZombies
  <2>1. p # q /\ HoldsSource(q)
    BY DEF HoldsSource, CapturePcs, CheckpointPcs
  <2>2. CASE p \in Unlocked
    BY <2>1, <2>2 DEF Calm, Lonely, TakesNoLock, StartPcs
  <2>3. CASE p \notin Unlocked
    <3>1. HoldsSource(p)
      BY <2>3 DEF HoldsSource, StartPcs
    <3> QED BY <2>1, <3>1 DEF Calm, Inv, Base, Locks
  <2> QED BY <2>2, <2>3
<1>2. loose \/ Calm => LockedKillsOnlyZombies
  BY <1>1 DEF LockedKillsOnlyZombies
<1> QED BY InvHolds, <1>2, PTL

\* A pause that finds an earlier one committed only finishes its stop.
LEMMA FinishesStop ==
    ASSUME NEW p \in Procs, task[p].pc = "pFinishStop", Step(p)
    PROVE  PauseFinishStop(p)
<1>1. PauseStep(p) => PauseFinishStop(p)
  BY DEF PauseStep, PauseRecover, PauseRecovered, PauseFinishStop, PauseCapture, PauseIntent,
         PauseSave, PausePack, PauseDurable, PauseStop, PauseMark, PauseRecord, PauseFails,
         PauseWakes, PauseUndo, PauseClean, SaveFails, GuardFails
<1>2. ~ResumeStep(p) /\ ~StartStep(p)
  BY DEF ResumeStep, StartStep, ResumeThaw, ResumeThawed, ResumeStop, ResumeInstall,
         ResumeLaunch, ResumeFinish, ResumeClean, ResumeFails, StartProbe, StartReread,
         StartReprobe, StartKill, StartClear, StartEnsure, StartLaunch, StartCommit, StartOrphan
<1>3. ~ImplicitStep(p) /\ ~StopStep(p) /\ ~CheckpointStep(p)
  BY DEF ImplicitStep, ImplicitLaunch, RestartLaunch, RestartStops, StopStep, CheckpointStep,
         StopKill, StopCommit, CheckpointSave, CheckpointThaw
<1> QED BY <1>1, <1>2, <1>3 DEF Step

\* Requests leave the VMM alone until they are in service.
LEMMA RequestsRest ==
    ASSUME NEW p \in Procs, Request(p)
    PROVE  vmm' = vmm
BY DEF Request, PauseBegin, ResumeBegin, ResumeRunning, StartBegin, ImplicitBegin, RestartBegin,
       StopBegin, CheckpointBegin

\* Only the launches of a resume and of a start make a VMM.
LEMMA WhoBoots ==
    ASSUME Next, vmm = None, vmm' # None
    PROVE  \E p \in Procs : ResumeLaunch(p) \/ StartLaunch(p) \/ ImplicitLaunch(p) \/ RestartLaunch(p)
<1>1. ~(\E q \in Procs : Request(q) \/ Crash(q))
  BY RequestsRest DEF Crash
<1>2. ~GuestWorks /\ ~VmmExits /\ ~Reload
  BY DEF GuestWorks, VmmExits, Reload, Reachable
<1>3. PICK p \in Procs : Step(p)
  BY <1>1, <1>2 DEF Next
<1>4. ~PauseStep(p)
  BY DEF PauseStep, PauseRecover, PauseRecovered, PauseFinishStop, PauseCapture, PauseIntent,
         PauseSave, PausePack, PauseDurable, PauseStop, PauseMark, PauseRecord, PauseFails,
         PauseWakes, PauseUndo, PauseClean, SaveFails, GuardFails
<1>5. ResumeStep(p) => ResumeLaunch(p)
  BY DEF ResumeStep, ResumeThaw, ResumeThawed, ResumeStop, ResumeInstall, ResumeFinish,
         ResumeClean, ResumeFails
<1>6. StartStep(p) => StartLaunch(p)
  BY DEF StartStep, StartProbe, StartReread, StartReprobe, StartKill, StartClear, StartEnsure,
         StartCommit, StartOrphan
<1>7. ~StopStep(p) /\ ~CheckpointStep(p)
  BY DEF StopStep, CheckpointStep, StopKill, StopCommit, CheckpointSave, CheckpointThaw
<1>8. ImplicitStep(p) => ImplicitLaunch(p) \/ RestartLaunch(p)
  BY DEF ImplicitStep, RestartStops
<1> QED BY <1>3, <1>4, <1>5, <1>6, <1>7, <1>8 DEF Step

\* Until a start is loose, a machine with a saved execution is booted by a resume
\* and by nobody else: no start, no implicit start and not the supervisor.
THEOREM SavedMachinesAreNotBooted == Spec => NoFreshBoot
<1>1. (loose \/ Calm) /\ [Next]_vars =>
         [~loose /\ vmm = None /\ vmm' # None /\ rec.cp # None =>
             \E p \in Procs : task[p].pc = "rLaunch"]_vars
  <2> SUFFICES ASSUME Calm, Next, vmm = None, vmm' # None, rec.cp # None
               PROVE  \E p \in Procs : task[p].pc = "rLaunch"
    OBVIOUS
  <2>1. PICK p \in Procs :
           ResumeLaunch(p) \/ StartLaunch(p) \/ ImplicitLaunch(p) \/ RestartLaunch(p)
    BY WhoBoots
  <2>2. ~StartLaunch(p) /\ ~ImplicitLaunch(p) /\ ~RestartLaunch(p)
    <3>1. task[p].pc \notin StartPcs \cup ImplicitPcs
      BY DEF Calm, Inv, At
    <3> QED BY <3>1 DEF StartLaunch, ImplicitLaunch, RestartLaunch, StartPcs, ImplicitPcs
  <2> QED BY <2>1, <2>2 DEF ResumeLaunch
<1> QED BY InvHolds, <1>1, PTL DEF Spec, NoFreshBoot

\* Until a start is loose, stop_paused ends a VMM only when the row's artifact
\* holds all of its work.
THEOREM StoppedVmmsAreSaved == Spec => StopsOnlySaved
<1> DEFINE A == \A p \in Procs :
                  ~loose /\ task[p].pc \in {"pFinishStop", "pStop", "rStop"} /\ vmm # None
                      /\ vmm' = None /\ task' # task =>
                  arts[rec.cp] = vmm.at
<1>1. (loose \/ Calm) /\ [Next]_vars => [A]_vars
  <2> SUFFICES ASSUME Calm, Next, NEW p \in Procs,
                      task[p].pc \in {"pFinishStop", "pStop", "rStop"}, vmm # None, vmm' = None,
                      task' # task
               PROVE  arts[rec.cp] = vmm.at
    OBVIOUS
  <2>1. TypeOK /\ RowTrue /\ At(p) /\ rec.state = "Paused" /\ Named
    BY DEF Calm, Inv, Base, At
  <2>2. Alive(rec.pid)
    BY <2>1 DEF Named, Alive
  <2>3. rec.cp # None /\ HoldsSaved(p)
    BY <2>1 DEF RowTrue, HoldsSaved
  <2>4. \A q \in Procs \ {p} : task[q].pc = "idle"
    BY <2>3, Alone DEF Calm
  <2>5. CASE vmm.frozen
    BY <2>1, <2>2, <2>5 DEF RowTrue
  <2>6. CASE ~vmm.frozen
    <3>1. task[p].pc = "pFinishStop"
      BY <2>1, <2>6 DEF At
    <3>2. ~(\E q \in Procs : Request(q))
      BY RequestsRest
    <3>3. ~GuestWorks /\ ~VmmExits /\ ~Reload
      BY DEF GuestWorks, VmmExits, Reload
    <3>4. \A q \in Procs \ {p} : ~Step(q)
      BY <2>1, <2>4, StepMoves
    <3>5. ~(\E q \in Procs : Crash(q))
      BY DEF Crash
    <3>6. Step(p)
      BY <3>2, <3>3, <3>4, <3>5 DEF Next
    <3>7. PauseFinishStop(p)
      BY <3>1, <3>6, FinishesStop
    <3> QED BY <2>6, <3>7 DEF PauseFinishStop
  <2> QED BY <2>5, <2>6
<1> QED BY InvHolds, <1>1, PTL DEF Spec, StopsOnlySaved

\* A process that has a guard keeps it, wakes the guest or fails to.
LEMMA GuardStep ==
    ASSUME TypeOK, NEW p \in Procs, Step(p), task[p].pc \in GuardPcs, Frozen'
    PROVE  Guarded' \/ GuardFails(p)
<1>1. ~ResumeStep(p) /\ ~StartStep(p)
  BY DEF GuardPcs, ResumeStep, StartStep, ResumeThaw, ResumeThawed, ResumeStop, ResumeInstall,
         ResumeLaunch, ResumeFinish, ResumeClean, ResumeFails, StartProbe, StartReread,
         StartReprobe, StartKill, StartClear, StartEnsure, StartLaunch, StartCommit, StartOrphan
<1>2. ~ImplicitStep(p) /\ ~StopStep(p) /\ (CheckpointStep(p) => CheckpointThaw(p))
  BY DEF GuardPcs, ImplicitStep, ImplicitLaunch, RestartLaunch, RestartStops, StopStep,
         CheckpointStep, StopKill, StopCommit, CheckpointSave, CheckpointThaw
<1>3. PauseStep(p) => \/ PausePack(p) \/ PauseDurable(p) \/ PauseStop(p) \/ PauseFails(p)
                      \/ PauseWakes(p) \/ GuardFails(p)
  BY DEF GuardPcs, PauseStep, PauseRecover, PauseRecovered, PauseFinishStop, PauseCapture,
         PauseIntent, PauseSave, PauseMark, PauseRecord, PauseUndo, PauseClean, SaveFails
<1>4. CASE PausePack(p) \/ PauseDurable(p) \/ PauseFails(p)
  <2>1. Moved(p, "pDurable") \/ Moved(p, "pStop") \/ Moved(p, "pFail")
    BY <1>4, GotoMoves DEF PausePack, PauseDurable, PauseFails, Pcs, PausePcs
  <2> QED BY <2>1 DEF Moved, Guarded, GuardPcs
<1>5. ~PauseStop(p) /\ ~PauseWakes(p) /\ ~CheckpointThaw(p)
  BY DEF PauseStop, PauseWakes, CheckpointThaw, Frozen, TypeOK, Opt
<1> QED BY <1>1, <1>2, <1>3, <1>4, <1>5 DEF Step

\* Any other process freezes the guest with a guard, or by a SAVE whose reply is lost.
LEMMA OtherStep ==
    ASSUME TypeOK, NEW p \in Procs, Step(p), Frozen'
    PROVE  Frozen \/ Guarded' \/ SaveFails(p)
<1>1. CASE PauseSave(p) \/ CheckpointSave(p)
  <2>1. Moved(p, "pPack") \/ Moved(p, "cThaw")
    BY <1>1, GotoMoves DEF PauseSave, CheckpointSave, Pcs, PausePcs, CheckpointPcs
  <2> QED BY <2>1 DEF Moved, Guarded, GuardPcs
<1>2. CASE PauseStep(p) /\ ~PauseSave(p) /\ ~SaveFails(p)
  BY <1>2 DEF PauseStep, PauseRecover, PauseRecovered, PauseFinishStop, PauseCapture, PauseIntent,
         PausePack, PauseDurable, PauseStop, PauseMark, PauseRecord, PauseFails, PauseWakes,
         PauseUndo, PauseClean, GuardFails, Frozen, TypeOK, Opt
<1>3. CASE ResumeStep(p)
  BY <1>3 DEF ResumeStep, ResumeThaw, ResumeThawed, ResumeStop, ResumeInstall, ResumeLaunch,
              ResumeFinish, ResumeClean, ResumeFails, Frozen, TypeOK, Opt
<1>4. CASE StartStep(p) \/ ImplicitStep(p)
  BY <1>4 DEF StartStep, ImplicitStep, StartProbe, StartReread, StartReprobe, StartKill, StartClear,
              StartEnsure, StartLaunch, StartCommit, StartOrphan, ImplicitLaunch, RestartLaunch,
              RestartStops, Launches, Boots, Frozen
<1>5. CASE StopStep(p) \/ CheckpointThaw(p)
  BY <1>5 DEF StopStep, StopKill, StopCommit, CheckpointThaw, Frozen, TypeOK, Opt
<1> QED BY <1>1, <1>2, <1>3, <1>4, <1>5 DEF Step, CheckpointStep

\* Loose starts or not, a guest is left frozen without a guard only by a killed
\* process, a lost reply to SAVE or a guard whose RESUME failed.
THEOREM FrozenGuestsAreGuarded == Spec => FrozenIsGuarded
<1>1. Base /\ [Next]_vars =>
         [Frozen' /\ ~Guarded' =>
            \/ Frozen /\ ~Guarded
            \/ \E p \in Procs : Crash(p) \/ SaveFails(p) \/ GuardFails(p)]_vars
  <2> SUFFICES ASSUME Base, Next, Frozen', ~Guarded',
                      ~(\E p \in Procs : Crash(p) \/ SaveFails(p) \/ GuardFails(p))
               PROVE  Frozen /\ ~Guarded
    OBVIOUS
  <2>1. CASE GuestWorks \/ VmmExits \/ Reload
    <3>1. task' = task /\ (Frozen' => Frozen)
      BY <2>1 DEF GuestWorks, VmmExits, Reload, Frozen, Reachable, Base, TypeOK, Opt
    <3> QED BY <3>1 DEF Guarded
  <2>2. ASSUME NEW p \in Procs, Step(p) PROVE Frozen /\ ~Guarded
    <3>1. Frozen
      BY <2>2, OtherStep DEF Base
    <3>2. task[p].pc \notin GuardPcs
      BY <2>2, GuardStep DEF Base
    <3>3. \A q \in Procs \ {p} : task'[q] = task[q]
      BY <2>2, StepMoves DEF Base
    <3> QED BY <3>1, <3>2, <3>3 DEF Guarded
  <2>3. ASSUME NEW p \in Procs, Request(p) PROVE Frozen /\ ~Guarded
    <3>1. vmm' = vmm
      BY <2>3, RequestsRest
    <3>2. \/ task' = task
          \/ task[p].pc = "idle" /\ \A q \in Procs \ {p} : task'[q] = task[q]
      BY <2>3, RequestMoves DEF Moved, Base
    <3> QED BY <3>1, <3>2 DEF Frozen, Guarded, GuardPcs
  <2> QED BY <2>1, <2>2, <2>3 DEF Next
<1> QED BY BaseHolds, <1>1, PTL DEF Spec, FrozenIsGuarded
=============================================================================
