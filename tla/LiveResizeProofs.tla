-------------------------- MODULE LiveResizeProofs --------------------------
(***************************************************************************)
(* Theorems about LiveResize, for every set of identities and operations   *)
(* and every bound.                                                        *)
(*                                                                         *)
(* The inductive invariant says which resource of the running VMM may be   *)
(* unfinished (only the one of the intent), what a resize knows about its  *)
(* VMM at each of its steps as long as that VMM is the one running, what a *)
(* start that has not booted knows of the row, and what is left of the RAM *)
(* when the VMM that runs is another one. A machine update that overtakes  *)
(* a start, and the other leaks, are excepted where they bite.             *)
(***************************************************************************)
EXTENDS LiveResize, TLAPS

\* The RAM of a VMM that has started and was not resized.
FreshRam == made["mem"] = boot /\ row["mem"] = boot /\ used["mem"] = boot

Working == {"make", "row", "guest", "offline", "shrunk", "finish"}

\* The resize has written its intent and the VMM it wrote it for is running.
OnMine == job # None /\ job.intent # None /\ job.intent.vmm = Me

\* An identity of this boot is spent as long as anything refers to it, so no
\* later VMM has it.
Named(v) == v.boot <= bootid /\ (v.boot = bootid => v.id \in spent)
Identities ==
    /\ Running => vmm \in spent
    /\ intent # None => Named(intent.vmm)
    /\ job # None /\ job.intent # None => Named(job.intent.vmm)
    /\ job # None /\ job.expect # None => Named(job.expect)

\* The intent in the database is the one of the resize that is under way.
Journal ==
    job # None =>
        /\ job.step = "begin" => job.intent = None
        /\ job.step \in Working =>
              /\ job.intent # None /\ intent = job.intent
              /\ job.intent.target = job.target
        /\ job.step = "done" => job.intent # None
        /\ job.step \in {"offline", "shrunk"} => Kind = "cpu"

\* No machine update has written the row behind the back of a start.
Uncrossed == "crossed" \notin leaks

\* A disk file is never smaller than the row, durable or not, says.
DiskHolds ==
    "disk" \in Kinds =>
        /\ row["disk"] <= file /\ synced["disk"] <= file
        /\ job # None /\ job.step = "row" /\ Kind = "disk" => Size <= file
        /\ upd # None /\ upd.k = "disk" /\ upd.grown => upd.n <= file

\* A start that has not booted boots what the row says.
Starting ==
    plan # None =>
        /\ ~Running
        /\ Uncrossed => \A k \in Kinds : k # "disk" => plan[k] = row[k]

\* Only the resource the intent names may be unfinished.
Covered ==
    Running => \A k \in Kinds :
        \/ Whole(k)
        \/ intent # None /\ intent.target.k = k
        \/ Excused(k)

\* What a resize knows of its VMM at each of its steps.
Progress ==
    OnMine =>
        /\ job.step = "make" /\ Kind = "mem" => job.base = boot
        /\ job.step \in {"offline", "shrunk"} => Size <= made["cpu"]
        /\ job.step = "shrunk" => used["cpu"] = Size
        /\ job.step = "guest" =>
              /\ Uncrossed => row[Kind] = Size
              /\ Kind = "cpu" => Size <= made[Kind]
              /\ Kind = "mem" => made[Kind] = Size
        /\ job.step = "finish" /\ Uncrossed => Whole(Kind)
        /\ job.step \in {"finish", "done"} =>
              used[Kind] = Size /\ (Uncrossed => row[Kind] = Size)

\* A resize that is about to change the runtime, and whose VMM was replaced,
\* finds the new one as it started.
Replaced ==
    job # None /\ job.step = "make" /\ job.intent.vmm # Me /\ Running /\ Uncrossed =>
        /\ \A k \in Kinds : Whole(k)
        /\ "mem" \in Kinds => FreshRam

\* The RAM of the VMM that runs under a RAM intent: of this VMM, it is either
\* as the row says or registered up to the target; of an earlier one, it is as
\* it started, or was grown to the target from less.
RamOfIntent ==
    Running /\ intent # None /\ intent.target.k = "mem" =>
        \/ leaks # {}
        \/ intent.vmm = Me /\ (Whole("mem") \/ made["mem"] = intent.target.n)
        \/ intent.vmm # Me /\
              (FreshRam \/ (made["mem"] = intent.target.n /\ boot < intent.target.n))

\* A resize with a receipt found it Active, and it is of its VMM and target.
Receipted ==
    job # None =>
        /\ job.op # None =>
              /\ job.expect # None /\ receipts[job.op] # None
              /\ receipts[job.op].state = "Active"
              /\ receipts[job.op].target = job.target
              /\ receipts[job.op].vmm = job.expect
        /\ job.intent # None /\ job.expect # None /\ job.intent.vmm # job.expect
              => job.expect # Me

Inv ==
    /\ TypeOK /\ Identities /\ Journal /\ DiskHolds /\ Starting /\ Covered
    /\ Progress /\ Replaced /\ RamOfIntent /\ Receipted

\* With every start waiting for the lifecycle lock, a conditional resize that
\* has not begun still faces the VMM its caller observed, or none, and no start
\* is under way that will replace it.
Conditional ==
    job # None /\ job.expect # None =>
        /\ job.who # "cli" /\ plan = None
        /\ job.step = "begin" /\ Running => job.expect = Me

-----------------------------------------------------------------------------
(* Types.                                                                   *)

\* A running VMM's identity, as the code observes it, is an identity.
LEMMA MeTyped == ASSUME TypeOK, Running PROVE Me \in Identity
  BY DEF TypeOK, Running, Me, Identity, Opt

\* Goto keeps the rest of the resize.
LEMMA GotoTyped ==
    ASSUME TypeOK, job # None, NEW s \in Steps, Goto(s)
    PROVE  job' \in Jobs
  BY NoneAssumption DEF TypeOK, Goto, Jobs, Opt

\* What a halted machine leaves is a geometry.
LEMMA HaltedTyped ==
    /\ \A g \in Geometry : Halted(g) \in Geometry
    /\ \A g \in [Kinds -> Capacities] : Halted(g) \in [Kinds -> Capacities]
  BY BoundAssumption DEF Halted, Geometry, Sizes, Capacities

\* The two ways grow_target_locked goes as far as the intent: it is written,
\* or the request fails, and may have cleared a RAM intent that is met.
Left == IF Kind = "mem" /\ Size >= row["mem"] /\ Met(intent) THEN None ELSE intent
Mine == [vmm |-> Me, target |-> job.target]
Begins ==
    /\ Valid(job.target) /\ MayBegin(Left, job.target)
    /\ intent' = Mine
    /\ job' = [job EXCEPT !.intent = Mine, !.base = Base(Kind), !.step =
                  IF Kind = "cpu" /\ Size < row[Kind] THEN "offline" ELSE "make"]

\* GrowBegin, with its two outcomes named.
LEMMA GrowBeginSplit ==
    ASSUME GrowBegin
    PROVE  /\ job # None /\ job.step = "begin"
           /\ Begins \/ (intent' = Left /\ Goto("failed"))
           /\ synced' = row \/ synced' = synced
           /\ UNCHANGED <<row, vmm, spent, bootid, boot, made, used, receipts, reqs, faults,
                          leaks, file, host>>
  BY DEF GrowBegin, Begins, Left, Mine, Durable

\* The resize that is under way has a resource and a size.
LEMMA JobTyped ==
    ASSUME TypeOK, job # None
    PROVE  /\ job \in Jobs /\ job.target \in Targets
           /\ Kind \in Kinds /\ Size \in Sizes /\ job.base \in Capacities
  BY DEF TypeOK, Kind, Size, Jobs, Targets, Opt

\* Every step of the resize and of the host keeps the types: the receipt that
\* is settled is there.
LEMMA TypeStep == ASSUME TypeOK, Receipted, [Next]_vars PROVE TypeOK'
<1>1. CASE GrowBegin
  <2>1. CASE Begins
    <3>1. job \in Jobs /\ Kind \in Kinds /\ job.target \in Targets
      BY <1>1, JobTyped, GrowBeginSplit
    <3>2. Base(Kind) \in Capacities
      BY <3>1, KindsAssumption, BoundAssumption DEF Base, Sizes, Capacities, TypeOK
    <3>3. Mine \in Intents
      BY <2>1, <3>1, MeTyped DEF Begins, Valid, SaidRunning, Mine, Intents
    <3>4. job' \in Jobs
      BY <2>1, <3>1, <3>2, <3>3 DEF Begins, Jobs, Steps, Opt
    <3>5. QED
      BY <1>1, <2>1, <3>3, <3>4, GrowBeginSplit DEF Begins, TypeOK, Opt, host
  <2>2. CASE intent' = Left /\ Goto("failed")
    BY <1>1, <2>2, GrowBeginSplit, GotoTyped DEF Left, Opt, Steps, TypeOK, host
  <2>3. QED
    BY <1>1, <2>1, <2>2, GrowBeginSplit
<1>2. CASE Make \/ MakeUnconfirmed
  <2>1. \/ made' = made /\ file' = file /\ leaks' = leaks
        \/ Asked \in Capacities /\ Grows
    BY <1>2 DEF Make, MakeUnconfirmed
  <2>2. made' \in [Kinds -> Capacities]
    BY <2>1 DEF Grows, TypeOK
  <2>3. job' \in Jobs
    BY <1>2, GotoTyped DEF Make, MakeUnconfirmed, Steps
  <2>4. leaks' \subseteq Leaks
    BY <2>1 DEF Grows, Leaks, TypeOK
  <2>5. faults' \in 0..MaxFaults
    BY <1>2, BoundAssumption DEF Make, MakeUnconfirmed, Fault, TypeOK
  <2>6. file' \in Sizes
    <3>1. Kind = "disk" => Asked \in Sizes
      BY <1>2, JobTyped DEF Make, MakeUnconfirmed, Asked
    <3>2. QED
      BY <2>1, <3>1 DEF Grows, Max2, TypeOK
  <2>7. QED
    BY <1>2, <2>2, <2>3, <2>4, <2>5, <2>6 DEF Make, MakeUnconfirmed, TypeOK, Opt, host
<1>3. CASE MemRefused \/ Refused
  <2>1. job' \in Jobs
    BY <1>3, GotoTyped DEF MemRefused, Refused, Steps
  <2>2. faults' \in 0..MaxFaults
    BY <1>3, BoundAssumption DEF MemRefused, Refused, Fault, TypeOK
  <2>3. leaks' \subseteq Leaks
    BY <1>3 DEF MemRefused, Refused, Leaks, TypeOK
  <2>4. QED
    BY <1>3, <2>1, <2>2, <2>3 DEF MemRefused, Refused, TypeOK, Opt, Durable, host
<1>4. CASE SetRow
  <2>1. Size \in Sizes
    BY <1>4, JobTyped DEF SetRow
  <2>2. row' \in Geometry
    BY <1>4, <2>1 DEF SetRow, Geometry, TypeOK
  <2>3. job' \in Jobs
    BY <1>4, GotoTyped DEF SetRow, Steps
  <2>4. QED
    BY <1>4, <2>2, <2>3 DEF SetRow, TypeOK, Opt, host
<1>5. CASE GuestGrows \/ OfflineCpus
  <2>1. Size \in Sizes
    BY <1>5, JobTyped DEF GuestGrows, OfflineCpus, Guest
  <2>2. used' \in Geometry
    BY <1>5, <2>1 DEF GuestGrows, OfflineCpus, Guest, Geometry, TypeOK
  <2>3. job' \in Jobs
    BY <1>5, GotoTyped DEF GuestGrows, OfflineCpus, Guest, Steps
  <2>4. QED
    BY <1>5, <2>2, <2>3 DEF GuestGrows, OfflineCpus, Guest, TypeOK, Opt, host
<1>6. CASE GuestStalls
  <2>1. used' \in Geometry
    BY <1>6 DEF GuestStalls, Geometry, TypeOK
  <2>2. job' \in Jobs
    BY <1>6, GotoTyped DEF GuestStalls, Steps
  <2>3. faults' \in 0..MaxFaults
    BY <1>6, BoundAssumption DEF GuestStalls, Fault, TypeOK
  <2>4. QED
    BY <1>6, <2>1, <2>2, <2>3 DEF GuestStalls, TypeOK, Opt, host
<1>7. CASE Finish
  <2>1. job' \in Jobs
    BY <1>7, GotoTyped DEF Finish, Steps
  <2>2. QED
    BY <1>7, <2>1 DEF Finish, Durable, TypeOK, Opt, host
<1>8. CASE Settle
  <2>1. receipts' \in [Ops -> Opt(Receipts)]
    <3>1. CASE receipts' = receipts
      BY <3>1 DEF TypeOK
    <3>2. ASSUME receipts' # receipts PROVE receipts' \in [Ops -> Opt(Receipts)]
      <4>1. job.op \in Ops
        BY <1>8, <3>2, JobTyped DEF Settle, Jobs, Opt
      <4>2. PICK s \in {"Applied", "Rejected"} :
                receipts' = [receipts EXCEPT ![job.op].state = s]
        BY <1>8, <3>2 DEF Settle
      <4> DEFINE r == receipts[job.op]
      <4>3. receipts' = [receipts EXCEPT ![job.op] = [r EXCEPT !.state = s]]
        BY <4>2
      <4>4. r # None
        BY <1>8, <4>1, NoneAssumption DEF Settle, Receipted
      <4>5. QED
        BY <4>1, <4>3, <4>4 DEF TypeOK, Opt, Receipts
    <3>3. QED
      BY <3>1, <3>2
  <2>2. QED
    BY <1>8, <2>1 DEF Settle, Durable, TypeOK, Opt, host
<1>9. CASE Reconcile
  <2>1. CASE job' = job
    BY <1>9, <2>1 DEF Reconcile, Durable, TypeOK, Opt, host
  <2>2. CASE job' # job
    <3>1. intent \in Intents
      BY <1>9 DEF Reconcile, TypeOK, Opt, host
    <3>2. job' \in Jobs
      BY <1>9, <2>2, <3>1, BoundAssumption
      DEF Reconcile, Jobs, Intents, Steps, Capacities, Opt
    <3>3. QED
      BY <1>9, <2>2, <3>2 DEF Reconcile, TypeOK, Opt, host
  <2>3. QED
    BY <2>1, <2>2
<1>10. ASSUME NEW w \in {"api", "cli"}, NEW o \in Opt(Ops), NEW t \in Targets,
              NEW e \in Opt([id : Ids, boot : 0..bootid]), Request(w, o, e, t)
       PROVE  TypeOK'
  <2>1. e \in Opt(Identity)
    BY <1>10, BoundAssumption DEF Opt, Identity, TypeOK
  <2>2. job' \in Jobs
    BY <1>10, <2>1, BoundAssumption DEF Request, Jobs, Steps, Capacities, Opt
  <2>3. receipts' \in [Ops -> Opt(Receipts)]
    <3>1. CASE o # None /\ receipts[o] = None
      <4>1. e \in Identity /\ o \in Ops
        BY <1>10, <2>1, <3>1 DEF Request, Opt
      <4>2. QED
        BY <1>10, <3>1, <4>1 DEF Request, Receipts, TypeOK, Opt, host
    <3>2. QED
      BY <1>10, <3>1 DEF Request, TypeOK
  <2>4. QED
    BY <1>10, <2>2, <2>3, BoundAssumption DEF Request, TypeOK, Durable, Opt, host
<1>11. ASSUME NEW k \in Kinds, NEW n \in Sizes, UpdateLooks(k, n) PROVE TypeOK'
  BY <1>11, BoundAssumption DEF UpdateLooks, Updates, TypeOK, Opt, host
<1>11a. CASE UpdateExpands
  BY <1>11a DEF UpdateExpands, Updates, TypeOK, Opt, host
<1>11b. CASE UpdateWrites
  <2>1. row' \in Geometry /\ leaks' \subseteq Leaks
    BY <1>11b DEF UpdateWrites, TypeOK, Geometry, Updates, Leaks, Opt
  <2>2. QED
    BY <1>11b, <2>1 DEF UpdateWrites, TypeOK, Opt, host
<1>11c. CASE UpdateDies \/ StartDies
  BY <1>11c, BoundAssumption DEF UpdateDies, StartDies, Fault, TypeOK, Opt, host
<1>12. ASSUME NEW i \in Ids, StartBoots(i) PROVE TypeOK'
  <2>1. plan \in Geometry
    BY <1>12 DEF StartBoots, TypeOK, Opt, host
  <2>2. \A n \in Sizes : n \in Capacities
    BY BoundAssumption DEF Sizes, Capacities
  <2>3. made' \in Geometry
    BY <1>12, <2>1 DEF StartBoots, TypeOK, Geometry
  <2>4. made' \in [Kinds -> Capacities]
    BY <2>2, <2>3 DEF Geometry
  <2>5. boot' \in Sizes
    BY <1>12, <2>1 DEF StartBoots, TypeOK, Geometry
  <2>6. QED
    BY <1>12, <2>3, <2>4, <2>5 DEF StartBoots, TypeOK, Opt, host
<1>12a. CASE StartReads
  BY <1>12a DEF StartReads, TypeOK, Opt, host
<1>12b. CASE StartPersists
  BY <1>12b DEF StartPersists, TypeOK
<1>13. CASE Exit
  <2>1. Halted(made) \in [Kinds -> Capacities] /\ Halted(used) \in Geometry
    BY HaltedTyped DEF TypeOK
  <2>2. faults' \in 0..MaxFaults /\ boot' \in Sizes
    BY <1>13, BoundAssumption DEF Exit, Fault, TypeOK, Sizes
  <2>3. QED
    BY <1>13, <2>1, <2>2 DEF Exit, TypeOK, Opt, host
<1>14. CASE Crash
  BY <1>14, BoundAssumption DEF Crash, Fault, TypeOK, Opt, host
<1>15. CASE Reboot
  <2>1. Halted(made) \in [Kinds -> Capacities] /\ Halted(used) \in Geometry
    BY HaltedTyped DEF TypeOK
  <2>2. bootid' \in 0..MaxBoots /\ boot' \in Sizes
    BY <1>15, BoundAssumption DEF Reboot, TypeOK, Sizes
  <2>3. QED
    BY <1>15, <2>1, <2>2 DEF Reboot, TypeOK, Opt, host
<1>16. CASE UNCHANGED vars
  BY <1>16 DEF vars, TypeOK, host
<1> QED
  BY <1>1, <1>2, <1>3, <1>4, <1>5, <1>6, <1>7, <1>8, <1>9, <1>10, <1>11, <1>11a, <1>11b, <1>11c,
     <1>12, <1>12a, <1>12b, <1>13, <1>14, <1>15, <1>16 DEF Next, JobStep, JobFails

-----------------------------------------------------------------------------
(* The invariant, action by action.                                         *)

\* What the types say of the resize and of the intent.
LEMMA Typed ==
    ASSUME TypeOK
    PROVE  /\ job # None /\ job.intent # None =>
                  job.intent \in Intents /\ job.intent.vmm \in Identity
                  /\ job.intent.vmm.id \in Ids /\ job.intent.vmm.boot \in Nat
           /\ job # None /\ job.expect # None =>
                  job.expect \in Identity /\ job.expect.id \in Ids /\ job.expect.boot \in Nat
           /\ intent # None =>
                  /\ intent \in Intents /\ intent.vmm \in Identity
                  /\ intent.vmm.id \in Ids /\ intent.vmm.boot \in Nat
                  /\ intent.target.k \in Kinds /\ intent.target.n \in Nat
           /\ \A k \in Kinds : /\ row[k] \in Nat /\ synced[k] \in Nat
                               /\ made[k] \in Nat /\ used[k] \in Nat
           /\ boot \in Nat /\ bootid \in Nat /\ file \in Nat
           /\ upd # None => upd \in Updates /\ upd.k \in Kinds /\ upd.n \in Nat
           /\ plan # None => plan \in Geometry /\ \A k \in Kinds : plan[k] \in Nat
  BY BoundAssumption
  DEF TypeOK, Opt, Jobs, Intents, Identity, Targets, Geometry, Sizes, Capacities, Updates

\* A new step of the resize, and nothing else of it.
LEMMA GotoKeeps ==
    ASSUME TypeOK, job # None, NEW s \in Steps, Goto(s)
    PROVE  /\ job' # None /\ job'.step = s /\ job'.intent = job.intent
           /\ job'.expect = job.expect /\ job'.op = job.op /\ job'.target = job.target
           /\ job'.base = job.base
  BY JobTyped, GotoTyped, NoneAssumption DEF Goto, Jobs

\* A RAM intent that clear_met_memory_intent clears: the RAM of the VMM that
\* has replaced the intent's is as it booted, and as the row says.
LEMMA MetIsWhole ==
    ASSUME Inv, Met(intent)
    PROVE  intent.target.k = "mem" /\ intent.vmm # Me /\ (leaks # {} \/ FreshRam)
<1>1. Met(intent) /\ intent.vmm # Me
  BY DEF Met, Gone, Me
<1>2. QED
  BY <1>1, Typed DEF Met, Inv, RamOfIntent

\* A resize that ends, in failure or killed, leaves what it has done behind.
GivesUp ==
    /\ job' = None \/ (job # None /\ Goto("failed"))
    /\ UNCHANGED <<row, synced, vmm, spent, bootid, boot, made, used, intent, receipts, leaks,
                   file, host>>

\* GivesUp keeps the invariant: the intent still covers what is unfinished.
LEMMA GivesUpStep ==
    ASSUME Inv, GivesUp
    PROVE  /\ Identities' /\ Journal' /\ DiskHolds' /\ Starting' /\ Covered'
           /\ Progress' /\ Replaced' /\ RamOfIntent' /\ Receipted'
<1>1. CASE job' = None
  <2>1. Identities'
    BY <1>1 DEF GivesUp, Inv, Identities, Named, Running
  <2>2. Journal'
    BY <1>1 DEF GivesUp, Inv, Journal, Working, Kind
  <2>3. DiskHolds'
    BY <1>1 DEF GivesUp, Inv, DiskHolds, host, Kind, Size
  <2>4. Covered'
    BY <1>1 DEF GivesUp, Inv, Covered, Excused, Whole, Running
  <2>5. Progress'
    BY <1>1 DEF GivesUp, Inv, Progress, Uncrossed, OnMine, Whole, Kind, Size, Me
  <2>6. Replaced'
    BY <1>1 DEF GivesUp, Inv, Replaced, Uncrossed, Whole, FreshRam, Me, Running
  <2>7. RamOfIntent'
    BY <1>1 DEF GivesUp, Inv, RamOfIntent, Whole, FreshRam, Me, Running
  <2>8. Receipted'
    BY <1>1 DEF GivesUp, Inv, Receipted, Me
  <2>9. Starting'
    BY <1>1 DEF GivesUp, Inv, Starting, Uncrossed, Running, host
  <2> QED
    BY <2>1, <2>2, <2>3, <2>4, <2>5, <2>6, <2>7, <2>8, <2>9
<1>2. CASE job # None /\ Goto("failed")
  <2>0. job' \in Jobs /\ job'.step = "failed" /\ job'.intent = job.intent
        /\ job'.expect = job.expect /\ job'.op = job.op /\ job'.target = job.target
    BY <1>2, JobTyped, GotoTyped DEF Inv, Goto, Jobs, Steps
  <2>1. Identities'
    BY <1>2, <2>0 DEF GivesUp, Inv, Identities, Named, Running
  <2>2. Journal'
    BY <1>2, <2>0 DEF GivesUp, Inv, Journal, Working, Kind
  <2>3. DiskHolds'
    BY <1>2, <2>0 DEF GivesUp, Inv, DiskHolds, host, Kind, Size
  <2>4. Covered'
    BY <1>2, <2>0 DEF GivesUp, Inv, Covered, Excused, Whole, Running
  <2>5. Progress'
    BY <1>2, <2>0 DEF GivesUp, Inv, Progress, Uncrossed, OnMine, Whole, Kind, Size, Me
  <2>6. Replaced'
    BY <1>2, <2>0 DEF GivesUp, Inv, Replaced, Uncrossed, Whole, FreshRam, Me, Running
  <2>7. RamOfIntent'
    BY <1>2, <2>0 DEF GivesUp, Inv, RamOfIntent, Whole, FreshRam, Me, Running
  <2>8. Receipted'
    BY <1>2, <2>0 DEF GivesUp, Inv, Receipted, Me
  <2>9. Starting'
    BY <1>2, <2>0 DEF GivesUp, Inv, Starting, Uncrossed, Running, host
  <2> QED
    BY <2>1, <2>2, <2>3, <2>4, <2>5, <2>6, <2>7, <2>8, <2>9
<1> QED
  BY <1>1, <1>2 DEF GivesUp
\* A VMM that exits leaves its disk and its identity, which stays spent.
LEMMA ExitStep ==
    ASSUME Inv, Exit
    PROVE  /\ Identities' /\ Journal' /\ DiskHolds' /\ Starting' /\ Covered'
           /\ Progress' /\ Replaced' /\ RamOfIntent' /\ Receipted'
<1>0. TypeOK /\ Me.id = vmm /\ Me.boot = bootid
      /\ Me'.id = vmm' /\ Me'.boot = bootid'
  BY DEF Inv, Me
<1>1. Identities'
  BY <1>0, Typed, NoneAssumption DEF Exit, Halted, Inv, Identities, Named, Running
<1>2. Journal'
  BY <1>0, Typed, NoneAssumption DEF Exit, Halted, Inv, Journal, Working, Kind
<1>3. DiskHolds'
  BY <1>0, Typed, NoneAssumption DEF Exit, Halted, Inv, DiskHolds, host, Kind, Size
<1>4. Covered'
  BY <1>0, Typed, NoneAssumption DEF Exit, Halted, Inv, Covered, Excused, Whole, Running
<1>5. Progress'
  BY <1>0, Typed, NoneAssumption
     DEF Exit, Halted, Inv, Progress, Uncrossed, OnMine, Whole, Kind, Size, Me
<1>6. Replaced'
  BY <1>0, Typed, NoneAssumption
     DEF Exit, Halted, Inv, Replaced, Uncrossed, Whole, FreshRam, Me, Running
<1>7. RamOfIntent'
  BY <1>0, Typed, NoneAssumption DEF Exit, Halted, Inv, RamOfIntent, Whole, FreshRam, Me, Running
<1>8. Receipted'
  BY <1>0, Typed, NoneAssumption DEF Exit, Halted, Inv, Receipted, Me
<1>9. Starting'
  BY <1>0, Typed, NoneAssumption DEF Exit, Halted, Inv, Starting, Uncrossed, Running, host
<1> QED
  BY <1>1, <1>2, <1>3, <1>4, <1>5, <1>6, <1>7, <1>8, <1>9

\* A reboot may take the row back to its last durable state.
LEMMA RebootStep ==
    ASSUME Inv, Reboot
    PROVE  /\ Identities' /\ Journal' /\ DiskHolds' /\ Starting' /\ Covered'
           /\ Progress' /\ Replaced' /\ RamOfIntent' /\ Receipted'
<1>0. TypeOK /\ Me.id = vmm /\ Me.boot = bootid
      /\ Me'.id = vmm' /\ Me'.boot = bootid'
  BY DEF Inv, Me
<1>1. Identities'
  BY <1>0, Typed, NoneAssumption DEF Reboot, Halted, Inv, Identities, Named, Running
<1>2. Journal'
  BY <1>0, Typed, NoneAssumption DEF Reboot, Halted, Inv, Journal, Working, Kind
<1>3. DiskHolds'
  BY <1>0, Typed, NoneAssumption DEF Reboot, Halted, Inv, DiskHolds, host, Kind, Size
<1>4. Covered'
  BY <1>0, Typed, NoneAssumption DEF Reboot, Halted, Inv, Covered, Excused, Whole, Running
<1>5. Progress'
  BY <1>0, Typed, NoneAssumption
     DEF Reboot, Halted, Inv, Progress, Uncrossed, OnMine, Whole, Kind, Size, Me
<1>6. Replaced'
  BY <1>0, Typed, NoneAssumption
     DEF Reboot, Halted, Inv, Replaced, Uncrossed, Whole, FreshRam, Me, Running
<1>7. RamOfIntent'
  BY <1>0, Typed, NoneAssumption DEF Reboot, Halted, Inv, RamOfIntent, Whole, FreshRam, Me,
      Running
<1>8. Receipted'
  BY <1>0, Typed, NoneAssumption DEF Reboot, Halted, Inv, Receipted, Me
<1>9. Starting'
  BY <1>0, Typed, NoneAssumption DEF Reboot, Halted, Inv, Starting, Uncrossed, Running, host
<1> QED
  BY <1>1, <1>2, <1>3, <1>4, <1>5, <1>6, <1>7, <1>8, <1>9

\* A VMM that starts has the geometry its start read, which is the row's, and
\* an identity nothing names.
LEMMA StartBootsStep ==
    ASSUME Inv, NEW i \in Ids, StartBoots(i)
    PROVE  /\ Identities' /\ Journal' /\ DiskHolds' /\ Starting' /\ Covered'
           /\ Progress' /\ Replaced' /\ RamOfIntent' /\ Receipted'
<1>0. TypeOK /\ Me.id = vmm /\ Me.boot = bootid
      /\ Me'.id = vmm' /\ Me'.boot = bootid'
  BY DEF Inv, Me
<1>a. /\ job # None /\ job.intent # None => job.intent.vmm # Me'
      /\ job # None /\ job.expect # None => job.expect # Me'
      /\ intent # None => intent.vmm # Me'
  BY <1>0, Typed DEF StartBoots, Inv, Identities, Named
<1>b. ASSUME Uncrossed PROVE \A k \in Kinds : Whole(k)'
  BY <1>0, <1>b, Typed DEF StartBoots, Inv, DiskHolds, Starting, Whole
<1>c. ASSUME Uncrossed, "mem" \in Kinds PROVE FreshRam'
  BY <1>0, <1>c, Typed DEF StartBoots, Inv, Starting, FreshRam
<1>d. leaks' = leaks /\ (Uncrossed' = Uncrossed)
  BY DEF StartBoots, Uncrossed
<1>1. Identities'
  BY <1>0, Typed, NoneAssumption DEF StartBoots, Inv, Identities, Named, Running
<1>2. Journal'
  BY <1>0, Typed, NoneAssumption DEF StartBoots, Inv, Journal, Working, Kind
<1>3. DiskHolds'
  BY <1>0, Typed, NoneAssumption DEF StartBoots, Inv, DiskHolds, Kind, Size
<1>4. Covered'
  BY <1>b, <1>d DEF Covered, Excused, Uncrossed
<1>5. Progress'
  BY <1>a DEF StartBoots, Progress, OnMine
<1>6. Replaced'
  BY <1>b, <1>c, <1>d DEF Replaced
<1>7. RamOfIntent'
  BY <1>0, <1>a, <1>c, <1>d, Typed DEF StartBoots, RamOfIntent, Uncrossed
<1>8. Receipted'
  BY <1>a DEF StartBoots, Inv, Receipted
<1>9. Starting'
  BY DEF StartBoots, Starting
<1> QED
  BY <1>1, <1>2, <1>3, <1>4, <1>5, <1>6, <1>7, <1>8, <1>9

\* What a start or a machine update does besides: it reads the row, records
\* the VMM, grows the disk file, or dies.
Aside ==
    /\ file <= file' /\ file' \in Nat
    /\ \/ plan' \in {None, plan} /\ leaks' = leaks
       \/ plan' = row /\ leaks' = {} /\ ~Running
    /\ \/ upd' = None \/ upd' = upd
       \/ upd'.grown => upd'.n <= file'
    /\ UNCHANGED <<row, synced, vmm, spent, bootid, boot, made, used, intent, receipts, job>>

\* Which steps these are.
LEMMA AsideSteps ==
    ASSUME TypeOK, \/ \E k \in Kinds, n \in Sizes : UpdateLooks(k, n)
                   \/ UpdateExpands \/ UpdateDies
                   \/ StartReads \/ StartPersists \/ StartDies
    PROVE  Aside
<1>0. file \in Nat /\ (upd # None => upd \in Updates /\ upd.n \in Nat)
  BY Typed
<1>1. ASSUME NEW k \in Kinds, NEW n \in Sizes, UpdateLooks(k, n) PROVE Aside
  BY <1>0, <1>1 DEF UpdateLooks, Aside
<1>2. CASE UpdateExpands
  BY <1>0, <1>2 DEF UpdateExpands, Aside, Updates
<1>3. CASE UpdateDies
  BY <1>0, <1>3 DEF UpdateDies, Aside
<1>4. CASE StartReads
  BY <1>0, <1>4 DEF StartReads, Aside
<1>5. CASE StartPersists \/ StartDies
  BY <1>0, <1>5 DEF StartPersists, StartDies, Aside
<1> QED
  BY <1>1, <1>2, <1>3, <1>4, <1>5

\* These keep the invariant.
LEMMA AsideStep ==
    ASSUME Inv, Aside
    PROVE  /\ Identities' /\ Journal' /\ DiskHolds' /\ Starting' /\ Covered'
           /\ Progress' /\ Replaced' /\ RamOfIntent' /\ Receipted'
<1>0. TypeOK /\ Me' = Me /\ (Running' = Running)
  BY DEF Inv, Aside, Me, Running
<1>a. Running => leaks' = leaks
  BY DEF Aside
<1>1. Identities'
  BY <1>0 DEF Aside, Inv, Identities, Named
<1>2. Journal'
  BY <1>0 DEF Aside, Inv, Journal, Working, Kind
<1>3. DiskHolds'
  BY <1>0, Typed, JobTyped DEF Aside, Inv, DiskHolds, Kind, Size, Sizes
<1>4. Covered'
  BY <1>0, <1>a DEF Aside, Inv, Covered, Excused, Whole
<1>5. Progress'
  <2>1. OnMine => Running
    BY <1>0, Typed, NoneAssumption DEF OnMine, Running, Me
  <2>2. QED
    BY <1>0, <1>a, <2>1 DEF Aside, Inv, Progress, Uncrossed, OnMine, Whole, Kind, Size
<1>6. Replaced'
  BY <1>0, <1>a DEF Aside, Inv, Replaced, Uncrossed, Whole, FreshRam
<1>7. RamOfIntent'
  BY <1>0, <1>a DEF Aside, Inv, RamOfIntent, Whole, FreshRam
<1>8. Receipted'
  BY <1>0 DEF Aside, Inv, Receipted
<1>9. Starting'
  BY <1>0, NoneAssumption DEF Aside, Inv, Starting, Uncrossed
<1> QED
  BY <1>1, <1>2, <1>3, <1>4, <1>5, <1>6, <1>7, <1>8, <1>9

\* A machine update writes the row of a machine that is stopped, or is noted.
LEMMA UpdateWritesStep ==
    ASSUME Inv, UpdateWrites
    PROVE  /\ Identities' /\ Journal' /\ DiskHolds' /\ Starting' /\ Covered'
           /\ Progress' /\ Replaced' /\ RamOfIntent' /\ Receipted'
<1>0. TypeOK /\ Me' = Me /\ (Running' = Running) /\ (plan # None => ~Running)
  BY DEF Inv, UpdateWrites, Me, Running, Starting
<1>a. Running \/ plan # None => ~Uncrossed' /\ leaks' # {}
  BY DEF UpdateWrites, Uncrossed
<1>b. upd # None /\ upd.k \in Kinds /\ upd.n \in Nat
      /\ (upd.k = "disk" => upd.grown) /\ upd' = None
  BY <1>0, Typed DEF UpdateWrites
<1>1. Identities'
  BY <1>0 DEF UpdateWrites, Inv, Identities, Named
<1>2. Journal'
  BY <1>0 DEF UpdateWrites, Inv, Journal, Working, Kind
<1>3. DiskHolds'
  <2>1. "disk" \in Kinds => row'["disk"] <= file
    BY <1>0, <1>b, Typed DEF UpdateWrites, TypeOK, Geometry, Inv, DiskHolds
  <2>2. QED
    BY <1>0, <1>b, <2>1 DEF UpdateWrites, Inv, DiskHolds, Kind, Size
<1>4. Covered'
  BY <1>0, <1>a DEF Covered, Excused, Uncrossed
<1>5. Progress'
  <2>1. OnMine => Running
    BY <1>0, Typed, NoneAssumption DEF OnMine, Running, Me
  <2>2. QED
    BY <1>0, <1>a, <2>1 DEF UpdateWrites, Inv, Progress, OnMine, Kind, Size
<1>6. Replaced'
  BY <1>0, <1>a DEF Replaced
<1>7. RamOfIntent'
  BY <1>0, <1>a DEF RamOfIntent
<1>8. Receipted'
  BY <1>0 DEF UpdateWrites, Inv, Receipted
<1>9. Starting'
  BY <1>0, <1>a DEF UpdateWrites, Starting
<1> QED
  BY <1>1, <1>2, <1>3, <1>4, <1>5, <1>6, <1>7, <1>8, <1>9

\* The controller clears a RAM intent the new VMM has met, or takes one up.
LEMMA ReconcileStep ==
    ASSUME Inv, Reconcile
    PROVE  /\ Identities' /\ Journal' /\ DiskHolds' /\ Starting' /\ Covered'
           /\ Progress' /\ Replaced' /\ RamOfIntent' /\ Receipted'
<1>0. TypeOK /\ Me.id = vmm /\ Me.boot = bootid
      /\ Me'.id = vmm' /\ Me'.boot = bootid'
  BY DEF Inv, Me
<1>1. Identities'
  BY <1>0, Typed, NoneAssumption DEF Reconcile, Met, Gone, Durable, Inv, Identities, Named,
      Running
<1>2. Journal'
  BY <1>0, Typed, NoneAssumption DEF Reconcile, Met, Gone, Durable, Inv, Journal, Working, Kind
<1>3. DiskHolds'
  BY <1>0, Typed, NoneAssumption DEF Reconcile, Met, Gone, Durable, Inv, DiskHolds, host, Kind,
      Size
<1>4. Covered'
  <2>1. CASE intent' = intent
    BY <2>1 DEF Reconcile, Inv, Covered, Excused, Whole, Running
  <2>2. CASE intent' # intent
    <3>1. Met(intent)
      BY <2>2 DEF Reconcile
    <3>2. QED
      BY <3>1, MetIsWhole DEF Reconcile, Inv, Covered, Excused, Whole, FreshRam, Running
  <2>3. QED
    BY <2>1, <2>2
<1>5. Progress'
  BY <1>0, Typed, NoneAssumption
     DEF Reconcile, Met, Gone, Durable, Inv, Progress, Uncrossed, OnMine, Whole, Kind, Size, Me
<1>6. Replaced'
  BY <1>0, Typed, NoneAssumption
     DEF Reconcile, Met, Gone, Durable, Inv, Replaced, Uncrossed, Whole, FreshRam, Me, Running
<1>7. RamOfIntent'
  BY <1>0, Typed, NoneAssumption
     DEF Reconcile, Met, Gone, Durable, Inv, RamOfIntent, Whole, FreshRam, Me, Running
<1>8. Receipted'
  BY <1>0, Typed, NoneAssumption DEF Reconcile, Met, Gone, Durable, Inv, Receipted, Me
<1>9. Starting'
  BY <1>0, Typed, NoneAssumption
     DEF Reconcile, Met, Gone, Durable, Inv, Starting, Uncrossed, Running, host
<1> QED
  BY <1>1, <1>2, <1>3, <1>4, <1>5, <1>6, <1>7, <1>8, <1>9

\* A request is of the VMM that runs, and opens its receipt.
LEMMA RequestStep ==
    ASSUME Inv, NEW w, NEW o \in Opt(Ops), NEW t \in Targets, NEW e, Request(w, o, e, t)
    PROVE  /\ Identities' /\ Journal' /\ DiskHolds' /\ Starting' /\ Covered'
           /\ Progress' /\ Replaced' /\ RamOfIntent' /\ Receipted'
<1>0. TypeOK /\ Me.id = vmm /\ Me.boot = bootid
      /\ Me'.id = vmm' /\ Me'.boot = bootid'
  BY DEF Inv, Me
<1>1. Identities'
  BY <1>0, Typed, NoneAssumption
     DEF Request, Observed, SaidRunning, Durable, Open, Opt, TypeOK, Inv, Identities, Named,
         Running
<1>2. Journal'
  BY <1>0, Typed, NoneAssumption
     DEF Request, Observed, SaidRunning, Durable, Open, Opt, TypeOK, Inv, Journal, Working, Kind
<1>3. DiskHolds'
  BY <1>0, Typed, NoneAssumption
     DEF Request, Observed, SaidRunning, Durable, Open, Opt, TypeOK, Inv, DiskHolds, host,
         Kind, Size
<1>4. Covered'
  BY <1>0, Typed, NoneAssumption
     DEF Request, Observed, SaidRunning, Durable, Open, Opt, TypeOK, Inv, Covered, Excused,
         Whole, Running
<1>5. Progress'
  BY <1>0, Typed, NoneAssumption
     DEF Request, Observed, SaidRunning, Durable, Open, Opt, TypeOK, Inv, Progress, Uncrossed,
         OnMine, Whole, Kind, Size,
         Me
<1>6. Replaced'
  BY <1>0, Typed, NoneAssumption
     DEF Request, Observed, SaidRunning, Durable, Open, Opt, TypeOK, Inv, Replaced, Uncrossed,
         Whole, FreshRam, Me,
         Running
<1>7. RamOfIntent'
  BY <1>0, Typed, NoneAssumption
     DEF Request, Observed, SaidRunning, Durable, Open, Opt, TypeOK, Inv, RamOfIntent, Whole,
         FreshRam, Me,
         Running
<1>8. Receipted'
  <2>1. /\ job'.op = o /\ job'.expect = e /\ job'.intent = None /\ job'.target = t
    BY DEF Request
  <2>2. ASSUME o # None
        PROVE  /\ e # None /\ receipts'[o] # None /\ receipts'[o].state = "Active"
               /\ receipts'[o].target = t /\ receipts'[o].vmm = e
    <3>1. o \in Ops /\ e # None
      BY <2>2 DEF Request, Opt
    <3>2. CASE receipts[o] = None
      <4> DEFINE r == [vmm |-> e, target |-> t, original |-> row, state |-> "Active"]
      <4>1. receipts'[o] = r
        BY <1>0, <2>2, <3>1, <3>2 DEF Request, TypeOK
      <4>2. e \in Identity
        BY <1>0, <3>1, MeTyped DEF Request, Observed
      <4>3. r \in Receipts
        BY <1>0, <4>2 DEF Receipts, TypeOK
      <4>4. QED
        BY <3>1, <4>1, <4>3, NoneAssumption
    <3>3. CASE receipts[o] # None
      BY <2>2, <3>1, <3>3 DEF Request, Open
    <3>4. QED
      BY <3>2, <3>3
  <2>3. QED
    BY <2>1, <2>2 DEF Receipted
<1>9. Starting'
  BY <1>0 DEF Request, Inv, Starting, Uncrossed, Running, host
<1> QED
  BY <1>1, <1>2, <1>3, <1>4, <1>5, <1>6, <1>7, <1>8, <1>9

\* The end of a resize.
LEMMA SettleStep ==
    ASSUME Inv, Settle
    PROVE  /\ Identities' /\ Journal' /\ DiskHolds' /\ Starting' /\ Covered'
           /\ Progress' /\ Replaced' /\ RamOfIntent' /\ Receipted'
<1>0. TypeOK /\ Me.id = vmm /\ Me.boot = bootid
      /\ Me'.id = vmm' /\ Me'.boot = bootid'
  BY DEF Inv, Me
<1>1. Identities'
  BY <1>0, Typed, NoneAssumption DEF Settle, Durable, Inv, Identities, Named, Running
<1>2. Journal'
  BY <1>0, Typed, NoneAssumption DEF Settle, Durable, Inv, Journal, Working, Kind
<1>3. DiskHolds'
  BY <1>0, Typed, NoneAssumption DEF Settle, Durable, Inv, DiskHolds, host, Kind, Size
<1>4. Covered'
  BY <1>0, Typed, NoneAssumption DEF Settle, Durable, Inv, Covered, Excused, Whole, Running
<1>5. Progress'
  BY <1>0, Typed, NoneAssumption
     DEF Settle, Durable, Inv, Progress, Uncrossed, OnMine, Whole, Kind, Size, Me
<1>6. Replaced'
  BY <1>0, Typed, NoneAssumption
     DEF Settle, Durable, Inv, Replaced, Uncrossed, Whole, FreshRam, Me, Running
<1>7. RamOfIntent'
  BY <1>0, Typed, NoneAssumption DEF Settle, Durable, Inv, RamOfIntent, Whole, FreshRam, Me,
      Running
<1>8. Receipted'
  BY <1>0, Typed, NoneAssumption DEF Settle, Durable, Inv, Receipted, Me
<1>9. Starting'
  BY <1>0, Typed, NoneAssumption DEF Settle, Durable, Inv, Starting, Uncrossed, Running, host
<1> QED
  BY <1>1, <1>2, <1>3, <1>4, <1>5, <1>6, <1>7, <1>8, <1>9

\* grow_target_locked refuses, and may have cleared a met RAM intent.
LEMMA DeclineStep ==
    ASSUME Inv, GrowBegin, intent' = Left, Goto("failed")
    PROVE  /\ Identities' /\ Journal' /\ DiskHolds' /\ Starting' /\ Covered'
           /\ Progress' /\ Replaced' /\ RamOfIntent' /\ Receipted'
<1>0. /\ TypeOK /\ job # None /\ job.step = "begin" /\ job.intent = None
      /\ job' # None /\ job'.step = "failed" /\ job'.intent = job.intent
      /\ job'.expect = job.expect /\ job'.op = job.op /\ job'.target = job.target
  BY GrowBeginSplit, GotoKeeps DEF Inv, Journal, Steps
<1>a. UNCHANGED <<row, vmm, spent, bootid, boot, made, used, receipts, leaks,
                   file, host>>
  BY GrowBeginSplit
<1>b. intent' = intent \/ (intent' = None /\ Met(intent))
  BY DEF Left
<1>1. Identities'
  BY <1>0, <1>a, <1>b, MetIsWhole, GrowBeginSplit DEF Inv, Identities, Named, Running
<1>2. Journal'
  BY <1>0, <1>a, <1>b, MetIsWhole, GrowBeginSplit DEF Inv, Journal, Working, Kind
<1>3. DiskHolds'
  BY <1>0, <1>a, <1>b, MetIsWhole, GrowBeginSplit DEF Inv, DiskHolds, host, Kind, Size
<1>4. Covered'
  BY <1>0, <1>a, <1>b, MetIsWhole DEF Inv, Covered, Excused, Whole, FreshRam, Running
<1>5. Progress'
  BY <1>0, <1>a, <1>b, MetIsWhole, GrowBeginSplit
     DEF Inv, Progress, Uncrossed, OnMine, Whole, Kind, Size, Me
<1>6. Replaced'
  BY <1>0, <1>a, <1>b, MetIsWhole, GrowBeginSplit
     DEF Inv, Replaced, Uncrossed, Whole, FreshRam, Me, Running
<1>7. RamOfIntent'
  BY <1>0, <1>a, <1>b, MetIsWhole, GrowBeginSplit DEF Inv, RamOfIntent, Whole, FreshRam, Me,
      Running
<1>8. Receipted'
  BY <1>0, <1>a, <1>b, MetIsWhole, GrowBeginSplit DEF Inv, Receipted, Me
<1>9. Starting'
  BY <1>0, <1>a, <1>b, MetIsWhole, GrowBeginSplit DEF Inv, Starting, Uncrossed, Running, host
<1> QED
  BY <1>1, <1>2, <1>3, <1>4, <1>5, <1>6, <1>7, <1>8, <1>9

\* The intent is written: before it, everything was whole but what it names.
LEMMA BeginStep ==
    ASSUME Inv, GrowBegin, Begins
    PROVE  /\ Identities' /\ Journal' /\ DiskHolds' /\ Starting' /\ Covered'
           /\ Progress' /\ Replaced' /\ RamOfIntent' /\ Receipted'
<1>0. /\ TypeOK /\ job # None /\ job.step = "begin" /\ job.intent = None
      /\ Running /\ Me \in Identity /\ Mine \in Intents
      /\ job \in Jobs /\ Kind \in Kinds /\ Size \in Nat
  BY GrowBeginSplit, JobTyped, MeTyped
     DEF Inv, Journal, Begins, Valid, SaidRunning, Mine, Intents, Sizes
<1>a. UNCHANGED <<row, vmm, spent, bootid, boot, made, used, receipts, leaks,
                   file, host>>
  BY GrowBeginSplit
<1>b. /\ job' # None /\ job'.intent = Mine /\ job'.base = Base(Kind)
      /\ job'.step = (IF Kind = "cpu" /\ Size < row[Kind] THEN "offline" ELSE "make")
      /\ job'.expect = job.expect /\ job'.op = job.op /\ job'.target = job.target
  <2>1. Base(Kind) \in Capacities
    BY <1>0, KindsAssumption, BoundAssumption DEF Base, Sizes, Capacities, TypeOK
  <2>2. job' \in Jobs
    BY <1>0, <2>1 DEF Begins, Jobs, Steps, Opt
  <2>3. QED
    BY <1>0, <2>2, NoneAssumption DEF Begins, Jobs
<1>c. /\ Me' = Me /\ intent' = Mine /\ Mine.vmm = Me /\ Mine.target = job.target
      /\ Mine # None
  BY <1>0, <1>a, NoneAssumption DEF Begins, Mine, Me
<1>d. /\ Left = intent \/ (Left = None /\ Met(intent))
      /\ Left = None \/ (Left.target = job.target /\ (Left.vmm = Me \/ Gone(Left)))
  BY DEF Left, Begins, MayBegin
<1>e. \A k \in Kinds : Whole(k) \/ k = Kind \/ Excused(k)
  BY <1>0, <1>d, MetIsWhole DEF Inv, Covered, Excused, Whole, FreshRam, Kind
<1>f. Kind = "mem" => leaks # {} \/ Whole("mem") \/ made["mem"] = Size
  BY <1>0, <1>d, MetIsWhole DEF Inv, Covered, Excused, RamOfIntent, Whole, FreshRam, Kind, Size
<1>1. Identities'
  BY <1>0, <1>a, <1>b, <1>c, Typed DEF Inv, Identities, Named, Running, Me
<1>2. Journal'
  BY <1>0, <1>a, <1>b, <1>c, Typed, MetIsWhole, GrowBeginSplit DEF Inv, Journal, Working, Kind
<1>3. DiskHolds'
  BY <1>0, <1>a, <1>b, <1>c, Typed, MetIsWhole, GrowBeginSplit DEF Inv, DiskHolds, host, Kind,
      Size
<1>4. Covered'
  BY <1>0, <1>a, <1>c, <1>e DEF Covered, Excused, Whole, Kind
<1>5. Progress'
  BY <1>0, <1>a, <1>b, <1>c, Typed
     DEF Begins, Valid, CpusFit, SaidRunning, Base, Progress, Uncrossed, OnMine, Kind, Size
<1>6. Replaced'
  BY <1>0, <1>a, <1>b, <1>c, Typed, MetIsWhole, GrowBeginSplit
     DEF Inv, Replaced, Uncrossed, Whole, FreshRam, Me, Running
<1>7. RamOfIntent'
  BY <1>0, <1>a, <1>c, <1>f DEF RamOfIntent, Whole, Kind, Size
<1>8. Receipted'
  BY <1>0, <1>a, <1>b, <1>c, Typed, MetIsWhole, GrowBeginSplit DEF Inv, Receipted, Me
<1>9. Starting'
  BY <1>0, <1>a, <1>b, <1>c, Typed, MetIsWhole, GrowBeginSplit
     DEF Inv, Starting, Uncrossed, Running, host
<1> QED
  BY <1>1, <1>2, <1>3, <1>4, <1>5, <1>6, <1>7, <1>8, <1>9

\* The runtime grows, whether or not the resize learns of it.
Makes(next) ==
    /\ job # None /\ job.step = "make"
    /\ Running /\ Asked \in Capacities /\ Asked >= made[Kind]
    /\ Grows /\ Goto(next)
    /\ UNCHANGED <<row, synced, vmm, spent, bootid, boot, used, host, intent, receipts>>

\* The runtime that grows may have replaced the resize's VMM: its RAM is then
\* as it booted, and either reaches the target or is stray.
LEMMA MakesStep ==
    ASSUME Inv, NEW next \in {"row", "failed"}, Makes(next)
    PROVE  /\ Identities' /\ Journal' /\ DiskHolds' /\ Starting' /\ Covered'
           /\ Progress' /\ Replaced' /\ RamOfIntent' /\ Receipted'
<1>0. /\ TypeOK /\ job # None /\ job.step = "make" /\ Kind \in Kinds /\ Size \in Nat
      /\ job.base \in Nat /\ job.intent # None /\ intent = job.intent
      /\ intent.target.k = Kind /\ intent.target.n = Size /\ Me' = Me
      /\ job' # None /\ job'.step = next
      /\ job'.intent = job.intent
      /\ job'.expect = job.expect /\ job'.op = job.op /\ job'.target = job.target
  BY JobTyped, GotoKeeps DEF Makes, Inv, Journal, Working, Steps, Sizes, Capacities, Kind,
      Size, Me
<1>a. /\ made'[Kind] = Asked /\ made[Kind] <= made'[Kind]
      /\ \A k \in Kinds : k # Kind => made'[k] = made[k]
      /\ \A k \in Kinds : made'[k] \in Nat
  BY <1>0, Typed DEF Makes, Grows, Inv, TypeOK, Capacities
<1>b. Kind = "mem" => made'["mem"] = boot + (Size - job.base)
  BY <1>0, <1>a DEF Asked
<1>c. Kind = "disk" => made'["disk"] = Size
  BY <1>0, <1>a DEF Asked
<1>d. /\ file <= file' /\ file' \in Nat /\ (Kind = "disk" => Size <= file')
      /\ leaks' = leaks \/ leaks' # {}
      /\ Uncrossed' = Uncrossed /\ (leaks # {} => leaks' # {})
  <2>1. Kind = "disk" => Asked = Size
    BY <1>0 DEF Asked
  <2>2. QED
    BY <1>0, <2>1, Typed DEF Makes, Grows, Max2, Inv, Uncrossed
<1>1. Identities'
  BY <1>0, <1>a, Typed DEF Makes, Inv, Identities, Named, Running
<1>2. Journal'
  BY <1>0, <1>a, Typed DEF Makes, Inv, Journal, Working, Kind
<1>3. DiskHolds'
  BY <1>0, <1>a, <1>c, <1>d, Typed DEF Makes, Inv, DiskHolds, host, Kind, Size
<1>4. Covered'
  BY <1>0, <1>a, <1>d, Typed DEF Makes, Inv, Uncrossed, Covered, Excused, Whole, Running
<1>5. Progress'
  BY <1>0, <1>a, <1>d, Typed DEF Makes, Inv, Progress, Uncrossed, OnMine, Whole, Kind, Size, Me
<1>6. Replaced'
  BY <1>0, <1>a, <1>d, Typed DEF Makes, Inv, Replaced, Uncrossed, Whole, FreshRam, Me, Running
<1>7. RamOfIntent'
  <2>1. CASE Kind # "mem"
    BY <1>0, <2>1 DEF Makes, RamOfIntent
  <2>2. CASE Kind = "mem" /\ intent.vmm = Me
    <3>1. made'["mem"] = Size
      BY <1>0, <1>b, <2>2, Typed DEF Inv, Progress, Uncrossed, OnMine
    <3>2. QED
      BY <1>0, <2>2, <3>1 DEF Makes, RamOfIntent
  <2>a. CASE ~Uncrossed
    BY <1>d, <2>a DEF RamOfIntent, Uncrossed
  <2>3. CASE Kind = "mem" /\ intent.vmm # Me /\ Uncrossed
    <3>1. FreshRam
      BY <1>0, <2>3 DEF Makes, Inv, Replaced, Uncrossed
    <3>2. CASE job.base # boot /\ made' # made
      BY <1>0, <2>3, <3>2 DEF Makes, Grows, RamOfIntent
    <3>3. CASE made' = made
      BY <1>0, <2>3, <3>1, <3>3 DEF Makes, RamOfIntent, FreshRam
    <3>4. CASE job.base = boot
      <4>1. made'["mem"] = Size /\ boot <= Size
        BY <1>0, <1>a, <1>b, <2>3, <3>1, <3>4, Typed DEF FreshRam
      <4>2. CASE Size = boot
        BY <1>0, <2>3, <3>1, <4>1, <4>2 DEF Makes, RamOfIntent, FreshRam
      <4>3. CASE boot < Size
        BY <1>0, <2>3, <4>1, <4>3 DEF Makes, RamOfIntent
      <4>4. QED
        BY <1>0, <4>1, <4>2, <4>3, Typed
    <3>5. QED
      BY <3>2, <3>3, <3>4
  <2>4. QED
    BY <2>1, <2>2, <2>3, <2>a
<1>8. Receipted'
  BY <1>0, <1>a, Typed DEF Makes, Inv, Receipted, Me
<1>9. Starting'
  BY <1>0, <1>a, <1>d, Typed DEF Makes, Inv, Starting, Uncrossed, Running, host
<1> QED
  BY <1>1, <1>2, <1>3, <1>4, <1>5, <1>6, <1>7, <1>8, <1>9

\* A refused RAM growth clears the intent: the RAM is as the row says, or is
\* registered and noted.
LEMMA MemRefusedStep ==
    ASSUME Inv, MemRefused
    PROVE  /\ Identities' /\ Journal' /\ DiskHolds' /\ Starting' /\ Covered'
           /\ Progress' /\ Replaced' /\ RamOfIntent' /\ Receipted'
<1>0. /\ TypeOK /\ job # None /\ job.step = "make" /\ Kind = "mem" /\ Size \in Nat
      /\ job.intent # None /\ intent = job.intent /\ "mem" \in Kinds
      /\ intent.target.k = Kind /\ intent.target.n = Size /\ Me' = Me
      /\ job' # None /\ job'.step = "failed"
      /\ job'.intent = job.intent
      /\ job'.expect = job.expect /\ job'.op = job.op /\ job'.target = job.target
  BY JobTyped, GotoKeeps DEF MemRefused, Inv, Journal, Working, Steps, Sizes, Kind, Size, Me
<1>a. Running => Whole("mem") \/ leaks' # {}
  <2>1. CASE intent.vmm # Me
    BY <1>0, <2>1 DEF MemRefused, Inv, Replaced, Uncrossed
  <2>2. CASE intent.vmm = Me
    BY <1>0, <2>2, Typed DEF MemRefused, Inv, RamOfIntent
  <2>3. QED
    BY <2>1, <2>2
<1>b. leaks \subseteq leaks' /\ (Uncrossed' = Uncrossed)
  BY DEF MemRefused, Uncrossed
<1>1. Identities'
  BY <1>0, <1>a, <1>b, Typed DEF MemRefused, Durable, Inv, Identities, Named, Running
<1>2. Journal'
  BY <1>0, <1>a, <1>b, Typed DEF MemRefused, Durable, Inv, Journal, Working, Kind
<1>3. DiskHolds'
  BY <1>0, <1>a, <1>b, Typed DEF MemRefused, Durable, Inv, DiskHolds, host, Kind, Size
<1>4. Covered'
  BY <1>0, <1>a, <1>b, Typed DEF MemRefused, Durable, Inv, Covered, Excused, Whole, Kind, Running
<1>5. Progress'
  BY <1>0, <1>a, <1>b, Typed
     DEF MemRefused, Durable, Inv, Progress, Uncrossed, OnMine, Whole, Kind, Size, Me
<1>6. Replaced'
  BY <1>0, <1>a, <1>b, Typed
     DEF MemRefused, Durable, Inv, Replaced, Uncrossed, Whole, FreshRam, Me, Running
<1>7. RamOfIntent'
  BY <1>0, <1>a, <1>b, Typed
     DEF MemRefused, Durable, Inv, RamOfIntent, Whole, FreshRam, Kind, Size, Me, Running
<1>8. Receipted'
  BY <1>0, <1>a, <1>b, Typed DEF MemRefused, Durable, Inv, Receipted, Me
<1>9. Starting'
  BY <1>0, <1>a, <1>b, Typed DEF MemRefused, Durable, Inv, Starting, Uncrossed, Running, host
<1> QED
  BY <1>1, <1>2, <1>3, <1>4, <1>5, <1>6, <1>7, <1>8, <1>9

\* The row takes the target once the runtime has been read back.
LEMMA SetRowStep ==
    ASSUME Inv, SetRow
    PROVE  /\ Identities' /\ Journal' /\ DiskHolds' /\ Starting' /\ Covered'
           /\ Progress' /\ Replaced' /\ RamOfIntent' /\ Receipted'
<1>0. /\ TypeOK /\ job # None /\ job.step \in {"row", "shrunk"} /\ Kind \in Kinds
      /\ Size \in Nat /\ job.base \in Nat /\ job.intent # None /\ intent = job.intent
      /\ intent.target.k = Kind /\ intent.target.n = Size /\ Me' = Me
  BY JobTyped DEF SetRow, Inv, Journal, Working, Steps, Sizes, Capacities, Kind, Size, Me
<1>a. CASE ~Verified
  BY <1>0, <1>a, GivesUpStep DEF SetRow, GivesUp
<1> SUFFICES ASSUME Verified
             PROVE  /\ Identities' /\ Journal' /\ DiskHolds' /\ Starting' /\ Covered'
                    /\ Progress' /\ Replaced' /\ RamOfIntent' /\ Receipted'
  BY <1>a
<1> DEFINE next == IF job.step = "row" THEN "guest" ELSE "finish"
<1>b. /\ job' # None /\ job'.step = next
      /\ job'.intent = job.intent
      /\ job'.expect = job.expect /\ job'.op = job.op /\ job'.target = job.target
  BY <1>0, GotoKeeps DEF SetRow, Steps
<1>c. /\ row'[Kind] = Size /\ \A k \in Kinds : k # Kind => row'[k] = row[k]
  BY <1>0 DEF SetRow, TypeOK, Geometry
<1>d. job.step = "row" =>
        /\ Kind = "mem" => boot = job.base /\ made["mem"] = Size
        /\ Kind = "cpu" => Size <= made["cpu"]
        /\ Kind = "disk" => Size <= file
  <2>1. Kind = "cpu" /\ job.step = "row" => made["cpu"] = Asked
    BY DEF Verified
  <2>2. Kind = "cpu" => Size <= Asked
    BY <1>0 DEF Asked
  <2>3. QED
    BY <1>0, <2>1, <2>2 DEF Verified, Inv, DiskHolds, host
<1>e. /\ job.step = "shrunk" => Kind = "cpu"
      /\ job'.step # "row" /\ Kind' = Kind /\ Size' = Size
  BY <1>0, <1>b DEF Inv, Journal, Kind, Size
<1>f. leaks' = leaks /\ (Uncrossed' = Uncrossed) /\ (Kind # "disk" => Running)
  <2>1. Me.id = vmm
    BY DEF Me
  <2>2. QED
    BY <1>0, <1>e, <2>1, Typed, KindsAssumption, NoneAssumption
    DEF SetRow, Verified, Uncrossed, Running
<1>1. Identities'
  BY <1>0, <1>b, <1>c, <1>d, Typed DEF SetRow, Inv, Identities, Named, Running
<1>2. Journal'
  BY <1>0, <1>b, <1>c, <1>d, Typed DEF SetRow, Inv, Journal, Working, Kind
<1>3. DiskHolds'
  BY <1>0, <1>c, <1>d, <1>e, Typed DEF SetRow, Inv, DiskHolds, host
<1>4. Covered'
  BY <1>0, <1>b, <1>c, <1>d, Typed DEF SetRow, Inv, Covered, Excused, Whole, Kind, Running
<1>5. Progress'
  <2>1. OnMine' => OnMine
    BY <1>0, <1>b DEF OnMine
  <2>2. OnMine /\ job.step = "shrunk" => Whole("cpu")' /\ used'["cpu"] = Size
    BY <1>0, <1>c, <1>e DEF SetRow, Inv, Progress, Uncrossed, Whole
  <2>3. QED
    BY <1>0, <1>b, <1>c, <1>d, <1>e, <1>f, <2>1, <2>2 DEF SetRow, Inv, Progress
<1>6. Replaced'
  BY <1>0, <1>b, <1>c, <1>d, Typed
     DEF SetRow, Inv, Replaced, Uncrossed, Whole, FreshRam, Me, Running
<1>7. RamOfIntent'
  <2>1. CASE Kind # "mem"
    BY <1>0, <2>1 DEF SetRow, RamOfIntent
  <2>2. CASE Kind = "mem"
    <3>1. made["mem"] = Size /\ row'["mem"] = Size
      BY <1>0, <1>c, <1>d, <1>e, <2>2
    <3>2. QED
      BY <1>0, <2>2, <3>1 DEF SetRow, Inv, RamOfIntent, FreshRam, Running
  <2>3. QED
    BY <2>1, <2>2
<1>8. Receipted'
  BY <1>0, <1>b, <1>c, <1>d, Typed DEF SetRow, Inv, Receipted, Me
<1>9. Starting'
  BY <1>0, <1>c, <1>f, Typed DEF SetRow, Inv, Starting, Running, host
<1> QED
  BY <1>1, <1>2, <1>3, <1>4, <1>5, <1>6, <1>7, <1>8, <1>9

\* The guest does what it is asked, when it is the guest of the resize's VMM.
LEMMA GuestStep ==
    ASSUME Inv, NEW from, NEW next, Guest(from, next),
           <<from, next>> \in {<<"guest", "finish">>, <<"offline", "shrunk">>}
    PROVE  /\ Identities' /\ Journal' /\ DiskHolds' /\ Starting' /\ Covered'
           /\ Progress' /\ Replaced' /\ RamOfIntent' /\ Receipted'
<1>0. /\ TypeOK /\ job # None /\ job.step = from /\ Kind \in Kinds
      /\ Size \in Nat /\ job.intent # None /\ intent = job.intent
      /\ intent.target.k = Kind /\ intent.target.n = Size /\ Me' = Me
      /\ (from = "guest" /\ next = "finish") \/ (from = "offline" /\ next = "shrunk")
  BY JobTyped DEF Guest, Inv, Journal, Working, Sizes, Kind, Size, Me
<1>a. CASE ~GuestAccepts
  BY <1>0, <1>a, GivesUpStep DEF Guest, GivesUp
<1> SUFFICES ASSUME GuestAccepts
             PROVE  /\ Identities' /\ Journal' /\ DiskHolds' /\ Starting' /\ Covered'
                    /\ Progress' /\ Replaced' /\ RamOfIntent' /\ Receipted'
  BY <1>a
<1>b. /\ job' # None /\ job'.step = next /\ OnMine /\ Kind' = Kind /\ Size' = Size
      /\ job'.intent = job.intent
      /\ job'.expect = job.expect /\ job'.op = job.op /\ job'.target = job.target
  BY <1>0, GotoKeeps DEF Guest, GuestAccepts, OnMine, Steps, Kind, Size
<1>c. /\ used'[Kind] = Size /\ \A k \in Kinds : k # Kind => used'[k] = used[k]
  BY <1>0 DEF Guest, TypeOK, Geometry
<1>d. /\ from = "offline" => Kind = "cpu"
      /\ from = "guest" /\ Kind = "disk" => made["disk"] = Size
  BY <1>0 DEF Inv, Journal, GuestAccepts, CapacityIs
<1>1. Identities'
  BY <1>0, <1>b, <1>c, <1>d, Typed DEF Guest, Inv, Identities, Named, Running
<1>2. Journal'
  BY <1>0, <1>b, <1>c, <1>d, Typed DEF Guest, Inv, Journal, Working, Kind
<1>3. DiskHolds'
  BY <1>0, <1>b, <1>c, <1>d, Typed DEF Guest, Inv, DiskHolds, host, Kind, Size
<1>4. Covered'
  BY <1>0, <1>b, <1>c, <1>d, Typed DEF Guest, Inv, Covered, Excused, Whole, Kind, Running
<1>5. Progress'
  <2>1. from = "guest" /\ Uncrossed => Whole(Kind)' /\ row'[Kind] = Size
    BY <1>0, <1>b, <1>c, <1>d, Typed DEF Guest, Inv, Progress, Uncrossed, Whole
  <2>2. QED
    BY <1>0, <1>b, <1>c, <1>d, <2>1 DEF Guest, Inv, Progress, Uncrossed
<1>6. Replaced'
  BY <1>0, <1>b DEF Replaced, Uncrossed
<1>7. RamOfIntent'
  <2>1. Kind = "mem" => made["mem"] = Size
    BY <1>0, <1>b, <1>d DEF Inv, Progress, Uncrossed
  <2>2. QED
    BY <1>0, <1>b, <2>1 DEF Guest, OnMine, RamOfIntent
<1>8. Receipted'
  BY <1>0, <1>b, <1>c, <1>d, Typed DEF Guest, Inv, Receipted, Me
<1>9. Starting'
  BY <1>0, <1>b, <1>c, <1>d, Typed DEF Guest, Inv, Starting, Uncrossed, Running, host
<1> QED
  BY <1>1, <1>2, <1>3, <1>4, <1>5, <1>6, <1>7, <1>8, <1>9

\* The guest stops half way, or its reply is lost: the intent stays.
LEMMA GuestStallsStep ==
    ASSUME Inv, GuestStalls
    PROVE  /\ Identities' /\ Journal' /\ DiskHolds' /\ Starting' /\ Covered'
           /\ Progress' /\ Replaced' /\ RamOfIntent' /\ Receipted'
<1>0. /\ TypeOK /\ job # None /\ job.step \in {"guest", "offline"} /\ Kind \in Kinds
      /\ Size \in Nat /\ job.intent # None /\ intent = job.intent
      /\ intent.target.k = Kind /\ intent.target.n = Size /\ Me' = Me /\ OnMine
      /\ job' # None /\ job'.step = "failed"
      /\ job'.intent = job.intent
      /\ job'.expect = job.expect /\ job'.op = job.op /\ job'.target = job.target
  BY JobTyped, GotoKeeps
  DEF GuestStalls, GuestAccepts, OnMine, Inv, Journal, Working, Steps, Sizes, Kind, Size, Me
<1>a. \A k \in Kinds : k # Kind => used'[k] = used[k]
  BY <1>0 DEF GuestStalls, TypeOK, Geometry
<1>b. Kind = "mem" => made["mem"] = Size
  BY <1>0 DEF Inv, Progress, Uncrossed, Journal
<1>1. Identities'
  BY <1>0, <1>a, Typed DEF GuestStalls, Inv, Identities, Named, Running
<1>2. Journal'
  BY <1>0, <1>a, Typed DEF GuestStalls, Inv, Journal, Working, Kind
<1>3. DiskHolds'
  BY <1>0, <1>a, Typed DEF GuestStalls, Inv, DiskHolds, host, Kind, Size
<1>4. Covered'
  BY <1>0, <1>a, Typed DEF GuestStalls, Inv, Covered, Excused, Whole, Kind, Running
<1>5. Progress'
  BY <1>0, <1>a, Typed DEF GuestStalls, Inv, Progress, Uncrossed, OnMine, Whole, Kind, Size, Me
<1>6. Replaced'
  BY <1>0, <1>a, Typed DEF GuestStalls, Inv, Replaced, Uncrossed, Whole, FreshRam, Me, Running
<1>7. RamOfIntent'
  BY <1>0, <1>a, <1>b DEF GuestStalls, OnMine, Inv, RamOfIntent
<1>8. Receipted'
  BY <1>0, <1>a, Typed DEF GuestStalls, Inv, Receipted, Me
<1>9. Starting'
  BY <1>0, <1>a, Typed DEF GuestStalls, Inv, Starting, Uncrossed, Running, host
<1> QED
  BY <1>1, <1>2, <1>3, <1>4, <1>5, <1>6, <1>7, <1>8, <1>9

\* The intent is cleared while the VMM it names still runs, and is whole.
LEMMA FinishStep ==
    ASSUME Inv, Finish
    PROVE  /\ Identities' /\ Journal' /\ DiskHolds' /\ Starting' /\ Covered'
           /\ Progress' /\ Replaced' /\ RamOfIntent' /\ Receipted'
<1>0. /\ TypeOK /\ job # None /\ job.step = "finish" /\ Kind \in Kinds
      /\ job.intent # None /\ intent = job.intent /\ intent.target.k = Kind /\ Me' = Me
  BY JobTyped DEF Finish, Inv, Journal, Working, Kind, Me
<1>a. CASE ~(job.intent.vmm = Me)
  BY <1>0, <1>a, GivesUpStep DEF Finish, GivesUp
<1> SUFFICES ASSUME job.intent.vmm = Me
             PROVE  /\ Identities' /\ Journal' /\ DiskHolds' /\ Starting' /\ Covered'
                    /\ Progress' /\ Replaced' /\ RamOfIntent' /\ Receipted'
  BY <1>a
<1>b. /\ job' # None /\ job'.step = "done" /\ OnMine /\ Kind' = Kind /\ Size' = Size
      /\ intent' = None
      /\ job'.intent = job.intent
      /\ job'.expect = job.expect /\ job'.op = job.op /\ job'.target = job.target
  BY <1>0, GotoKeeps DEF Finish, OnMine, Steps, Kind, Size
<1>c. /\ Uncrossed => Whole(Kind) /\ row[Kind] = Size
      /\ used[Kind] = Size
  BY <1>0, <1>b DEF Inv, Progress
<1>1. Identities'
  BY <1>0, <1>b, <1>c, Typed DEF Finish, Durable, Inv, Identities, Named, Running
<1>2. Journal'
  BY <1>0, <1>b, <1>c, Typed DEF Finish, Durable, Inv, Journal, Working, Kind
<1>3. DiskHolds'
  BY <1>0, <1>b, <1>c, Typed DEF Finish, Durable, Inv, DiskHolds, host, Kind, Size
<1>4. Covered'
  BY <1>0, <1>b, <1>c, Typed
     DEF Finish, Durable, Inv, Covered, Excused, Uncrossed, Whole, Kind, Running
<1>5. Progress'
  BY <1>0, <1>b, <1>c, Typed
     DEF Finish, Durable, Inv, Progress, Uncrossed, OnMine, Whole, Kind, Size, Me
<1>6. Replaced'
  BY <1>0, <1>b, <1>c, Typed
     DEF Finish, Durable, Inv, Replaced, Uncrossed, Whole, FreshRam, Me, Running
<1>7. RamOfIntent'
  BY <1>0, <1>b, <1>c, Typed
     DEF Finish, Durable, Inv, RamOfIntent, Whole, FreshRam, Kind, Size, Me, Running
<1>8. Receipted'
  BY <1>0, <1>b, <1>c, Typed DEF Finish, Durable, Inv, Receipted, Me
<1>9. Starting'
  BY <1>0, <1>b, <1>c, Typed DEF Finish, Durable, Inv, Starting, Uncrossed, Running, host
<1> QED
  BY <1>1, <1>2, <1>3, <1>4, <1>5, <1>6, <1>7, <1>8, <1>9

\* The invariant holds of a machine that has been created.
LEMMA InvInit == Init => Inv
<1> SUFFICES ASSUME Init PROVE Inv
  OBVIOUS
<1>1. TypeOK
  <2>1. 1 \in Sizes /\ row \in Geometry
    BY BoundAssumption DEF Init, Geometry, Sizes
  <2>2. receipts \in [Ops -> Opt(Receipts)]
    BY DEF Init, Opt
  <2>3. 0 \in 0..MaxBoots /\ 0 \in 0..MaxReqs /\ 0 \in 0..MaxFaults
    BY BoundAssumption
  <2>4. made \in [Kinds -> Capacities]
    BY BoundAssumption DEF Init, Capacities
  <2>5. QED
    BY <2>1, <2>2, <2>3, <2>4 DEF Init, TypeOK, Opt, Leaks
<1>2. QED
  BY <1>1
     DEF Init, Inv, Identities, Journal, DiskHolds, Starting, Covered, Excused, Progress,
         Uncrossed, OnMine, Replaced,
     RamOfIntent, Receipted, Running

\* Every step keeps the invariant.
LEMMA InvStep == Inv /\ [Next]_vars => Inv'
<1> SUFFICES ASSUME Inv, [Next]_vars PROVE Inv'
  OBVIOUS
<1>1. TypeOK'
  BY TypeStep DEF Inv
<1> DEFINE Rest == /\ Identities /\ Journal /\ DiskHolds /\ Starting /\ Covered
                   /\ Progress /\ Replaced /\ RamOfIntent /\ Receipted
<1> SUFFICES Rest'
  BY <1>1 DEF Inv
<1>2. CASE GrowBegin
  BY <1>2, GrowBeginSplit, BeginStep, DeclineStep
<1>3. CASE Make
  <2>1. CASE Running /\ Asked \in Capacities /\ Asked >= made[Kind]
    BY <1>3, <2>1, MakesStep DEF Make, Makes
  <2>2. CASE ~(Running /\ Asked \in Capacities /\ Asked >= made[Kind])
    BY <1>3, <2>2, GivesUpStep DEF Make, GivesUp
  <2>3. QED
    BY <2>1, <2>2
<1>4. CASE MakeUnconfirmed
  BY <1>4, MakesStep DEF MakeUnconfirmed, Makes
<1>5. CASE MemRefused
  BY <1>5, MemRefusedStep
<1>6. CASE SetRow
  BY <1>6, SetRowStep
<1>7. CASE GuestGrows
  BY <1>7, GuestStep DEF GuestGrows
<1>8. CASE OfflineCpus
  BY <1>8, GuestStep DEF OfflineCpus
<1>9. CASE GuestStalls
  BY <1>9, GuestStallsStep
<1>10. CASE Finish
  BY <1>10, FinishStep
<1>11. CASE Settle
  BY <1>11, SettleStep
<1>12. CASE Refused \/ Crash
  BY <1>12, GivesUpStep DEF Refused, Crash, GivesUp
<1>13. CASE Reconcile
  BY <1>13, ReconcileStep
<1>14. ASSUME NEW w \in {"api", "cli"}, NEW o \in Opt(Ops), NEW t \in Targets,
              NEW e \in Opt([id : Ids, boot : 0..bootid]), Request(w, o, e, t)
       PROVE  Rest'
  BY <1>14, RequestStep
<1>15. CASE \/ \E k \in Kinds, n \in Sizes : UpdateLooks(k, n)
            \/ UpdateExpands \/ UpdateDies
            \/ StartReads \/ StartPersists \/ StartDies
  BY <1>15, AsideSteps, AsideStep DEF Inv
<1>15a. CASE UpdateWrites
  BY <1>15a, UpdateWritesStep
<1>16. ASSUME NEW i \in Ids, StartBoots(i) PROVE Rest'
  BY <1>16, StartBootsStep
<1>17. CASE Exit
  BY <1>17, ExitStep
<1>18. CASE Reboot
  BY <1>18, RebootStep
<1>19. CASE UNCHANGED vars
  BY <1>19
     DEF vars, Inv, Identities, Named, Journal, Working, DiskHolds, Starting, Covered, Excused,
     Progress, Uncrossed, host, OnMine, Replaced, RamOfIntent, Receipted, Running, Whole,
         FreshRam, Me, Kind, Size
<1> QED
  BY <1>2, <1>3, <1>4, <1>5, <1>6, <1>7, <1>8, <1>9, <1>10, <1>11, <1>12, <1>13, <1>14, <1>15,
     <1>15a, <1>16, <1>17, <1>18, <1>19 DEF Next, JobStep, JobFails

\* The inductive invariant holds in every reachable state.
LEMMA Invariant == Spec => []Inv
  BY InvInit, InvStep, PTL DEF Spec

-----------------------------------------------------------------------------
(* Theorems.                                                                *)

\* The types of the state.
THEOREM Types == Spec => []TypeOK
<1>1. Inv => TypeOK
  BY DEF Inv
<1>2. QED
  BY <1>1, Invariant, PTL

\* Whenever no intent is pending and no resize holds the source lock, what the
\* runtime and the guest of a running machine have of a resource is what the row
\* records, for any number of requests, faults, restarts and host reboots and
\* for starts with or without a lock, unless one of three things happened to
\* this VMM: a machine update overtook its start, or, for RAM alone, a command
\* computed for another VMM reached it, or its intent was cleared for want of
\* memory statistics after its RAM was registered.
THEOREM Captures == Spec => []LeaksAreKnown
<1>1. Inv => LeaksAreKnown
  BY DEF Inv, Covered, LeaksAreKnown, CaptureAllowed, SaidRunning
<1>2. QED
  BY <1>1, Invariant, PTL

\* A receipt leaves Active once, with an answer that is true of the machine,
\* even when a start that takes no lock replaces the VMM under the resize:
\* Applied means that the guest has the target, Rejected that it has the CPUs
\* and the RAM of the row at the opening, but for the leaks of Captures.
THEOREM Answers == Spec => AnswersAreTrue
<1> DEFINE True(o) ==
      receipts[o] # None /\ receipts'[o] # receipts[o] =>
        LET r == receipts[o] IN
        /\ r.state = "Active"
        /\ receipts'[o].state = "Rejected" =>
                \A k \in Kinds \ {"disk"} : used[k] = r.original[k] \/ Excused(k)
        /\ receipts'[o].state = "Applied" /\ Running /\ r.vmm = Me =>
                /\ used[r.target.k] = r.target.n
                /\ row[r.target.k] = r.target.n \/ "crossed" \in leaks
<1>1. ASSUME Inv, [Next]_vars, NEW o \in Ops, receipts[o] # None, receipts'[o] # receipts[o]
      PROVE  True(o)
  <2>1. Settle
    <3>1. ASSUME NEW w, NEW p \in Opt(Ops), NEW t, NEW e, Request(w, p, e, t) PROVE FALSE
      BY <1>1, <3>1 DEF Request, Inv, TypeOK, Opt
    <3>2. QED
      BY <1>1, <3>1 DEF Next, JobStep, JobFails, GrowBegin, Make, SetRow, GuestGrows, OfflineCpus,
         Guest, Finish, MakeUnconfirmed, MemRefused, GuestStalls, Refused, Crash, Reconcile,
         UpdateLooks, UpdateExpands, UpdateWrites, UpdateDies, StartReads, StartBoots,
         StartPersists, StartDies, Exit, Reboot, vars
  <2>2. /\ o = job.op /\ job.expect # None /\ receipts[o].state = "Active"
        /\ receipts[o].target = job.target /\ receipts[o].vmm = job.expect
        /\ receipts[o] \in Receipts /\ job.step \in {"done", "failed"} /\ job # None
        /\ job.step = "done" \/ ChangedNothing(receipts[o])
    BY <1>1, <2>1 DEF Settle, Inv, Receipted, TypeOK, Opt
  <2>3. receipts'[o] = [receipts[o] EXCEPT !.state =
                           IF job.step = "done" THEN "Applied" ELSE "Rejected"]
    BY <1>1, <2>1, <2>2 DEF Settle, Inv, TypeOK
  <2>4. receipts'[o].state = (IF job.step = "done" THEN "Applied" ELSE "Rejected")
    BY <2>2, <2>3 DEF Receipts
  <2>5. job.step = "done" /\ job.expect = Me =>
            used[Kind] = Size /\ (row[Kind] = Size \/ "crossed" \in leaks)
    BY <1>1, <2>2 DEF Inv, Journal, Receipted, Progress, Uncrossed, OnMine
  <2>6. ASSUME job.step # "done", NEW k \in Kinds \ {"disk"}
        PROVE  used[k] = receipts[o].original[k] \/ Excused(k)
    <3>1. Whole(k) \/ Excused(k)
      BY <1>1, <2>2, <2>6 DEF ChangedNothing, Inv, Covered
    <3>2. k = "cpu" \/ k = "mem"
      BY <2>6, KindsAssumption
    <3>3. QED
      BY <2>2, <2>6, <3>1, <3>2 DEF ChangedNothing, Whole
  <2>7. QED
    BY <2>2, <2>4, <2>5, <2>6 DEF Kind, Size
<1>2. Inv /\ [Next]_vars => [\A o \in Ops : True(o)]_vars
  BY <1>1
<1>3. QED
  BY <1>2, Invariant, PTL DEF Spec, AnswersAreTrue

\* With every start under the lifecycle lock, a resize conditioned on a VMM and
\* the controller's recovery of an intent write their intent for that VMM only.
THEOREM Incarnations == ASSUME CliStarts = FALSE PROVE Spec => []RightIncarnation
<1> DEFINE J == Conditional /\ RightIncarnation
<1>1. Init => J
  BY DEF Init, Conditional, RightIncarnation
<1>2. ASSUME Inv, J, [Next]_vars PROVE J'
  <2>0. TypeOK
    BY <1>2 DEF Inv
  <2>1. CASE UNCHANGED <<vmm, bootid, plan>> /\ (job' = None \/ job' = job)
    BY <1>2, <2>1 DEF Conditional, RightIncarnation, Running, Me
  <2>2. ASSUME job # None, UNCHANGED <<vmm, bootid, plan>>, NEW s \in Steps \ {"begin"}, Goto(s)
        PROVE  J'
    <3>1. /\ job'.step = s /\ job'.intent = job.intent /\ job'.expect = job.expect
          /\ job'.who = job.who
      BY <2>0, <2>2, GotoKeeps, JobTyped DEF Goto, Jobs
    <3>2. QED
      BY <1>2, <2>2, <3>1 DEF Conditional, RightIncarnation
  <2>3. CASE GrowBegin
    <3>1. CASE Begins
      <4>1. /\ job'.step # "begin" /\ job'.intent = Mine /\ job'.expect = job.expect
            /\ job'.who = job.who /\ Mine.vmm = Me /\ Running
        BY <2>0, <2>3, <3>1, GrowBeginSplit, JobTyped DEF Begins, Valid, SaidRunning, Mine, Jobs
      <4>2. QED
        BY <1>2, <2>3, <4>1, GrowBeginSplit DEF Conditional, RightIncarnation, host
    <3>2. CASE Goto("failed")
      BY <2>2, <2>3, <3>2, GrowBeginSplit DEF Steps, host
    <3>3. QED
      BY <2>3, <3>1, <3>2, GrowBeginSplit
  <2>4. CASE Make \/ SetRow \/ GuestGrows \/ OfflineCpus \/ Finish
    BY <2>2, <2>4 DEF Make, SetRow, GuestGrows, OfflineCpus, Guest, Finish, Steps, host
  <2>5. CASE MakeUnconfirmed \/ MemRefused \/ GuestStalls \/ Refused
    BY <2>2, <2>5 DEF MakeUnconfirmed, MemRefused, GuestStalls, Refused, Steps, host
  <2>6. CASE Settle \/ Crash
    BY <2>1, <2>6 DEF Settle, Crash, host
  <2>7. CASE Reconcile
    <3>1. CASE job' = job
      BY <2>1, <2>7, <3>1 DEF Reconcile, host
    <3>2. CASE job' # job
      <4>1. intent.vmm = Me /\ Me.id = vmm /\ intent # None
        BY <2>7, <3>2 DEF Reconcile, Me
      <4>2. Running
        BY <2>0, <4>1, Typed, NoneAssumption DEF Running
      <4>3. plan = None
        BY <1>2, <4>2 DEF Inv, Starting
      <4>4. QED
        BY <2>7, <3>2, <4>1, <4>3
        DEF Reconcile, Conditional, RightIncarnation, Running, Me, host
    <3>3. QED
      BY <3>1, <3>2
  <2>8. ASSUME NEW w \in {"api", "cli"}, NEW o, NEW t, NEW e, Request(w, o, e, t) PROVE J'
    BY <1>2, <2>8 DEF Request, Observed, SaidRunning, Inv, Starting, Conditional,
        RightIncarnation,
           Running, Me, host
  <2>9. ASSUME NEW k, NEW n, UpdateLooks(k, n) PROVE J'
    BY <2>1, <2>9 DEF UpdateLooks
  <2>9a. CASE UpdateExpands \/ UpdateWrites \/ UpdateDies \/ StartPersists
    BY <2>1, <2>9a DEF UpdateExpands, UpdateWrites, UpdateDies, StartPersists
  <2>9b. CASE StartReads \/ StartDies
    BY <1>2, <2>9b
    DEF StartReads, StartDies, LifecycleFree, Conditional, RightIncarnation, Running, Me
  <2>10. ASSUME NEW i \in Ids, StartBoots(i) PROVE J'
    BY <1>2, <2>10 DEF StartBoots, Conditional, RightIncarnation
  <2>11. CASE Exit
    BY <1>2, <2>11 DEF Exit, Conditional, RightIncarnation, Running
  <2>12. CASE Reboot
    BY <2>12 DEF Reboot, Conditional, RightIncarnation
  <2>13. CASE UNCHANGED vars
    BY <2>1, <2>13 DEF vars, host
  <2> QED
    BY <1>2, <2>3, <2>4, <2>5, <2>6, <2>7, <2>8, <2>9, <2>9a, <2>9b, <2>10, <2>11, <2>12, <2>13
    DEF Next, JobStep, JobFails
<1>3. QED
  BY <1>1, <1>2, Invariant, PTL DEF Spec
=============================================================================
