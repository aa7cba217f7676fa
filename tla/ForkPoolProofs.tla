--------------------------- MODULE ForkPoolProofs ---------------------------
(***************************************************************************)
(* Theorems about ForkPool, for every number of pools, workers and leases, *)
(* every request and any number of server restarts.                        *)
(***************************************************************************)
EXTENDS ForkPool, TLAPS

-----------------------------------------------------------------------------
(* Type correctness *)

\* The initial state has its types.
LEMMA TypeInit == Init => TypeOK
BY RequestValues DEF Init, TypeOK, NoFill, FillTask, FillSteps, CtlSteps

\* Retiring any set of workers keeps the slot table's type.
LEMMA RetiredType ==
    ASSUME TypeOK, NEW S
    PROVE  Retired(S) \in [Machines -> SlotRecord \cup {None}]
<1> SUFFICES ASSUME NEW m \in Machines, slots[m] # None
             PROVE  [slots[m] EXCEPT !.state = "retiring"] \in SlotRecord
  BY DEF Retired, TypeOK
<1>1. slots[m] \in SlotRecord BY DEF TypeOK
<1> QED BY <1>1 DEF SlotRecord, SlotStates

\* Ending any set of leases keeps the lease table's type.
LEMMA EndedType ==
    ASSUME TypeOK, NEW S \in SUBSET {l \in Leases : leases[l] # None}, NEW s \in EndStates,
           leases' = [l \in Leases |-> IF l \in S THEN [leases[l] EXCEPT !.state = s] ELSE leases[l]]
    PROVE  leases' \in [Leases -> LeaseRecord \cup {None}]
<1> SUFFICES ASSUME NEW l \in Leases, leases[l] # None
             PROVE  [leases[l] EXCEPT !.state = s] \in LeaseRecord
  BY DEF TypeOK
<1>1. leases[l] \in LeaseRecord BY DEF TypeOK
<1> QED BY <1>1 DEF LeaseRecord

\* transition_fork_lease keeps the types of both tables.
LEMMA TransitionType ==
    ASSUME TypeOK, NEW l \in Leases, NEW from, NEW to \in LiveStates \cup EndStates,
           NEW slotTo \in SlotStates, Transition(l, from, to, slotTo)
    PROVE  /\ leases' \in [Leases -> LeaseRecord \cup {None}]
           /\ slots' \in [Machines -> SlotRecord \cup {None}]
BY PositiveTimes DEF Transition, TypeOK, LeaseRecord, SlotRecord

\* update_fork_pool_slot_state keeps the slot table's type.
LEMMA MoveSlotType ==
    ASSUME TypeOK, NEW m \in Machines, NEW from, NEW to \in SlotStates, MoveSlot(m, from, to)
    PROVE  slots' \in [Machines -> SlotRecord \cup {None}]
BY DEF MoveSlot, TypeOK, SlotRecord

\* A pool's fill task that moves to a well-typed task keeps the types of fill.
LEMMA FillUpdate ==
    ASSUME TypeOK, NEW p \in Pools, NEW t \in FillTask, t.pc # "idle" => t.golden \in Goldens,
           fill' = [fill EXCEPT ![p] = t]
    PROVE  /\ fill' \in [Pools -> FillTask]
           /\ \A q \in Pools : fill'[q].pc # "idle" => fill'[q].golden \in Goldens
BY DEF TypeOK

\* The requests on pools keep the types.
LEMMA TypePoolRequest == TypeOK /\ PoolRequest => TypeOK'
<1> SUFFICES ASSUME TypeOK, PoolRequest PROVE TypeOK'
  OBVIOUS
<1>1. ASSUME NEW p \in Pools, NEW g \in Goldens, NEW n \in Sizes, NEW mx \in MaxActives,
             NEW auto \in Autos, CreatePool(p, g, n, mx, auto)
      PROVE  TypeOK'
  BY <1>1, RequestValues DEF CreatePool, TypeOK, PoolRecord
<1>2. ASSUME NEW p \in Pools, NEW n \in Sizes, ResizePool(p, n) PROVE TypeOK'
  <2>1. slots' \in [Machines -> SlotRecord \cup {None}]
    BY <1>2, RetiredType DEF ResizePool
  <2>2. pools[p] \in PoolRecord
    BY <1>2 DEF TypeOK, ResizePool
  <2>3. [pools[p] EXCEPT !.desired = n] \in PoolRecord
    BY <2>2, RequestValues DEF PoolRecord
  <2> QED BY <1>2, <2>1, <2>3 DEF ResizePool, TypeOK
<1>3. ASSUME NEW p \in Pools, NEW force \in BOOLEAN, DeletePool(p, force) PROVE TypeOK'
  <2>1. slots' \in [Machines -> SlotRecord \cup {None}]
    BY <1>3, RetiredType DEF DeletePool
  <2>2. pools[p] \in PoolRecord
    BY <1>3 DEF TypeOK, DeletePool
  <2>3. [pools[p] EXCEPT !.deleting = TRUE] \in PoolRecord
    BY <2>2 DEF PoolRecord
  <2>4. LiveLeases(p) \in SUBSET {l \in Leases : leases[l] # None}
    BY DEF LiveLeases, Live
  <2>5. leases' \in [Leases -> LeaseRecord \cup {None}]
    BY <1>3, <2>4, EndedType DEF DeletePool, EndStates
  <2> QED BY <1>3, <2>1, <2>3, <2>5 DEF DeletePool, TypeOK
<1> QED BY <1>1, <1>2, <1>3 DEF PoolRequest

\* The requests on leases keep the types.
LEMMA TypeLeaseRequest == TypeOK /\ LeaseRequest => TypeOK'
<1> SUFFICES ASSUME TypeOK, LeaseRequest PROVE TypeOK'
  OBVIOUS
<1>1. ASSUME NEW p \in Pools, NEW k \in Keys, ClaimRefused(p, k) PROVE TypeOK'
  BY <1>1, RetiredType DEF ClaimRefused, TypeOK
<1>2. ASSUME NEW p \in Pools, NEW k \in Keys, NEW l \in Leases, Claim(p, k, l) PROVE TypeOK'
  <2>1. PICK m \in Claimable(p), passed \in SUBSET Unclaimable(p) :
          /\ slots' = [Retired(passed) EXCEPT ![m].state = "activating", ![m].lease = l]
          /\ vms' = [vms EXCEPT ![m].held = FALSE]
          /\ leases' = [leases EXCEPT ![l] = [pool |-> p, machine |-> m, key |-> k,
                                              state |-> "activating", left |-> Grace]]
    BY <1>2 DEF Claim
  <2>2. m \in Machines /\ slots[m] # None /\ vms[m] # None /\ m \notin passed
    BY DEF Claimable, Unclaimable, SlotsIn
  <2>3. Retired(passed)[m] \in SlotRecord
    BY <2>2 DEF Retired, TypeOK
  <2>4. [Retired(passed)[m] EXCEPT !.state = "activating", !.lease = l] \in SlotRecord
    BY <2>3 DEF SlotRecord, SlotStates
  <2>5. slots' \in [Machines -> SlotRecord \cup {None}]
    BY <2>1, <2>2, <2>4, RetiredType
  <2>6. vms' \in [Machines -> VmRecord \cup {None}]
    BY <2>1, <2>2 DEF TypeOK, VmRecord
  <2>7. leases' \in [Leases -> LeaseRecord \cup {None}]
    BY <2>1, <2>2, PositiveTimes DEF TypeOK, LeaseRecord, LiveStates
  <2>8. act' \in [Leases -> {"none", "lookup", "release"}]
    BY <1>2 DEF Claim, TypeOK
  <2> QED BY <1>2, <2>5, <2>6, <2>7, <2>8 DEF Claim, TypeOK
<1>3. ASSUME NEW l \in Leases, Heartbeat(l) PROVE TypeOK'
  BY <1>3, PositiveTimes DEF Heartbeat, TypeOK, LeaseRecord
<1>4. ASSUME NEW l \in Leases, HeartbeatLookup(l) PROVE TypeOK'
  BY <1>4, TransitionType DEF HeartbeatLookup, TypeOK, EndStates, SlotStates
<1>5. ASSUME NEW l \in Leases, CompleteLease(l) PROVE TypeOK'
  BY <1>5, TransitionType DEF CompleteLease, TypeOK, EndStates, SlotStates
<1> QED BY <1>1, <1>2, <1>3, <1>4, <1>5 DEF LeaseRequest

\* The activation tasks keep the types.
LEMMA TypeActivation == TypeOK /\ Activation => TypeOK'
<1> SUFFICES ASSUME TypeOK, NEW l \in Leases,
                    ActivateLookup(l) \/ ActivateCommit(l) \/ ActivateFail(l) \/ ActivateLost(l)
             PROVE  TypeOK'
  BY DEF Activation
<1>1. CASE ActivateLookup(l)
  BY <1>1, TransitionType DEF ActivateLookup, TypeOK, EndStates, SlotStates
<1>2. CASE ActivateCommit(l)
  BY <1>2, TransitionType DEF ActivateCommit, TypeOK, LiveStates, SlotStates
<1>3. CASE ActivateFail(l)
  BY <1>3, TransitionType DEF ActivateFail, TypeOK, EndStates, SlotStates
<1>4. CASE ActivateLost(l)
  BY <1>4 DEF ActivateLost, TypeOK
<1> QED BY <1>1, <1>2, <1>3, <1>4

\* The controller keeps the types.
LEMMA TypeController == TypeOK /\ Controller => TypeOK'
<1> SUFFICES ASSUME TypeOK, Controller PROVE TypeOK'
  OBVIOUS
<1>1. CASE ExpireLeases
  <2>1. Overdue \in SUBSET {l \in Leases : leases[l] # None}
    BY DEF Overdue, Live
  <2>2. leases' \in [Leases -> LeaseRecord \cup {None}]
    BY <1>1, <2>1, EndedType DEF ExpireLeases, EndStates
  <2> QED BY <1>1, <2>2, RetiredType DEF ExpireLeases, TypeOK, CtlSteps
<1>2. CASE FinalizePools
  BY <1>2 DEF FinalizePools, TypeOK, CtlSteps
<1>3. CASE NextPhase
  BY <1>3 DEF NextPhase, TypeOK, CtlSteps
<1>4. CASE PassFails
  BY <1>4 DEF PassFails, TypeOK, CtlSteps
<1>5. ASSUME NEW m \in Machines, RecoverSlot(m) PROVE TypeOK'
  BY <1>5 DEF RecoverSlot, MoveSlot, TypeOK, SlotRecord, SlotStates
<1>6. ASSUME NEW m \in Machines, CheckReady(m) PROVE TypeOK'
  BY <1>6 DEF CheckReady, MoveSlot, TypeOK, SlotRecord, SlotStates
<1>7. ASSUME NEW m \in Machines, DeleteRetired(m) PROVE TypeOK'
  BY <1>7 DEF DeleteRetired, TypeOK
<1>8. ASSUME NEW m \in Machines, DeleteRetiredFails(m) PROVE TypeOK'
  BY <1>8 DEF DeleteRetiredFails, TypeOK
<1>9. ASSUME NEW l \in Leases, CheckLeased(l) PROVE TypeOK'
  BY <1>9, TransitionType DEF CheckLeased, TypeOK, EndStates, SlotStates
<1>10. ASSUME NEW p \in Pools, ReapFill(p) PROVE TypeOK'
  BY <1>10 DEF ReapFill, TypeOK, FillTask, NoFill, FillSteps
<1>11. ASSUME NEW p \in Pools, StartFill(p) PROVE TypeOK'
  <2> DEFINE t == [NoFill EXCEPT !.pc = "queued", !.golden = pools[p].golden]
  <2>1. CASE fill' = fill
    BY <1>11, <2>1 DEF StartFill, TypeOK
  <2>2. CASE fill' = [fill EXCEPT ![p] = t] /\ pools[p] # None
    <3>1. t \in FillTask /\ t.golden \in Goldens
      BY <2>2 DEF TypeOK, PoolRecord, NoFill, FillTask, FillSteps
    <3>2. /\ fill' \in [Pools -> FillTask]
          /\ \A q \in Pools : fill'[q].pc # "idle" => fill'[q].golden \in Goldens
      BY <2>2, <3>1, FillUpdate
    <3> QED BY <1>11, <3>2 DEF StartFill, TypeOK
  <2> QED BY <1>11, <2>1, <2>2 DEF StartFill, HasDeficit
<1> QED BY <1>1, <1>2, <1>3, <1>4, <1>5, <1>6, <1>7, <1>8, <1>9, <1>10, <1>11 DEF Controller

\* The fill tasks keep the types.
LEMMA TypeFillTasks == TypeOK /\ FillTasks => TypeOK'
<1> SUFFICES ASSUME TypeOK, NEW p \in Pools,
                    \/ FillLock(p) \/ FillReserved(p) \/ FillPrepare(p)
                    \/ FillBatchFails(p) \/ FillDone(p)
                    \/ \E m \in Machines : \/ FillReserve(p, m) \/ FillBoot(p, m) \/ FillBootFails(p, m)
                                           \/ FillFinish(p, m) \/ FillRetire(p, m)
             PROVE  TypeOK'
  BY DEF FillTasks
<1>0. fill[p] \in FillTask /\ (fill[p].pc # "idle" => fill[p].golden \in Goldens)
  BY DEF TypeOK
<1>1. CASE FillLock(p)
  <2> DEFINE t == [fill[p] EXCEPT !.pc = "reserve"]
  <2>1. t \in FillTask /\ t.golden \in Goldens
    BY <1>0, <1>1 DEF FillLock, FillTask, FillSteps
  <2>2. fill' = [fill EXCEPT ![p] = t]
    BY <1>1 DEF FillLock, TypeOK
  <2> QED BY <1>1, <2>1, <2>2, FillUpdate DEF FillLock, TypeOK
<1>2. CASE FillReserved(p)
  <2> DEFINE t == [fill[p] EXCEPT !.pc = IF fill[p].todo = {} THEN "done" ELSE "source"]
  <2>1. t \in FillTask /\ t.golden \in Goldens
    BY <1>0, <1>2 DEF FillReserved, FillTask, FillSteps
  <2>2. fill' = [fill EXCEPT ![p] = t]
    BY <1>2 DEF FillReserved, TypeOK
  <2> QED BY <1>2, <2>1, <2>2, FillUpdate DEF FillReserved, TypeOK
<1>3. CASE FillPrepare(p)
  <2> DEFINE t == [fill[p] EXCEPT !.pc = "boot"]
  <2>1. t \in FillTask /\ t.golden \in Goldens
    BY <1>0, <1>3 DEF FillPrepare, FillTask, FillSteps
  <2>2. fill' = [fill EXCEPT ![p] = t]
    BY <1>3 DEF FillPrepare, TypeOK
  <2>3. vms' \in [Machines -> VmRecord \cup {None}]
    BY <1>3, <1>0 DEF FillPrepare, TypeOK, VmRecord
  <2> QED BY <1>3, <2>1, <2>2, <2>3, FillUpdate DEF FillPrepare, TypeOK
<1>4. CASE FillBatchFails(p)
  <2> DEFINE t == [fill[p] EXCEPT !.pc = "drain", !.bad = fill[p].todo, !.todo = {}]
  <2>1. t \in FillTask /\ t.golden \in Goldens
    BY <1>0, <1>4 DEF FillBatchFails, FillTask, FillSteps
  <2>2. fill' = [fill EXCEPT ![p] = t]
    BY <1>4 DEF FillBatchFails, TypeOK
  <2> QED BY <1>4, <2>1, <2>2, FillUpdate DEF FillBatchFails, TypeOK
<1>5. CASE FillDone(p)
  <2> DEFINE t == [fill[p] EXCEPT !.pc = "done", !.batch = {}]
  <2>1. t \in FillTask /\ t.golden \in Goldens
    BY <1>0, <1>5 DEF FillDone, FillTask, FillSteps
  <2>2. fill' = [fill EXCEPT ![p] = t]
    BY <1>5 DEF FillDone, TypeOK
  <2> QED BY <1>5, <2>1, <2>2, FillUpdate DEF FillDone, TypeOK
<1>6. ASSUME NEW m \in Machines, FillReserve(p, m) PROVE TypeOK'
  <2> DEFINE t == [fill[p] EXCEPT !.todo = @ \cup {m}, !.batch = @ \cup {m}]
  <2>1. t \in FillTask /\ t.golden \in Goldens
    BY <1>0, <1>6 DEF FillReserve, FillTask
  <2>2. fill' = [fill EXCEPT ![p] = t]
    BY <1>6 DEF FillReserve, TypeOK
  <2>3. slots' \in [Machines -> SlotRecord \cup {None}]
    BY <1>6 DEF FillReserve, TypeOK, SlotRecord, SlotStates
  <2> QED BY <1>6, <2>1, <2>2, <2>3, FillUpdate DEF FillReserve, TypeOK
<1>7. ASSUME NEW m \in Machines, FillBoot(p, m) PROVE TypeOK'
  <2> DEFINE t == [fill[p] EXCEPT !.pc = "drain", !.todo = @ \ {m}, !.ok = @ \cup {m}]
  <2>1. t \in FillTask /\ t.golden \in Goldens
    BY <1>0, <1>7 DEF FillBoot, FillTask, FillSteps
  <2>2. fill' = [fill EXCEPT ![p] = t]
    BY <1>7 DEF FillBoot, TypeOK
  <2>3. vms' \in [Machines -> VmRecord \cup {None}]
    BY <1>7 DEF FillBoot, TypeOK, VmRecord
  <2> QED BY <1>7, <2>1, <2>2, <2>3, FillUpdate DEF FillBoot, TypeOK
<1>8. ASSUME NEW m \in Machines, FillBootFails(p, m) PROVE TypeOK'
  <2> DEFINE t == [fill[p] EXCEPT !.todo = @ \ {m}, !.bad = @ \cup {m}]
  <2>1. t \in FillTask /\ t.golden \in Goldens
    BY <1>0, <1>8 DEF FillBootFails, FillTask
  <2>2. fill' = [fill EXCEPT ![p] = t]
    BY <1>8 DEF FillBootFails, TypeOK
  <2>3. vms' \in [Machines -> VmRecord \cup {None}]
    BY <1>8 DEF FillBootFails, TypeOK
  <2> QED BY <1>8, <2>1, <2>2, <2>3, FillUpdate DEF FillBootFails, TypeOK
<1>9. ASSUME NEW m \in Machines, FillFinish(p, m) PROVE TypeOK'
  <2> DEFINE t == [fill[p] EXCEPT !.ok = @ \ {m}, !.ready = TRUE]
             u == [fill[p] EXCEPT !.ok = @ \ {m}, !.bad = @ \cup {m}]
  <2>1. slots' \in [Machines -> SlotRecord \cup {None}]
    BY <1>9, MoveSlotType DEF FillFinish, SlotStates
  <2>2. /\ t \in FillTask /\ (t.pc # "idle" => t.golden \in Goldens)
        /\ u \in FillTask /\ (u.pc # "idle" => u.golden \in Goldens)
    BY <1>0 DEF FillTask
  <2>3. fill' = [fill EXCEPT ![p] = t] \/ fill' = [fill EXCEPT ![p] = u]
    BY <1>9 DEF FillFinish, TypeOK
  <2> QED BY <1>9, <2>1, <2>2, <2>3, FillUpdate DEF FillFinish, TypeOK
<1>10. ASSUME NEW m \in Machines, FillRetire(p, m) PROVE TypeOK'
  <2> DEFINE t == [fill[p] EXCEPT !.bad = @ \ {m}, !.failed = TRUE]
  <2>1. t \in FillTask /\ (t.pc # "idle" => t.golden \in Goldens)
    BY <1>0 DEF FillTask
  <2>2. fill' = [fill EXCEPT ![p] = t]
    BY <1>10 DEF FillRetire, TypeOK
  <2> QED BY <1>10, <2>1, <2>2, FillUpdate, RetiredType DEF FillRetire, TypeOK
<1> QED BY <1>1, <1>2, <1>3, <1>4, <1>5, <1>6, <1>7, <1>8, <1>9, <1>10

\* The clock, the workers, the users and a restart keep the types.
LEMMA TypeWorld == TypeOK /\ World => TypeOK'
<1> SUFFICES ASSUME TypeOK, World PROVE TypeOK'
  OBVIOUS
<1>1. CASE Tick
  BY <1>1 DEF Tick, TypeOK, LeaseRecord
<1>2. CASE Restart
  BY <1>2 DEF Restart, db, TypeOK, FillTask, NoFill, FillSteps, CtlSteps
<1>3. ASSUME NEW p \in Pools, BackoffElapses(p) PROVE TypeOK'
  BY <1>3 DEF BackoffElapses, TypeOK
<1>4. ASSUME NEW m \in Machines,
             WorkerExits(m) \/ UserDeletes(m) \/ PauseWorker(m) \/ ResumeWorker(m)
      PROVE  TypeOK'
  BY <1>4 DEF WorkerExits, UserDeletes, PauseWorker, ResumeWorker, TypeOK, VmRecord
<1> QED BY <1>1, <1>2, <1>3, <1>4 DEF World

\* Every step keeps the types.
LEMMA TypeStep == TypeOK /\ [Next]_vars => TypeOK'
<1> SUFFICES ASSUME TypeOK, [Next]_vars PROVE TypeOK'
  OBVIOUS
<1>1. CASE UNCHANGED vars
  BY <1>1 DEF vars, TypeOK
<1> QED BY <1>1, TypePoolRequest, TypeLeaseRequest, TypeActivation, TypeController,
           TypeFillTasks, TypeWorld DEF Next

\* The tables and the tasks of the pool subsystem always have their types.
THEOREM TypeCorrect == Spec => []TypeOK
<1> QED BY TypeInit, TypeStep, PTL DEF Spec

-----------------------------------------------------------------------------
(* Who owns a worker: the lease table and the slot table *)

\* The rows of the lease table keep everything but their deadlines.
SameLeases ==
    \A l \in Leases :
        /\ leases'[l] = None <=> leases[l] = None
        /\ leases[l] # None => /\ leases'[l].pool = leases[l].pool
                               /\ leases'[l].machine = leases[l].machine
                               /\ leases'[l].key = leases[l].key
                               /\ leases'[l].state = leases[l].state

Ownership == LeaseOwnsSlot /\ OneLeasePerWorker

\* Moving deadlines changes no owner.
LEMMA OwnershipFrame ==
    ASSUME TypeOK, Ownership, SameLeases, slots' = slots
    PROVE  Ownership'
BY DEF TypeOK, Ownership, SameLeases, LeaseOwnsSlot, OneLeasePerWorker, Live, LeaseRecord

\* Retiring workers that nobody was given changes no owner.
LEMMA RetireUnclaimed ==
    ASSUME TypeOK, Ownership, NEW S,
           \A m \in Machines : m \in S /\ slots[m] # None =>
               slots[m].state \notin {"activating", "leased"},
           slots' = Retired(S), leases' = leases
    PROVE  Ownership'
<1>1. \A m \in Machines : slots'[m] = IF m \in S /\ slots[m] # None
                                      THEN [slots[m] EXCEPT !.state = "retiring"] ELSE slots[m]
  BY DEF Retired
<1>2. \A m \in Machines :
         /\ slots'[m] # None <=> slots[m] # None
         /\ slots[m] # None /\ slots[m].state \in {"activating", "leased"} => slots'[m] = slots[m]
         /\ slots[m] # None => slots'[m] = slots[m] \/ slots'[m].state = "retiring"
  <2> SUFFICES ASSUME NEW m \in Machines
               PROVE  /\ slots'[m] # None <=> slots[m] # None
                      /\ slots[m] # None /\ slots[m].state \in {"activating", "leased"}
                           => slots'[m] = slots[m]
                      /\ slots[m] # None => slots'[m] = slots[m] \/ slots'[m].state = "retiring"
    OBVIOUS
  <2>1. CASE m \in S /\ slots[m] # None
    <3>1. slots[m] \in SlotRecord
      BY <2>1 DEF TypeOK
    <3>2. slots'[m] = [slots[m] EXCEPT !.state = "retiring"]
      BY <1>1, <2>1
    <3>3. slots'[m] # None /\ slots'[m].state = "retiring"
      BY <3>1, <3>2, NoneIsNoRow DEF SlotRecord, SlotStates
    <3> QED BY <2>1, <3>3
  <2>2. CASE ~(m \in S /\ slots[m] # None)
    BY <1>1, <2>2
  <2> QED BY <2>1, <2>2
<1>3. \A l \in Leases : leases[l] # None => leases[l].machine \in Machines
  BY DEF TypeOK, LeaseRecord
<1>4. \A l \in Leases : leases'[l] = leases[l] /\ (Live(l)' <=> Live(l))
  BY DEF Live
<1>5. LeaseOwnsSlot'
  BY <1>2, <1>3, <1>4 DEF Ownership, LeaseOwnsSlot, Live
<1>6. OneLeasePerWorker'
  BY <1>2, <1>3, <1>4 DEF Ownership, OneLeasePerWorker
<1> QED BY <1>5, <1>6 DEF Ownership

\* transition_fork_lease moves a lease and the slot it owns together.
LEMMA TransitionOwnership ==
    ASSUME TypeOK, Ownership, NEW l \in Leases, NEW from \in LiveStates, NEW to, NEW slotTo,
           \/ to \in EndStates /\ slotTo = "retiring"
           \/ to = "active" /\ slotTo = "leased",
           Transition(l, from, to, slotTo)
    PROVE  Ownership'
<1>1. CASE UNCHANGED <<leases, slots>>
  BY <1>1 DEF Ownership, LeaseOwnsSlot, OneLeasePerWorker, Live
<1>2. CASE leases[l] # None /\ leases[l].state = from
  <2> DEFINE m == leases[l].machine
  <2>1. m \in Machines /\ leases[l] \in LeaseRecord /\ Live(l)
    BY <1>2 DEF TypeOK, LeaseRecord, Live
  <2>2. slots[m] # None /\ slots[m] \in SlotRecord /\ slots[m].lease = l
    BY <2>1 DEF Ownership, LeaseOwnsSlot, TypeOK
  <2>3. /\ slots' = [slots EXCEPT ![m] = [slots[m] EXCEPT !.state = slotTo]]
        /\ slots'[m] # None
        /\ slots'[m].state = slotTo /\ slots'[m].lease = l /\ slots'[m].pool = slots[m].pool
    BY <1>2, <2>1, <2>2, NoneIsNoRow DEF Transition, TypeOK, SlotRecord, SlotStates
  <2>4. /\ \A k \in Leases \ {l} : leases'[k] = leases[k]
        /\ leases'[l] # None /\ leases'[l].state = to
        /\ leases'[l].machine = m /\ leases'[l].pool = leases[l].pool
    <3> DEFINE t == IF to = "active" THEN Ttl ELSE leases[l].left
               u == [leases[l] EXCEPT !.state = to, !.left = t]
    <3>1. leases' = [leases EXCEPT ![l] = u]
      BY <1>2 DEF Transition, TypeOK
    <3>2. t \in Nat
      BY <2>1, PositiveTimes DEF LeaseRecord
    <3>3. u # None /\ u.state = to /\ u.pool = leases[l].pool /\ u.machine = m
      <4>1. to \in LiveStates \cup EndStates
        BY DEF LiveStates
      <4>2. u \in LeaseRecord
        BY <2>1, <3>2, <4>1 DEF LeaseRecord
      <4> QED BY <2>1, <4>2, NoneIsNoRow DEF LeaseRecord
    <3> QED BY <3>1, <3>3 DEF TypeOK
  <2>5. \A k \in Leases \ {l} : leases[k] # None => leases[k].machine # m /\ leases[k].machine \in Machines
    BY <2>1 DEF Ownership, OneLeasePerWorker, TypeOK, LeaseRecord, Live
  <2>6. \A n \in Machines \ {m} : slots'[n] = slots[n]
    BY <2>3 DEF TypeOK
  <2>7. LeaseOwnsSlot'
    <3>1. ASSUME NEW k \in Leases, Live(k)'
          PROVE  (/\ slots[leases[k].machine] # None
                  /\ slots[leases[k].machine].lease = k
                  /\ slots[leases[k].machine].pool = leases[k].pool
                  /\ slots[leases[k].machine].state = IF leases[k].state = "active"
                                                      THEN "leased" ELSE "activating")'
      <4>1. CASE k = l
        BY <3>1, <4>1, <2>1, <2>2, <2>3, <2>4
           DEF Ownership, LeaseOwnsSlot, Live, LiveStates, EndStates
      <4>2. CASE k # l
        BY <3>1, <4>2, <2>4, <2>5, <2>6 DEF Ownership, LeaseOwnsSlot, Live
      <4> QED BY <4>1, <4>2
    <3>2. ASSUME NEW n \in Machines, slots'[n] # None, slots'[n].state \in {"activating", "leased"}
          PROVE  (slots[n].lease \in Leases /\ Live(slots[n].lease) /\ leases[slots[n].lease].machine = n)'
      <4>1. CASE n = m
        BY <3>2, <4>1, <2>3, <2>4 DEF Live, LiveStates
      <4>2. CASE n # m
        BY <3>2, <4>2, <2>2, <2>4, <2>6 DEF Ownership, LeaseOwnsSlot, Live
      <4> QED BY <4>1, <4>2
    <3> QED BY <3>1, <3>2 DEF LeaseOwnsSlot
  <2>8. OneLeasePerWorker'
    <3>1. \A k \in Leases : leases'[k] # None => leases[k] # None /\ leases'[k].machine = leases[k].machine
      BY <1>2, <2>4
    <3>2. \A n \in Machines : slots'[n] # None /\ slots'[n].state \in {"provisioning", "ready"}
                              => slots'[n] = slots[n]
      BY <2>3, <2>6 DEF EndStates
    <3> QED BY <3>1, <3>2 DEF Ownership, OneLeasePerWorker, TypeOK, LeaseRecord
  <2> QED BY <2>7, <2>8 DEF Ownership
<1> QED BY <1>1, <1>2 DEF Transition

\* One row that nobody was given may change, if it is not given to anyone, and
\* becomes available only when no lease ever named the worker.
LEMMA MoveUnclaimed ==
    ASSUME TypeOK, Ownership, NEW m \in Machines, leases' = leases,
           \A n \in Machines \ {m} : slots'[n] = slots[n],
           slots[m] # None => slots[m].state \notin {"activating", "leased"},
           slots'[m] # None => slots'[m].state \notin {"activating", "leased"},
           slots'[m] # None /\ slots'[m].state \in {"provisioning", "ready"}
             => \A l \in Leases : leases[l] # None => leases[l].machine # m
    PROVE  Ownership'
<1>1. \A l \in Leases : leases[l] # None => leases[l].machine \in Machines
  BY DEF TypeOK, LeaseRecord
<1>2. \A l \in Leases : Live(l) => leases[l].machine # m
  BY DEF Ownership, LeaseOwnsSlot, Live
<1>3. LeaseOwnsSlot'
  BY <1>1, <1>2 DEF Ownership, LeaseOwnsSlot, Live
<1>4. OneLeasePerWorker'
  BY <1>1 DEF Ownership, OneLeasePerWorker
<1> QED BY <1>3, <1>4 DEF Ownership

\* update_fork_pool_slot_state between two states without an owner.
LEMMA MoveSlotOwnership ==
    ASSUME TypeOK, Ownership, NEW m \in Machines, leases' = leases,
           NEW from \in {"provisioning", "ready"}, NEW to \in {"ready", "retiring"},
           MoveSlot(m, from, to)
    PROVE  Ownership'
<1>1. CASE slots' = slots
  BY <1>1, OwnershipFrame DEF SameLeases
<1>2. CASE slots[m] # None /\ slots[m].state = from
  <2>1. slots[m] \in SlotRecord
    BY <1>2 DEF TypeOK
  <2>2. slots' = [slots EXCEPT ![m] = [slots[m] EXCEPT !.state = to]]
    BY <1>2 DEF MoveSlot
  <2>3. slots'[m].state = to
    BY <2>1, <2>2 DEF TypeOK, SlotRecord
  <2>4. \A n \in Machines \ {m} : slots'[n] = slots[n]
    BY <2>2 DEF TypeOK
  <2>5. \A l \in Leases : leases[l] # None => leases[l].machine # m
    BY <1>2 DEF Ownership, OneLeasePerWorker
  <2> QED BY <1>2, <2>3, <2>4, <2>5, MoveUnclaimed
<1> QED BY <1>1, <1>2 DEF MoveSlot

\* Ending live leases together with the workers they own, and only with those
\* (begin_delete_fork_pool, expire_fork_leases).
LEMMA EndLeases ==
    ASSUME TypeOK, Ownership, NEW E, NEW S, NEW s \in EndStates,
           \A l \in Leases : l \in E => Live(l),
           \A l \in Leases : Live(l) => (l \in E <=> leases[l].machine \in S),
           leases' = [l \in Leases |-> IF l \in E THEN [leases[l] EXCEPT !.state = s] ELSE leases[l]],
           slots' = Retired(S)
    PROVE  /\ Ownership'
           /\ \A l \in Leases : /\ l \in E => /\ leases'[l] # None /\ leases'[l].state = s
                                              /\ leases'[l].machine = leases[l].machine
                                              /\ leases'[l].pool = leases[l].pool
                                              /\ leases'[l].key = leases[l].key
                                /\ l \notin E => leases'[l] = leases[l]
<1>1. \A m \in Machines :
         /\ slots'[m] # None <=> slots[m] # None
         /\ m \in S /\ slots[m] # None => slots'[m].state = "retiring"
         /\ m \notin S => slots'[m] = slots[m]
  <2> SUFFICES ASSUME NEW m \in Machines
               PROVE  /\ slots'[m] # None <=> slots[m] # None
                      /\ m \in S /\ slots[m] # None => slots'[m].state = "retiring"
                      /\ m \notin S => slots'[m] = slots[m]
    OBVIOUS
  <2>1. slots'[m] = IF m \in S /\ slots[m] # None
                    THEN [slots[m] EXCEPT !.state = "retiring"] ELSE slots[m]
    BY DEF Retired
  <2>2. CASE m \in S /\ slots[m] # None
    <3>1. slots[m] \in SlotRecord
      BY <2>2 DEF TypeOK
    <3> QED BY <2>1, <2>2, <3>1, NoneIsNoRow DEF SlotRecord, SlotStates
  <2> QED BY <2>1, <2>2
<1>2. \A l \in Leases : /\ l \in E => /\ leases'[l] # None /\ leases'[l].state = s
                                      /\ leases'[l].machine = leases[l].machine
                                      /\ leases'[l].pool = leases[l].pool
                                      /\ leases'[l].key = leases[l].key
                        /\ l \notin E => leases'[l] = leases[l]
  <2> SUFFICES ASSUME NEW l \in Leases
               PROVE  /\ l \in E => /\ leases'[l] # None /\ leases'[l].state = s
                                    /\ leases'[l].machine = leases[l].machine
                                    /\ leases'[l].pool = leases[l].pool
                                    /\ leases'[l].key = leases[l].key
                      /\ l \notin E => leases'[l] = leases[l]
    OBVIOUS
  <2>1. leases'[l] = IF l \in E THEN [leases[l] EXCEPT !.state = s] ELSE leases[l]
    OBVIOUS
  <2>2. CASE l \in E
    <3>1. leases[l] # None /\ leases[l] \in LeaseRecord
      BY <2>2 DEF Live, TypeOK
    <3>2. leases'[l] \in LeaseRecord
      BY <2>1, <2>2, <3>1 DEF LeaseRecord
    <3> QED BY <2>1, <2>2, <3>1, <3>2, NoneIsNoRow DEF LeaseRecord
  <2> QED BY <2>1, <2>2
<1>3. \A l \in Leases : leases[l] # None => leases[l].machine \in Machines
  BY DEF TypeOK, LeaseRecord
<1>4. \A l \in Leases : Live(l)' <=> Live(l) /\ l \notin E
  BY <1>2 DEF Live, LiveStates, EndStates
<1>5. LeaseOwnsSlot'
  <2>1. ASSUME NEW l \in Leases, Live(l)'
        PROVE  (/\ slots[leases[l].machine] # None
                /\ slots[leases[l].machine].lease = l
                /\ slots[leases[l].machine].pool = leases[l].pool
                /\ slots[leases[l].machine].state = IF leases[l].state = "active"
                                                    THEN "leased" ELSE "activating")'
    BY <2>1, <1>1, <1>2, <1>3, <1>4 DEF Ownership, LeaseOwnsSlot, Live
  <2>2. ASSUME NEW m \in Machines, slots'[m] # None, slots'[m].state \in {"activating", "leased"}
        PROVE  (slots[m].lease \in Leases /\ Live(slots[m].lease) /\ leases[slots[m].lease].machine = m)'
    <3>1. m \notin S /\ slots'[m] = slots[m]
      BY <2>2, <1>1
    <3>2. slots[m].lease \in Leases /\ Live(slots[m].lease) /\ leases[slots[m].lease].machine = m
      BY <2>2, <3>1 DEF Ownership, LeaseOwnsSlot
    <3> QED BY <3>1, <3>2, <1>2, <1>4
  <2> QED BY <2>1, <2>2 DEF LeaseOwnsSlot
<1>6. OneLeasePerWorker'
  <2>1. \A l \in Leases : leases'[l] # None => leases[l] # None /\ leases'[l].machine = leases[l].machine
    BY <1>2 DEF Live
  <2>2. \A m \in Machines : slots'[m] # None /\ slots'[m].state \in {"provisioning", "ready"}
                            => slots'[m] = slots[m]
    BY <1>1
  <2> QED BY <2>1, <2>2, <1>3 DEF Ownership, OneLeasePerWorker
<1> QED BY <1>2, <1>5, <1>6 DEF Ownership

\* claim_fork_pool_slot gives a ready worker to a lease that did not exist.
LEMMA ClaimOwnership ==
    ASSUME TypeOK, Ownership, NEW p \in Pools, NEW k \in Keys, NEW l \in Leases, Claim(p, k, l)
    PROVE  Ownership'
<1>1. PICK m \in Claimable(p), passed \in SUBSET Unclaimable(p) :
        /\ slots' = [Retired(passed) EXCEPT ![m].state = "activating", ![m].lease = l]
        /\ leases' = [leases EXCEPT ![l] = [pool |-> p, machine |-> m, key |-> k,
                                            state |-> "activating", left |-> Grace]]
  BY DEF Claim
<1>2. /\ m \in Machines /\ slots[m] # None /\ slots[m].state = "ready" /\ slots[m].pool = p
      /\ m \notin passed
      /\ \A n \in passed : n \in Machines /\ slots[n] # None /\ slots[n].state = "ready"
  BY DEF Claimable, Unclaimable, SlotsIn
<1>3. leases[l] = None /\ \A j \in Leases : leases[j] # None => leases[j].machine # m
  BY <1>2 DEF Claim, FreshLease, Ownership, OneLeasePerWorker
<1>4. slots'[m] # None /\ slots'[m].state = "activating" /\ slots'[m].lease = l /\ slots'[m].pool = p
  <2>1. Retired(passed)[m] = slots[m] /\ slots[m] \in SlotRecord
    BY <1>2 DEF Retired, TypeOK
  <2>2. slots'[m] = [slots[m] EXCEPT !.state = "activating", !.lease = l]
    BY <1>1, <1>2, <2>1, RetiredType
  <2>3. slots'[m] \in SlotRecord
    BY <2>1, <2>2 DEF SlotRecord, SlotStates
  <2> QED BY <1>2, <2>1, <2>2, <2>3, NoneIsNoRow DEF SlotRecord
<1>5. \A n \in Machines \ {m} :
         /\ slots'[n] # None <=> slots[n] # None
         /\ n \in passed => slots'[n].state = "retiring"
         /\ n \notin passed => slots'[n] = slots[n]
  <2> SUFFICES ASSUME NEW n \in Machines \ {m}
               PROVE  /\ slots'[n] # None <=> slots[n] # None
                      /\ n \in passed => slots'[n].state = "retiring"
                      /\ n \notin passed => slots'[n] = slots[n]
    OBVIOUS
  <2>1. slots'[n] = IF n \in passed /\ slots[n] # None
                    THEN [slots[n] EXCEPT !.state = "retiring"] ELSE slots[n]
    BY <1>1 DEF Retired
  <2>2. CASE n \in passed
    <3>1. slots[n] # None /\ slots[n] \in SlotRecord
      BY <1>2, <2>2 DEF TypeOK
    <3> QED BY <2>1, <2>2, <3>1, NoneIsNoRow DEF SlotRecord, SlotStates
  <2> QED BY <2>1, <2>2
<1>6. /\ leases'[l] # None /\ leases'[l].machine = m /\ leases'[l].pool = p
      /\ leases'[l].state = "activating"
      /\ \A j \in Leases \ {l} : leases'[j] = leases[j]
  <2>1. leases'[l] \in LeaseRecord
    BY <1>1, <1>2, PositiveTimes DEF TypeOK, LeaseRecord, LiveStates
  <2> QED BY <1>1, <2>1, NoneIsNoRow DEF TypeOK
<1>7. \A j \in Leases : leases[j] # None => leases[j].machine \in Machines
  BY DEF TypeOK, LeaseRecord
<1>8. LeaseOwnsSlot'
  <2>1. ASSUME NEW j \in Leases, Live(j)'
        PROVE  (/\ slots[leases[j].machine] # None
                /\ slots[leases[j].machine].lease = j
                /\ slots[leases[j].machine].pool = leases[j].pool
                /\ slots[leases[j].machine].state = IF leases[j].state = "active"
                                                    THEN "leased" ELSE "activating")'
    <3>1. CASE j = l
      BY <3>1, <1>4, <1>6
    <3>2. CASE j # l
      <4>1. leases'[j] = leases[j] /\ Live(j) /\ leases[j].machine \in Machines \ {m}
        BY <2>1, <3>2, <1>3, <1>6, <1>7 DEF Live
      <4>2. slots[leases[j].machine].state # "ready" /\ leases[j].machine \notin passed
        BY <4>1, <1>2 DEF Ownership, LeaseOwnsSlot
      <4> QED BY <4>1, <4>2, <1>5 DEF Ownership, LeaseOwnsSlot
    <3> QED BY <3>1, <3>2
  <2>2. ASSUME NEW n \in Machines, slots'[n] # None, slots'[n].state \in {"activating", "leased"}
        PROVE  (slots[n].lease \in Leases /\ Live(slots[n].lease) /\ leases[slots[n].lease].machine = n)'
    <3>1. CASE n = m
      BY <3>1, <1>4, <1>6 DEF Live, LiveStates
    <3>2. CASE n # m
      <4>1. slots'[n] = slots[n]
        BY <2>2, <3>2, <1>5
      <4>2. slots[n].lease \in Leases /\ Live(slots[n].lease) /\ leases[slots[n].lease].machine = n
        BY <2>2, <4>1 DEF Ownership, LeaseOwnsSlot
      <4>3. slots[n].lease # l
        BY <4>2, <1>3 DEF Live
      <4> QED BY <4>1, <4>2, <4>3, <1>6 DEF Live
    <3> QED BY <3>1, <3>2
  <2> QED BY <2>1, <2>2 DEF LeaseOwnsSlot
<1>9. OneLeasePerWorker'
  <2>1. ASSUME NEW j \in Leases, leases'[j] # None
        PROVE  (/\ \A i \in Leases \ {j} : leases[i] # None => leases[i].machine # leases[j].machine
                /\ slots[leases[j].machine] # None =>
                       slots[leases[j].machine].state \notin {"provisioning", "ready"})'
    <3>1. CASE j = l
      BY <3>1, <1>3, <1>4, <1>6
    <3>2. CASE j # l
      BY <2>1, <3>2, <1>3, <1>5, <1>6, <1>7 DEF Ownership, OneLeasePerWorker
    <3> QED BY <3>1, <3>2
  <2> QED BY <2>1 DEF OneLeasePerWorker
<1> QED BY <1>8, <1>9 DEF Ownership

\* The inductive invariant: who owns a worker, what a deletion and what a fill
\* may still touch.  None of its parts is inductive without the others.
IInv == TypeOK /\ Ownership /\ DeletingPoolDrains /\ FillOwnsBatch

\* Every step keeps the lease table and the slot table in agreement.
LEMMA OwnershipStep == IInv /\ [Next]_vars => Ownership'
<1> SUFFICES ASSUME IInv, [Next]_vars PROVE Ownership'
  OBVIOUS
<1>0. TypeOK /\ Ownership
  BY DEF IInv
<1>1. ASSUME slots' = slots, leases' = leases PROVE Ownership'
  BY <1>0, <1>1, OwnershipFrame DEF SameLeases
<1>2. CASE PoolRequest
  <2>1. ASSUME NEW p \in Pools, NEW n \in Sizes, ResizePool(p, n) PROVE Ownership'
    <3>1. PICK S \in Surplus(p, n) : slots' = Retired(S)
      BY <2>1 DEF ResizePool
    <3>2. \A m \in Machines : m \in S /\ slots[m] # None =>
            slots[m].state \notin {"activating", "leased"}
      BY DEF Surplus, Available, SlotsIn
    <3>3. leases' = leases
      BY <2>1 DEF ResizePool
    <3> QED BY <1>0, <3>1, <3>2, <3>3, RetireUnclaimed
  <2>2. ASSUME NEW p \in Pools, NEW force \in BOOLEAN, DeletePool(p, force) PROVE Ownership'
    <3>1. \A l \in Leases : l \in LiveLeases(p) => Live(l)
      BY DEF LiveLeases
    <3>2. \A l \in Leases : Live(l) =>
            (l \in LiveLeases(p) <=> leases[l].machine \in SlotsIn(p, SlotStates))
      BY <1>0
         DEF Ownership, LeaseOwnsSlot, LiveLeases, SlotsIn, Live, TypeOK, LeaseRecord, SlotStates
    <3>3. "cancelled" \in EndStates
      BY DEF EndStates
    <3>4. /\ leases' = [l \in Leases |-> IF l \in LiveLeases(p)
                                         THEN [leases[l] EXCEPT !.state = "cancelled"] ELSE leases[l]]
          /\ slots' = Retired(SlotsIn(p, SlotStates))
      BY <2>2 DEF DeletePool
    <3> QED BY <1>0, <3>1, <3>2, <3>3, <3>4, EndLeases
  <2>3. ASSUME NEW p \in Pools, NEW g \in Goldens, NEW n \in Sizes, NEW mx \in MaxActives,
               NEW auto \in Autos, CreatePool(p, g, n, mx, auto)
        PROVE  Ownership'
    BY <1>1, <2>3 DEF CreatePool
  <2> QED BY <1>2, <2>1, <2>2, <2>3 DEF PoolRequest
<1>3. CASE LeaseRequest
  <2>1. ASSUME NEW p \in Pools, NEW k \in Keys, ClaimRefused(p, k) PROVE Ownership'
    <3>1. PICK S \in SUBSET Unclaimable(p) : slots' = Retired(S)
      BY <2>1 DEF ClaimRefused
    <3>2. \A m \in Machines : m \in S /\ slots[m] # None =>
            slots[m].state \notin {"activating", "leased"}
      BY DEF Unclaimable, SlotsIn
    <3>3. leases' = leases
      BY <2>1 DEF ClaimRefused
    <3> QED BY <1>0, <3>1, <3>2, <3>3, RetireUnclaimed
  <2>2. ASSUME NEW p \in Pools, NEW k \in Keys, NEW l \in Leases, Claim(p, k, l) PROVE Ownership'
    BY <1>0, <2>2, ClaimOwnership
  <2>3. ASSUME NEW l \in Leases, Heartbeat(l) PROVE Ownership'
    BY <1>0, <2>3, OwnershipFrame, NoneIsNoRow, PositiveTimes
       DEF Heartbeat, SameLeases, TypeOK, LeaseRecord
  <2>4. ASSUME NEW l \in Leases, HeartbeatLookup(l) PROVE Ownership'
    BY <1>0, <1>1, <2>4, TransitionOwnership DEF HeartbeatLookup, LiveStates, EndStates
  <2>5. ASSUME NEW l \in Leases, CompleteLease(l) PROVE Ownership'
    BY <1>0, <2>5, TransitionOwnership DEF CompleteLease, LiveStates, EndStates
  <2> QED BY <1>3, <2>1, <2>2, <2>3, <2>4, <2>5 DEF LeaseRequest
<1>4. CASE Activation
  <2> SUFFICES ASSUME NEW l \in Leases,
                      ActivateLookup(l) \/ ActivateCommit(l) \/ ActivateFail(l) \/ ActivateLost(l)
               PROVE  Ownership'
    BY <1>4 DEF Activation
  <2>1. CASE ActivateLookup(l)
    BY <1>0, <1>1, <2>1, TransitionOwnership DEF ActivateLookup, LiveStates, EndStates
  <2>2. CASE ActivateCommit(l)
    BY <1>0, <2>2, TransitionOwnership DEF ActivateCommit, LiveStates
  <2>3. CASE ActivateFail(l)
    BY <1>0, <2>3, TransitionOwnership DEF ActivateFail, LiveStates, EndStates
  <2>4. CASE ActivateLost(l)
    BY <1>1, <2>4 DEF ActivateLost
  <2> QED BY <2>1, <2>2, <2>3, <2>4
<1>5. CASE Controller
  <2>1. CASE ExpireLeases
    <3>1. \A l \in Leases : l \in Overdue => Live(l)
      BY DEF Overdue
    <3>2. \A l \in Leases : Live(l) =>
            (l \in Overdue <=> leases[l].machine \in {leases[k].machine : k \in Overdue})
      BY <1>0 DEF Ownership, OneLeasePerWorker, Overdue, Live
    <3>3. "expired" \in EndStates
      BY DEF EndStates
    <3> QED BY <1>0, <2>1, <3>1, <3>2, <3>3, EndLeases DEF ExpireLeases
  <2>2. CASE FinalizePools
    <3>1. \A l \in Leases : leases'[l] = IF leases[l] # None /\ leases[l].pool \in Drained
                                         THEN None ELSE leases[l]
      BY <2>2 DEF FinalizePools
    <3>2. \A l \in Leases : Live(l) => leases[l].pool \notin Drained
      BY DEF IInv, DeletingPoolDrains, Drained, Live
    <3>3. \A l \in Leases : /\ Live(l) => leases'[l] = leases[l]
                            /\ Live(l)' <=> Live(l)
                            /\ leases'[l] # None => leases'[l] = leases[l]
      BY <3>1, <3>2 DEF Live
    <3>4. slots' = slots
      BY <2>2 DEF FinalizePools
    <3>5. LeaseOwnsSlot'
      <4>1. ASSUME NEW l \in Leases, Live(l)'
            PROVE  (/\ slots[leases[l].machine] # None
                    /\ slots[leases[l].machine].lease = l
                    /\ slots[leases[l].machine].pool = leases[l].pool
                    /\ slots[leases[l].machine].state = IF leases[l].state = "active"
                                                        THEN "leased" ELSE "activating")'
        BY <1>0, <4>1, <3>3, <3>4 DEF Ownership, LeaseOwnsSlot
      <4>2. ASSUME NEW m \in Machines, slots'[m] # None, slots'[m].state \in {"activating", "leased"}
            PROVE  (slots[m].lease \in Leases /\ Live(slots[m].lease)
                    /\ leases[slots[m].lease].machine = m)'
        BY <1>0, <4>2, <3>3, <3>4 DEF Ownership, LeaseOwnsSlot
      <4> QED BY <4>1, <4>2 DEF LeaseOwnsSlot
    <3>6. OneLeasePerWorker'
      BY <1>0, <3>3, <3>4 DEF Ownership, OneLeasePerWorker
    <3> QED BY <3>5, <3>6 DEF Ownership
  <2>3. CASE NextPhase \/ PassFails
    BY <1>1, <2>3 DEF NextPhase, PassFails
  <2>4. ASSUME NEW m \in Machines, RecoverSlot(m) PROVE Ownership'
    BY <1>0, <2>4, MoveSlotOwnership DEF RecoverSlot
  <2>5. ASSUME NEW m \in Machines, CheckReady(m) PROVE Ownership'
    BY <1>0, <1>1, <2>5, MoveSlotOwnership DEF CheckReady
  <2>6. ASSUME NEW m \in Machines, DeleteRetired(m) PROVE Ownership'
    <3>1. slots[m] # None => slots[m].state = "retiring"
      BY <2>6 DEF IInv, FillOwnsBatch, DeleteRetired
    <3>2. slots'[m] = None /\ leases' = leases /\ \A n \in Machines \ {m} : slots'[n] = slots[n]
      BY <1>0, <2>6 DEF DeleteRetired, TypeOK
    <3> QED BY <1>0, <3>1, <3>2, MoveUnclaimed
  <2>7. ASSUME NEW m \in Machines, DeleteRetiredFails(m) PROVE Ownership'
    BY <1>1, <2>7 DEF DeleteRetiredFails
  <2>8. ASSUME NEW l \in Leases, CheckLeased(l) PROVE Ownership'
    BY <1>0, <1>1, <2>8, TransitionOwnership DEF CheckLeased, LiveStates, EndStates
  <2>9. ASSUME NEW p \in Pools, ReapFill(p) \/ StartFill(p) PROVE Ownership'
    BY <1>1, <2>9 DEF ReapFill, StartFill
  <2> QED BY <1>5, <2>1, <2>2, <2>3, <2>4, <2>5, <2>6, <2>7, <2>8, <2>9 DEF Controller
<1>6. CASE FillTasks
  <2>1. ASSUME NEW p \in Pools, FillLock(p) \/ FillReserved(p) \/ FillPrepare(p)
                                \/ FillBatchFails(p) \/ FillDone(p)
        PROVE  Ownership'
    BY <1>1, <2>1 DEF FillLock, FillReserved, FillPrepare, FillBatchFails, FillDone
  <2>2. ASSUME NEW p \in Pools, NEW m \in Machines, FillBoot(p, m) \/ FillBootFails(p, m)
        PROVE  Ownership'
    BY <1>1, <2>2 DEF FillBoot, FillBootFails
  <2>3. ASSUME NEW p \in Pools, NEW m \in Machines, FillReserve(p, m) PROVE Ownership'
    <3>1. slots[m] = None /\ \A l \in Leases : leases[l] # None => leases[l].machine # m
      BY <2>3 DEF FillReserve, FreshMachine
    <3>2. /\ slots'[m].state = "provisioning" /\ leases' = leases
          /\ \A n \in Machines \ {m} : slots'[n] = slots[n]
      BY <1>0, <2>3 DEF FillReserve, TypeOK
    <3> QED BY <1>0, <3>1, <3>2, MoveUnclaimed
  <2>4. ASSUME NEW p \in Pools, NEW m \in Machines, FillFinish(p, m) PROVE Ownership'
    BY <1>0, <2>4, MoveSlotOwnership DEF FillFinish
  <2>5. ASSUME NEW p \in Pools, NEW m \in Machines, FillRetire(p, m) PROVE Ownership'
    <3>1. slots[m] # None => slots[m].state \in {"provisioning", "retiring"}
      BY <2>5 DEF IInv, FillOwnsBatch, FillRetire
    <3>2. slots' = Retired({m}) /\ leases' = leases
      BY <2>5 DEF FillRetire
    <3> QED BY <1>0, <3>1, <3>2, RetireUnclaimed
  <2> QED BY <1>6, <2>1, <2>2, <2>3, <2>4, <2>5 DEF FillTasks
<1>7. CASE World
  <2>1. CASE Tick
    <3>1. ASSUME NEW l \in Leases, leases[l] # None, leases[l].left > 0
          PROVE  /\ [leases[l] EXCEPT !.left = @ - 1] # None
                 /\ [leases[l] EXCEPT !.left = @ - 1].pool = leases[l].pool
                 /\ [leases[l] EXCEPT !.left = @ - 1].machine = leases[l].machine
                 /\ [leases[l] EXCEPT !.left = @ - 1].key = leases[l].key
                 /\ [leases[l] EXCEPT !.left = @ - 1].state = leases[l].state
      <4>1. leases[l] \in LeaseRecord
        BY <1>0, <3>1 DEF TypeOK
      <4>2. [leases[l] EXCEPT !.left = @ - 1] \in LeaseRecord
        BY <3>1, <4>1 DEF LeaseRecord
      <4> QED BY <4>1, <4>2, NoneIsNoRow DEF LeaseRecord
    <3>2. SameLeases
      BY <1>0, <2>1, <3>1 DEF Tick, SameLeases, TypeOK
    <3> QED BY <1>0, <2>1, <3>2, OwnershipFrame DEF Tick
  <2>2. CASE Restart
    BY <1>1, <2>2 DEF Restart, db
  <2>3. ASSUME NEW p \in Pools, BackoffElapses(p) PROVE Ownership'
    BY <1>1, <2>3 DEF BackoffElapses
  <2>4. ASSUME NEW m \in Machines,
               WorkerExits(m) \/ UserDeletes(m) \/ PauseWorker(m) \/ ResumeWorker(m)
        PROVE  Ownership'
    BY <1>1, <2>4 DEF WorkerExits, UserDeletes, PauseWorker, ResumeWorker
  <2> QED BY <1>7, <2>1, <2>2, <2>3, <2>4 DEF World
<1>8. CASE UNCHANGED vars
  BY <1>1, <1>8 DEF vars
<1> QED BY <1>2, <1>3, <1>4, <1>5, <1>6, <1>7, <1>8 DEF Next

-----------------------------------------------------------------------------
(* What one step may do to a row *)

\* A slot row stays, goes, retires, or moves on within its pool unless it is
\* retiring; a new row is provisioning, in a pool that is not being deleted.
SlotRowSteps ==
    \A m \in Machines :
        \/ slots'[m] = slots[m]
        \/ slots'[m] = None
        \/ /\ slots[m] # None /\ slots'[m] # None
           /\ slots'[m].pool = slots[m].pool
           /\ slots[m].state = "retiring" => slots'[m].state = "retiring"
        \/ /\ slots[m] = None /\ slots'[m] # None
           /\ slots'[m].state = "provisioning"
           /\ slots'[m].pool \in Pools
           /\ pools[slots'[m].pool] # None /\ ~pools[slots'[m].pool].deleting

\* A lease row goes with its drained pool only; an ended one keeps its outcome;
\* a new one belongs to a pool that is not being deleted.
LeaseRowSteps ==
    \A l \in Leases :
        \/ leases[l] = None /\ leases'[l] = None
        \/ leases[l] # None /\ leases'[l] = None /\ leases[l].pool \in Drained
                            /\ pools'[leases[l].pool] = None
        \/ /\ leases[l] # None /\ leases'[l] # None
           /\ leases'[l].pool = leases[l].pool
           /\ leases'[l].machine = leases[l].machine
           /\ leases'[l].key = leases[l].key
           /\ leases'[l].state = leases[l].state \/ Live(l)
        \/ /\ leases[l] = None /\ leases'[l] # None
           /\ leases'[l].pool \in Pools
           /\ pools[leases'[l].pool] # None /\ ~pools[leases'[l].pool].deleting

\* Retired is such a step.
LEMMA RetiredRows ==
    ASSUME TypeOK, NEW S, slots' = Retired(S) PROVE SlotRowSteps
<1> SUFFICES ASSUME NEW m \in Machines
             PROVE  \/ slots'[m] = slots[m]
                    \/ /\ slots[m] # None /\ slots'[m] # None
                       /\ slots'[m].pool = slots[m].pool
                       /\ slots'[m].state = "retiring"
  BY DEF SlotRowSteps
<1>1. slots'[m] = IF m \in S /\ slots[m] # None
                  THEN [slots[m] EXCEPT !.state = "retiring"] ELSE slots[m]
  BY DEF Retired
<1>2. CASE m \in S /\ slots[m] # None
  <2>1. slots[m] \in SlotRecord
    BY <1>2 DEF TypeOK
  <2> QED BY <1>1, <1>2, <2>1, NoneIsNoRow DEF SlotRecord, SlotStates
<1> QED BY <1>1, <1>2

\* So is update_fork_pool_slot_state, out of a state that is not retiring.
LEMMA MoveSlotRows ==
    ASSUME TypeOK, NEW m \in Machines, NEW from, from # "retiring", NEW to \in SlotStates,
           MoveSlot(m, from, to)
    PROVE  SlotRowSteps
<1>1. CASE slots' = slots
  BY <1>1 DEF SlotRowSteps
<1>2. CASE slots[m] # None /\ slots[m].state = from
  <2>1. slots[m] \in SlotRecord
    BY <1>2 DEF TypeOK
  <2>2. slots' = [slots EXCEPT ![m] = [slots[m] EXCEPT !.state = to]]
    BY <1>2 DEF MoveSlot
  <2>3. slots'[m] # None /\ slots'[m].pool = slots[m].pool
    BY <2>1, <2>2, NoneIsNoRow DEF TypeOK, SlotRecord
  <2> QED BY <1>2, <2>2, <2>3 DEF SlotRowSteps, TypeOK
<1> QED BY <1>1, <1>2 DEF MoveSlot

\* So is transition_fork_lease, because a live lease's worker is not retiring.
LEMMA TransitionRows ==
    ASSUME TypeOK, Ownership, NEW l \in Leases, NEW from \in LiveStates,
           NEW to \in LiveStates \cup EndStates, NEW slotTo \in SlotStates,
           Transition(l, from, to, slotTo)
    PROVE  SlotRowSteps /\ LeaseRowSteps
<1>1. CASE UNCHANGED <<leases, slots>>
  BY <1>1 DEF SlotRowSteps, LeaseRowSteps
<1>2. CASE leases[l] # None /\ leases[l].state = from
  <2> DEFINE m == leases[l].machine
             t == IF to = "active" THEN Ttl ELSE leases[l].left
             u == [leases[l] EXCEPT !.state = to, !.left = t]
  <2>1. m \in Machines /\ leases[l] \in LeaseRecord /\ Live(l)
    BY <1>2 DEF TypeOK, LeaseRecord, Live
  <2>2. slots[m] # None /\ slots[m] \in SlotRecord /\ slots[m].state # "retiring"
    BY <2>1 DEF Ownership, LeaseOwnsSlot, TypeOK
  <2>3. slots' = [slots EXCEPT ![m] = [slots[m] EXCEPT !.state = slotTo]]
    BY <1>2, <2>2 DEF Transition
  <2>4. slots'[m] # None /\ slots'[m].pool = slots[m].pool
    BY <2>1, <2>2, <2>3, NoneIsNoRow DEF TypeOK, SlotRecord
  <2>5. SlotRowSteps
    BY <2>2, <2>3, <2>4 DEF SlotRowSteps, TypeOK
  <2>6. leases' = [leases EXCEPT ![l] = u]
    BY <1>2 DEF Transition, TypeOK
  <2>7. t \in Nat
    BY <2>1, PositiveTimes DEF LeaseRecord
  <2>8. u \in LeaseRecord
    BY <2>1, <2>7 DEF LeaseRecord
  <2>9. /\ u # None /\ u.pool = leases[l].pool
        /\ u.machine = leases[l].machine /\ u.key = leases[l].key
    BY <2>1, <2>8, NoneIsNoRow DEF LeaseRecord
  <2>10. leases'[l] = u /\ \A k \in Leases \ {l} : leases'[k] = leases[k]
    BY <2>6 DEF TypeOK
  <2>11. LeaseRowSteps
    BY <1>2, <2>1, <2>9, <2>10 DEF LeaseRowSteps
  <2> QED BY <2>5, <2>11
<1> QED BY <1>1, <1>2 DEF Transition

\* Every step of the system is one of these to every row.
LEMMA RowSteps == IInv /\ [Next]_vars => SlotRowSteps /\ LeaseRowSteps
<1> SUFFICES ASSUME IInv, [Next]_vars PROVE SlotRowSteps /\ LeaseRowSteps
  OBVIOUS
<1>0. TypeOK /\ Ownership
  BY DEF IInv
<1>1. ASSUME leases' = leases PROVE LeaseRowSteps
  BY <1>1 DEF LeaseRowSteps
<1>2. ASSUME slots' = slots PROVE SlotRowSteps
  BY <1>2 DEF SlotRowSteps
<1>3. CASE PoolRequest
  <2>1. ASSUME NEW p \in Pools, NEW n \in Sizes, ResizePool(p, n) PROVE SlotRowSteps /\ LeaseRowSteps
    BY <1>0, <1>1, <2>1, RetiredRows DEF ResizePool
  <2>2. ASSUME NEW p \in Pools, NEW force \in BOOLEAN, DeletePool(p, force)
        PROVE  SlotRowSteps /\ LeaseRowSteps
    <3>1. SlotRowSteps
      BY <1>0, <2>2, RetiredRows DEF DeletePool
    <3>2. ASSUME NEW l \in Leases, l \in LiveLeases(p)
          PROVE  /\ leases[l] # None /\ Live(l) /\ leases'[l] # None
                 /\ leases'[l].pool = leases[l].pool
                 /\ leases'[l].machine = leases[l].machine
                 /\ leases'[l].key = leases[l].key
      <4>1. leases[l] \in LeaseRecord /\ leases[l] # None /\ Live(l)
        BY <1>0, <3>2 DEF TypeOK, LiveLeases, Live
      <4>2. leases'[l] = [leases[l] EXCEPT !.state = "cancelled"]
        BY <2>2, <3>2 DEF DeletePool
      <4>3. leases'[l] \in LeaseRecord
        BY <4>1, <4>2 DEF LeaseRecord, EndStates
      <4> QED BY <4>1, <4>2, <4>3, NoneIsNoRow DEF LeaseRecord
    <3>3. \A l \in Leases : l \notin LiveLeases(p) => leases'[l] = leases[l]
      BY <2>2 DEF DeletePool
    <3> QED BY <3>1, <3>2, <3>3 DEF LeaseRowSteps
  <2>3. ASSUME NEW p \in Pools, NEW g \in Goldens, NEW n \in Sizes, NEW mx \in MaxActives,
               NEW auto \in Autos, CreatePool(p, g, n, mx, auto)
        PROVE  SlotRowSteps /\ LeaseRowSteps
    BY <1>1, <1>2, <2>3 DEF CreatePool
  <2> QED BY <1>3, <2>1, <2>2, <2>3 DEF PoolRequest
<1>4. CASE LeaseRequest
  <2>1. ASSUME NEW p \in Pools, NEW k \in Keys, ClaimRefused(p, k) PROVE SlotRowSteps /\ LeaseRowSteps
    BY <1>0, <1>1, <2>1, RetiredRows DEF ClaimRefused
  <2>2. ASSUME NEW p \in Pools, NEW k \in Keys, NEW l \in Leases, Claim(p, k, l)
        PROVE  SlotRowSteps /\ LeaseRowSteps
    <3>1. PICK m \in Claimable(p), passed \in SUBSET Unclaimable(p) :
            /\ slots' = [Retired(passed) EXCEPT ![m].state = "activating", ![m].lease = l]
            /\ leases' = [leases EXCEPT ![l] = [pool |-> p, machine |-> m, key |-> k,
                                                state |-> "activating", left |-> Grace]]
      BY <2>2 DEF Claim
    <3>2. m \in Machines /\ slots[m] # None /\ slots[m].state = "ready" /\ m \notin passed
      BY DEF Claimable, Unclaimable, SlotsIn
    <3>3. slots'[m] # None /\ slots'[m].pool = slots[m].pool
      <4>1. Retired(passed)[m] = slots[m] /\ slots[m] \in SlotRecord
        BY <1>0, <3>2 DEF Retired, TypeOK
      <4>2. slots'[m] = [slots[m] EXCEPT !.state = "activating", !.lease = l]
        BY <1>0, <3>1, <3>2, <4>1, RetiredType
      <4>3. slots'[m] \in SlotRecord
        BY <4>1, <4>2 DEF SlotRecord, SlotStates
      <4> QED BY <4>1, <4>2, <4>3, NoneIsNoRow DEF SlotRecord
    <3>4. ASSUME NEW n \in Machines \ {m}
          PROVE  \/ slots'[n] = slots[n]
                 \/ /\ slots[n] # None /\ slots'[n] # None
                    /\ slots'[n].pool = slots[n].pool /\ slots'[n].state = "retiring"
      <4>1. slots'[n] = IF n \in passed /\ slots[n] # None
                        THEN [slots[n] EXCEPT !.state = "retiring"] ELSE slots[n]
        BY <3>1 DEF Retired
      <4>2. CASE n \in passed /\ slots[n] # None
        <5>1. slots[n] \in SlotRecord
          BY <1>0, <4>2 DEF TypeOK
        <5> QED BY <4>1, <4>2, <5>1, NoneIsNoRow DEF SlotRecord, SlotStates
      <4> QED BY <4>1, <4>2
    <3>5. SlotRowSteps
      BY <3>2, <3>3, <3>4 DEF SlotRowSteps
    <3>6. leases[l] = None /\ pools[p] # None /\ ~pools[p].deleting
      BY <2>2 DEF Claim, FreshLease, Admits
    <3>7. leases'[l] # None /\ leases'[l].pool = p /\ \A j \in Leases \ {l} : leases'[j] = leases[j]
      <4>1. leases'[l] \in LeaseRecord
        BY <1>0, <3>1, <3>2, PositiveTimes DEF TypeOK, LeaseRecord, LiveStates
      <4> QED BY <1>0, <3>1, <4>1, NoneIsNoRow DEF TypeOK
    <3>8. LeaseRowSteps
      BY <3>6, <3>7 DEF LeaseRowSteps
    <3> QED BY <3>5, <3>8
  <2>3. ASSUME NEW l \in Leases, Heartbeat(l) PROVE SlotRowSteps /\ LeaseRowSteps
    <3>1. leases[l] \in LeaseRecord /\ leases[l] # None
      BY <1>0, <2>3 DEF Heartbeat, TypeOK
    <3>2. leases'[l] = [leases[l] EXCEPT !.left = Ttl] /\ \A k \in Leases \ {l} : leases'[k] = leases[k]
      BY <1>0, <2>3 DEF Heartbeat, TypeOK
    <3>3. leases'[l] \in LeaseRecord
      BY <3>1, <3>2, PositiveTimes DEF LeaseRecord
    <3>4. /\ leases'[l] # None /\ leases'[l].pool = leases[l].pool /\ leases'[l].state = leases[l].state
          /\ leases'[l].machine = leases[l].machine /\ leases'[l].key = leases[l].key
      BY <3>1, <3>2, <3>3, NoneIsNoRow DEF LeaseRecord
    <3>5. LeaseRowSteps
      BY <3>1, <3>2, <3>4 DEF LeaseRowSteps
    <3> QED BY <1>2, <2>3, <3>5 DEF Heartbeat
  <2>4. ASSUME NEW l \in Leases, HeartbeatLookup(l) PROVE SlotRowSteps /\ LeaseRowSteps
    BY <1>0, <1>1, <1>2, <2>4, TransitionRows DEF HeartbeatLookup, LiveStates, EndStates, SlotStates
  <2>5. ASSUME NEW l \in Leases, CompleteLease(l) PROVE SlotRowSteps /\ LeaseRowSteps
    BY <1>0, <2>5, TransitionRows DEF CompleteLease, LiveStates, EndStates, SlotStates
  <2> QED BY <1>4, <2>1, <2>2, <2>3, <2>4, <2>5 DEF LeaseRequest
<1>5. CASE Activation
  <2> SUFFICES ASSUME NEW l \in Leases,
                      ActivateLookup(l) \/ ActivateCommit(l) \/ ActivateFail(l) \/ ActivateLost(l)
               PROVE  SlotRowSteps /\ LeaseRowSteps
    BY <1>5 DEF Activation
  <2>1. CASE ActivateLookup(l)
    BY <1>0, <1>1, <1>2, <2>1, TransitionRows DEF ActivateLookup, LiveStates, EndStates, SlotStates
  <2>2. CASE ActivateCommit(l)
    BY <1>0, <2>2, TransitionRows DEF ActivateCommit, LiveStates, SlotStates
  <2>3. CASE ActivateFail(l)
    BY <1>0, <2>3, TransitionRows DEF ActivateFail, LiveStates, EndStates, SlotStates
  <2>4. CASE ActivateLost(l)
    BY <1>1, <1>2, <2>4 DEF ActivateLost
  <2> QED BY <2>1, <2>2, <2>3, <2>4
<1>6. CASE Controller
  <2>1. CASE ExpireLeases
    <3>1. SlotRowSteps
      BY <1>0, <2>1, RetiredRows DEF ExpireLeases
    <3>2. ASSUME NEW l \in Leases, l \in Overdue
          PROVE  /\ leases[l] # None /\ Live(l) /\ leases'[l] # None
                 /\ leases'[l].pool = leases[l].pool
                 /\ leases'[l].machine = leases[l].machine
                 /\ leases'[l].key = leases[l].key
      <4>1. leases[l] \in LeaseRecord /\ leases[l] # None /\ Live(l)
        BY <1>0, <3>2 DEF TypeOK, Overdue, Live
      <4>2. leases'[l] = [leases[l] EXCEPT !.state = "expired"]
        BY <2>1, <3>2 DEF ExpireLeases
      <4>3. leases'[l] \in LeaseRecord
        BY <4>1, <4>2 DEF LeaseRecord, EndStates
      <4> QED BY <4>1, <4>2, <4>3, NoneIsNoRow DEF LeaseRecord
    <3>3. \A l \in Leases : l \notin Overdue => leases'[l] = leases[l]
      BY <2>1 DEF ExpireLeases
    <3> QED BY <3>1, <3>2, <3>3 DEF LeaseRowSteps
  <2>2. CASE FinalizePools
    <3>1. \A l \in Leases : leases'[l] = IF leases[l] # None /\ leases[l].pool \in Drained
                                         THEN None ELSE leases[l]
      BY <2>2 DEF FinalizePools
    <3>2. \A p \in Drained : pools'[p] = None
      BY <2>2 DEF FinalizePools, Drained
    <3>3. LeaseRowSteps
      BY <3>1, <3>2 DEF LeaseRowSteps
    <3> QED BY <1>2, <2>2, <3>3 DEF FinalizePools
  <2>3. CASE NextPhase \/ PassFails
    BY <1>1, <1>2, <2>3 DEF NextPhase, PassFails
  <2>4. ASSUME NEW m \in Machines, RecoverSlot(m) PROVE SlotRowSteps /\ LeaseRowSteps
    BY <1>0, <1>1, <2>4, MoveSlotRows DEF RecoverSlot, SlotStates
  <2>5. ASSUME NEW m \in Machines, CheckReady(m) PROVE SlotRowSteps /\ LeaseRowSteps
    BY <1>0, <1>1, <1>2, <2>5, MoveSlotRows DEF CheckReady, SlotStates
  <2>6. ASSUME NEW m \in Machines, DeleteRetired(m) PROVE SlotRowSteps /\ LeaseRowSteps
    BY <1>0, <1>1, <2>6 DEF DeleteRetired, SlotRowSteps, TypeOK
  <2>7. ASSUME NEW m \in Machines, DeleteRetiredFails(m) PROVE SlotRowSteps /\ LeaseRowSteps
    BY <1>1, <1>2, <2>7 DEF DeleteRetiredFails
  <2>8. ASSUME NEW l \in Leases, CheckLeased(l) PROVE SlotRowSteps /\ LeaseRowSteps
    BY <1>0, <1>1, <1>2, <2>8, TransitionRows DEF CheckLeased, LiveStates, EndStates, SlotStates
  <2>9. ASSUME NEW p \in Pools, ReapFill(p) \/ StartFill(p) PROVE SlotRowSteps /\ LeaseRowSteps
    BY <1>1, <1>2, <2>9 DEF ReapFill, StartFill
  <2> QED BY <1>6, <2>1, <2>2, <2>3, <2>4, <2>5, <2>6, <2>7, <2>8, <2>9 DEF Controller
<1>7. CASE FillTasks
  <2>1. ASSUME NEW p \in Pools, FillLock(p) \/ FillReserved(p) \/ FillPrepare(p)
                                \/ FillBatchFails(p) \/ FillDone(p)
        PROVE  SlotRowSteps /\ LeaseRowSteps
    BY <1>1, <1>2, <2>1 DEF FillLock, FillReserved, FillPrepare, FillBatchFails, FillDone
  <2>2. ASSUME NEW p \in Pools, NEW m \in Machines, FillBoot(p, m) \/ FillBootFails(p, m)
        PROVE  SlotRowSteps /\ LeaseRowSteps
    BY <1>1, <1>2, <2>2 DEF FillBoot, FillBootFails
  <2>3. ASSUME NEW p \in Pools, NEW m \in Machines, FillReserve(p, m)
        PROVE  SlotRowSteps /\ LeaseRowSteps
    <3>1. slots[m] = None /\ pools[p] # None /\ ~pools[p].deleting
      BY <2>3 DEF FillReserve, FreshMachine, HasDeficit
    <3>2. slots'[m] = [pool |-> p, state |-> "provisioning", lease |-> None]
      BY <1>0, <2>3 DEF FillReserve, TypeOK
    <3>3. slots'[m] \in SlotRecord
      BY <3>2 DEF SlotRecord, SlotStates
    <3>4. slots'[m] # None /\ slots'[m].state = "provisioning" /\ slots'[m].pool = p
      BY <3>2, <3>3, NoneIsNoRow
    <3>5. \A n \in Machines \ {m} : slots'[n] = slots[n]
      BY <1>0, <2>3 DEF FillReserve, TypeOK
    <3>6. SlotRowSteps
      BY <3>1, <3>4, <3>5 DEF SlotRowSteps
    <3> QED BY <1>1, <2>3, <3>6 DEF FillReserve
  <2>4. ASSUME NEW p \in Pools, NEW m \in Machines, FillFinish(p, m)
        PROVE  SlotRowSteps /\ LeaseRowSteps
    BY <1>0, <1>1, <2>4, MoveSlotRows DEF FillFinish, SlotStates
  <2>5. ASSUME NEW p \in Pools, NEW m \in Machines, FillRetire(p, m)
        PROVE  SlotRowSteps /\ LeaseRowSteps
    BY <1>0, <1>1, <2>5, RetiredRows DEF FillRetire
  <2> QED BY <1>7, <2>1, <2>2, <2>3, <2>4, <2>5 DEF FillTasks
<1>8. CASE World
  <2>1. CASE Tick
    <3>1. ASSUME NEW l \in Leases, leases[l] # None, leases[l].left > 0
          PROVE  /\ leases'[l] # None /\ leases'[l].pool = leases[l].pool
                 /\ leases'[l].machine = leases[l].machine
                 /\ leases'[l].key = leases[l].key
                 /\ leases'[l].state = leases[l].state
      <4>1. leases[l] \in LeaseRecord
        BY <1>0, <3>1 DEF TypeOK
      <4>2. leases'[l] = [leases[l] EXCEPT !.left = @ - 1]
        BY <2>1, <3>1 DEF Tick
      <4>3. leases'[l] \in LeaseRecord
        BY <3>1, <4>1, <4>2 DEF LeaseRecord
      <4> QED BY <4>1, <4>2, <4>3, NoneIsNoRow DEF LeaseRecord
    <3>2. \A l \in Leases : ~(leases[l] # None /\ leases[l].left > 0) => leases'[l] = leases[l]
      BY <2>1 DEF Tick
    <3>3. LeaseRowSteps
      BY <3>1, <3>2 DEF LeaseRowSteps
    <3> QED BY <1>2, <2>1, <3>3 DEF Tick
  <2>2. CASE Restart
    BY <1>1, <1>2, <2>2 DEF Restart, db
  <2>3. ASSUME NEW p \in Pools, BackoffElapses(p) PROVE SlotRowSteps /\ LeaseRowSteps
    BY <1>1, <1>2, <2>3 DEF BackoffElapses
  <2>4. ASSUME NEW m \in Machines,
               WorkerExits(m) \/ UserDeletes(m) \/ PauseWorker(m) \/ ResumeWorker(m)
        PROVE  SlotRowSteps /\ LeaseRowSteps
    BY <1>1, <1>2, <2>4 DEF WorkerExits, UserDeletes, PauseWorker, ResumeWorker
  <2> QED BY <1>8, <2>1, <2>2, <2>3, <2>4 DEF World
<1>9. CASE UNCHANGED vars
  BY <1>1, <1>2, <1>9 DEF vars
<1> QED BY <1>3, <1>4, <1>5, <1>6, <1>7, <1>8, <1>9 DEF Next

-----------------------------------------------------------------------------
(* A pool being deleted only drains *)

\* Every step keeps rows within their pool's life, and a deletion draining.
LEMMA DrainsStep == IInv /\ [Next]_vars => DeletingPoolDrains'
<1> SUFFICES ASSUME IInv, [Next]_vars PROVE DeletingPoolDrains'
  OBVIOUS
<1>0. TypeOK /\ Ownership /\ DeletingPoolDrains
  BY DEF IInv
<1>1. SlotRowSteps /\ LeaseRowSteps /\ TypeOK'
  BY RowSteps, TypeStep DEF IInv
<1>2. ASSUME \A p \in Pools : pools[p] # None =>
                 pools'[p] # None /\ pools'[p].deleting = pools[p].deleting
      PROVE  DeletingPoolDrains'
  <2>1. ASSUME NEW m \in Machines, slots'[m] # None
        PROVE  /\ pools'[slots'[m].pool] # None
               /\ pools'[slots'[m].pool].deleting => slots'[m].state = "retiring"
    <3>1. slots[m] # None => slots[m].pool \in Pools
      BY <1>0 DEF TypeOK, SlotRecord
    <3> QED BY <1>0, <1>1, <1>2, <2>1, <3>1 DEF SlotRowSteps, DeletingPoolDrains
  <2>2. ASSUME NEW l \in Leases, leases'[l] # None
        PROVE  /\ pools'[leases'[l].pool] # None
               /\ pools'[leases'[l].pool].deleting => ~Live(l)'
    <3>1. leases[l] # None => leases[l].pool \in Pools
      BY <1>0 DEF TypeOK, LeaseRecord
    <3> QED BY <1>0, <1>1, <1>2, <2>2, <3>1 DEF LeaseRowSteps, DeletingPoolDrains, Live
  <2> QED BY <2>1, <2>2 DEF DeletingPoolDrains
<1>3. ASSUME pools' = pools PROVE DeletingPoolDrains'
  BY <1>2, <1>3
<1>4. ASSUME NEW p \in Pools, NEW g \in Goldens, NEW n \in Sizes, NEW mx \in MaxActives,
             NEW auto \in Autos, CreatePool(p, g, n, mx, auto)
      PROVE  DeletingPoolDrains'
  <2>1. \A q \in Pools : pools[q] # None => pools'[q] = pools[q]
    BY <1>0, <1>4 DEF CreatePool, TypeOK
  <2> QED BY <1>2, <2>1
<1>5. ASSUME NEW p \in Pools, NEW n \in Sizes, ResizePool(p, n) PROVE DeletingPoolDrains'
  <2>1. pools[p] \in PoolRecord /\ pools'[p] = [pools[p] EXCEPT !.desired = n]
    BY <1>0, <1>5 DEF ResizePool, TypeOK
  <2>2. pools'[p] \in PoolRecord
    BY <2>1, RequestValues DEF PoolRecord
  <2>3. pools'[p] # None /\ pools'[p].deleting = pools[p].deleting
    BY <2>1, <2>2, NoneIsNoRow DEF PoolRecord
  <2>4. \A q \in Pools \ {p} : pools'[q] = pools[q]
    BY <1>0, <1>5 DEF ResizePool, TypeOK
  <2> QED BY <1>2, <2>3, <2>4
<1>6. ASSUME NEW p \in Pools, NEW force \in BOOLEAN, DeletePool(p, force) PROVE DeletingPoolDrains'
  <2>1. pools[p] \in PoolRecord /\ pools'[p] = [pools[p] EXCEPT !.deleting = TRUE]
    BY <1>0, <1>6 DEF DeletePool, TypeOK
  <2>2. pools'[p] \in PoolRecord
    BY <2>1 DEF PoolRecord
  <2>3. pools'[p] # None
    BY <2>2, NoneIsNoRow
  <2>4. \A q \in Pools \ {p} : pools'[q] = pools[q]
    BY <1>0, <1>6 DEF DeletePool, TypeOK
  <2>5. ASSUME NEW m \in Machines, slots'[m] # None
        PROVE  /\ pools'[slots'[m].pool] # None
               /\ pools'[slots'[m].pool].deleting => slots'[m].state = "retiring"
    <3>1. slots'[m] = IF m \in SlotsIn(p, SlotStates) /\ slots[m] # None
                      THEN [slots[m] EXCEPT !.state = "retiring"] ELSE slots[m]
      BY <1>6 DEF DeletePool, Retired
    <3>2. slots[m] \in SlotRecord /\ slots[m] # None
      BY <1>0, <2>5, <3>1 DEF TypeOK
    <3>3. CASE slots[m].pool = p
      <4>1. slots'[m] = [slots[m] EXCEPT !.state = "retiring"]
        BY <3>1, <3>2, <3>3 DEF SlotsIn, SlotRecord
      <4>2. slots'[m].pool = p /\ slots'[m].state = "retiring"
        BY <3>2, <3>3, <4>1 DEF SlotRecord
      <4> QED BY <2>3, <4>2
    <3>4. CASE slots[m].pool # p
      <4>1. slots'[m] = slots[m]
        BY <3>1, <3>4 DEF SlotsIn
      <4> QED BY <1>0, <2>4, <3>2, <3>4, <4>1 DEF DeletingPoolDrains, SlotRecord
    <3> QED BY <3>3, <3>4
  <2>6. ASSUME NEW l \in Leases, leases'[l] # None
        PROVE  /\ pools'[leases'[l].pool] # None
               /\ pools'[leases'[l].pool].deleting => ~Live(l)'
    <3>1. leases'[l] = IF l \in LiveLeases(p) THEN [leases[l] EXCEPT !.state = "cancelled"] ELSE leases[l]
      BY <1>6 DEF DeletePool
    <3>2. leases[l] \in LeaseRecord /\ leases[l] # None
      BY <1>0, <2>6, <3>1 DEF TypeOK, LiveLeases, Live
    <3>3. CASE l \in LiveLeases(p)
      <4>1. leases'[l].pool = p /\ leases'[l].state = "cancelled"
        BY <3>1, <3>2, <3>3 DEF LeaseRecord, LiveLeases
      <4> QED BY <2>3, <4>1 DEF Live, LiveStates
    <3>4. CASE l \notin LiveLeases(p)
      <4>1. leases'[l] = leases[l]
        BY <3>1, <3>4
      <4>2. CASE leases[l].pool = p
        BY <2>3, <3>4, <4>1, <4>2 DEF LiveLeases, Live
      <4>3. CASE leases[l].pool # p
        BY <1>0, <2>4, <3>2, <4>1, <4>3 DEF DeletingPoolDrains, LeaseRecord, Live
      <4> QED BY <4>2, <4>3
    <3> QED BY <3>3, <3>4
  <2> QED BY <2>5, <2>6 DEF DeletingPoolDrains
<1>7. CASE FinalizePools
  <2>1. \A p \in Pools : pools'[p] = IF p \in Drained THEN None ELSE pools[p]
    BY <1>7 DEF FinalizePools
  <2>2. \A l \in Leases : leases'[l] = IF leases[l] # None /\ leases[l].pool \in Drained
                                       THEN None ELSE leases[l]
    BY <1>7 DEF FinalizePools
  <2>3. \A m \in Machines : slots'[m] = slots[m]
                            /\ (slots[m] # None => slots[m].pool \in Pools \ Drained)
    BY <1>0, <1>7 DEF FinalizePools, Drained, SlotsIn, TypeOK, SlotRecord
  <2>4. \A l \in Leases : leases'[l] # None => /\ leases'[l] = leases[l]
                                               /\ leases[l].pool \in Pools \ Drained
    BY <1>0, <2>2 DEF TypeOK, LeaseRecord
  <2> QED BY <1>0, <2>1, <2>3, <2>4 DEF DeletingPoolDrains, Live
<1>8. CASE PoolRequest
  BY <1>4, <1>5, <1>6, <1>8 DEF PoolRequest
<1>9. CASE LeaseRequest
  BY <1>3, <1>9 DEF LeaseRequest, ClaimRefused, Claim, Heartbeat, HeartbeatLookup, CompleteLease
<1>10. CASE Activation
  BY <1>3, <1>10 DEF Activation, ActivateLookup, ActivateCommit, ActivateFail, ActivateLost
<1>11. CASE Controller
  <2>1. CASE ExpireLeases \/ NextPhase \/ PassFails
    BY <1>3, <2>1 DEF ExpireLeases, NextPhase, PassFails
  <2>2. ASSUME NEW m \in Machines,
               RecoverSlot(m) \/ CheckReady(m) \/ DeleteRetired(m) \/ DeleteRetiredFails(m)
        PROVE  DeletingPoolDrains'
    BY <1>3, <2>2 DEF RecoverSlot, CheckReady, DeleteRetired, DeleteRetiredFails
  <2>3. ASSUME NEW l \in Leases, CheckLeased(l) PROVE DeletingPoolDrains'
    BY <1>3, <2>3 DEF CheckLeased
  <2>4. ASSUME NEW p \in Pools, ReapFill(p) \/ StartFill(p) PROVE DeletingPoolDrains'
    BY <1>3, <2>4 DEF ReapFill, StartFill
  <2> QED BY <1>7, <1>11, <2>1, <2>2, <2>3, <2>4 DEF Controller
<1>12. CASE FillTasks
  <2>1. ASSUME NEW p \in Pools,
               FillLock(p) \/ FillReserved(p) \/ FillPrepare(p) \/ FillBatchFails(p) \/ FillDone(p)
        PROVE  DeletingPoolDrains'
    BY <1>3, <2>1 DEF FillLock, FillReserved, FillPrepare, FillBatchFails, FillDone
  <2>2. ASSUME NEW p \in Pools, NEW m \in Machines, FillReserve(p, m) PROVE DeletingPoolDrains'
    BY <1>3, <2>2 DEF FillReserve
  <2>3. ASSUME NEW p \in Pools, NEW m \in Machines,
               FillBoot(p, m) \/ FillBootFails(p, m) \/ FillFinish(p, m) \/ FillRetire(p, m)
        PROVE  DeletingPoolDrains'
    BY <1>3, <2>3 DEF FillBoot, FillBootFails, FillFinish, FillRetire
  <2> QED BY <1>12, <2>1, <2>2, <2>3 DEF FillTasks
<1>13. CASE World
  BY <1>3, <1>13 DEF World, Tick, Restart, db, BackoffElapses, WorkerExits, UserDeletes,
                     PauseWorker, ResumeWorker
<1>14. CASE UNCHANGED vars
  BY <1>3, <1>14 DEF vars
<1> QED BY <1>8, <1>9, <1>10, <1>11, <1>12, <1>13, <1>14 DEF Next

-----------------------------------------------------------------------------
(* What a fill and a listing may still touch *)

\* The workers a fill task is not finished with.
Pending(t) == t.todo \cup t.ok \cup t.bad

\* A fill task whose sets are kept apart.
TidyTask(t) == /\ Pending(t) \subseteq t.batch
               /\ t.todo \cap t.ok = {}
               /\ (t.todo \cup t.ok) \cap t.bad = {}

\* No row turns provisioning, and none leaves provisioning or retiring for
\* another state than retiring, except the rows in X.
CalmSlots(X) ==
    \A m \in Machines \ X :
        slots'[m] # None => \/ slots'[m] = slots[m]
                            \/ slots'[m].state = "retiring"
                            \/ slots[m] # None /\ slots[m].state \in {"ready", "activating", "leased"}

\* The listing of the phase shrinks, or a phase other than recovery and
\* deletion begins, or deletion begins with a listing of retiring rows.
CalmListing ==
    \/ ctl'.pc = ctl.pc /\ ctl'.todo \subseteq ctl.todo
    \/ ctl'.pc \notin {"recover", "delete"}
    \/ /\ ctl'.pc = "delete" /\ slots' = slots
       /\ \A m \in ctl'.todo : slots[m] # None => slots[m].state = "retiring"

\* Steps outside the fills.
LEMMA FillFrame ==
    ASSUME TypeOK, FillOwnsBatch, fill' = fill, CalmSlots({}), CalmListing
    PROVE  FillOwnsBatch'
<1>1. \A p \in Pools : Pending(fill[p]) \subseteq Machines
  BY DEF TypeOK, FillTask, Pending
<1>2. ctl.pc = "delete" => ctl.todo \subseteq Machines
  BY DEF TypeOK
<1>3. ASSUME NEW p \in Pools
      PROVE  \A m \in Pending(fill[p]) : slots'[m] # None => slots'[m].state \in {"provisioning", "retiring"}
  BY <1>1 DEF FillOwnsBatch, CalmSlots, Pending
<1>4. ctl'.pc = "delete" => \A m \in ctl'.todo : slots'[m] # None => slots'[m].state = "retiring"
  BY <1>2 DEF FillOwnsBatch, CalmSlots, CalmListing
<1> QED BY <1>3, <1>4 DEF FillOwnsBatch, CalmListing, Pending

\* Steps of one pool's fill: it keeps its sets apart, adds no worker, and moves a
\* provisioning row to another state than retiring only when it lets go of it.
LEMMA FillChange ==
    ASSUME TypeOK, FillOwnsBatch, NEW p \in Pools, NEW t \in FillTask, NEW X \in SUBSET Pending(fill[p]),
           fill' = [fill EXCEPT ![p] = t], CalmListing, ctl'.pc # "recover",
           TidyTask(t), t.batch \subseteq fill[p].batch, Pending(t) \subseteq Pending(fill[p]) \ X,
           CalmSlots(X),
           \A m \in X : slots[m] # None => slots[m].state = "provisioning" \/ slots'[m] = slots[m],
           \A m \in X : slots[m] = None => slots'[m] = None
    PROVE  FillOwnsBatch'
<1>1. /\ \A q \in Pools : Pending(fill[q]) \subseteq Machines
      /\ Pending(t) \subseteq Machines
      /\ ctl.pc = "delete" => ctl.todo \subseteq Machines
  BY DEF TypeOK, FillTask, Pending
<1>2. fill'[p] = t /\ \A q \in Pools \ {p} : fill'[q] = fill[q]
  BY DEF TypeOK
<1>3. ASSUME NEW q \in Pools
      PROVE  \A m \in Pending(fill'[q]) : slots'[m] # None => slots'[m].state \in {"provisioning", "retiring"}
  <2>1. CASE q = p
    BY <1>1, <1>2, <2>1 DEF FillOwnsBatch, CalmSlots, Pending
  <2>2. CASE q # p
    <3>1. X \cap Pending(fill[q]) = {}
      BY <2>2 DEF FillOwnsBatch, Pending
    <3> QED BY <1>1, <1>2, <2>2, <3>1 DEF FillOwnsBatch, CalmSlots, Pending
  <2> QED BY <2>1, <2>2
<1>4. \A q \in Pools : TidyTask(fill'[q])
  BY <1>2 DEF FillOwnsBatch, TidyTask, Pending
<1>5. \A q, r \in Pools : q # r => fill'[q].batch \cap fill'[r].batch = {}
  BY <1>2 DEF FillOwnsBatch
<1>6. ctl'.pc = "delete" => \A m \in ctl'.todo : slots'[m] # None => slots'[m].state = "retiring"
  BY <1>1 DEF FillOwnsBatch, CalmSlots, CalmListing
<1> QED BY <1>3, <1>4, <1>5, <1>6 DEF FillOwnsBatch, TidyTask, Pending

\* Retirements are calm.
LEMMA RetiredCalm ==
    ASSUME TypeOK, NEW S, NEW X, slots' = Retired(S) PROVE CalmSlots(X)
<1> SUFFICES ASSUME NEW m \in Machines
             PROVE  slots'[m] = slots[m] \/ slots'[m].state = "retiring"
  BY DEF CalmSlots
<1>1. slots'[m] = IF m \in S /\ slots[m] # None
                  THEN [slots[m] EXCEPT !.state = "retiring"] ELSE slots[m]
  BY DEF Retired
<1>2. slots[m] # None => slots[m] \in SlotRecord
  BY DEF TypeOK
<1> QED BY <1>1, <1>2 DEF SlotRecord

\* A transition of a lease moves a row that is activating or leased.
LEMMA TransitionCalm ==
    ASSUME TypeOK, Ownership, NEW l \in Leases, NEW from \in LiveStates, NEW to, NEW slotTo,
           Transition(l, from, to, slotTo)
    PROVE  CalmSlots({})
<1>1. CASE leases[l] # None /\ leases[l].state = from
  <2>1. leases[l].machine \in Machines /\ Live(l)
    BY <1>1 DEF TypeOK, LeaseRecord, Live
  <2>2. /\ slots[leases[l].machine] # None
        /\ slots[leases[l].machine].state \in {"activating", "leased"}
    BY <2>1 DEF Ownership, LeaseOwnsSlot
  <2>3. \A m \in Machines \ {leases[l].machine} : slots'[m] = slots[m]
    BY <1>1, <2>1, <2>2 DEF Transition, TypeOK
  <2> QED BY <2>2, <2>3 DEF CalmSlots
<1>2. CASE slots' = slots
  BY <1>2 DEF CalmSlots
<1> QED BY <1>1, <1>2 DEF Transition

\* So does a change of a row that was ready.
LEMMA MoveSlotCalm ==
    ASSUME TypeOK, NEW m \in Machines, NEW to, MoveSlot(m, "ready", to)
    PROVE  CalmSlots({})
<1>1. CASE slots[m] # None /\ slots[m].state = "ready"
  <2>1. \A n \in Machines \ {m} : slots'[n] = slots[n]
    BY <1>1 DEF MoveSlot, TypeOK
  <2> QED BY <1>1, <2>1 DEF CalmSlots
<1>2. CASE slots' = slots
  BY <1>2 DEF CalmSlots
<1> QED BY <1>1, <1>2 DEF MoveSlot

\* A fill that is not idle runs outside recovery.
LEMMA FillRuns ==
    ASSUME FillOwnsBatch, NEW p \in Pools,
           fill[p].pc # "idle" \/ fill[p].ok # {} \/ fill[p].bad # {}
    PROVE  ctl.pc # "recover"
BY DEF FillOwnsBatch, NoFill

\* Without fills, and in recovery, there is nothing to own.
LEMMA NoFillsOwn ==
    ASSUME \A p \in Pools : fill'[p] = NoFill, ctl'.pc = "recover"
    PROVE  FillOwnsBatch'
<1>1. NoFill.batch = {} /\ NoFill.todo = {} /\ NoFill.ok = {} /\ NoFill.bad = {}
  BY DEF NoFill
<1>2. \A p \in Pools : /\ fill'[p].batch = {} /\ fill'[p].todo = {}
                       /\ fill'[p].ok = {} /\ fill'[p].bad = {}
  BY <1>1
<1> QED BY <1>2 DEF FillOwnsBatch

\* Every step leaves each fill its own workers, and the controller's listings
\* sound: the steps that fills do not take.
LEMMA FillStepOthers ==
    IInv /\ (PoolRequest \/ LeaseRequest \/ Activation \/ Controller \/ World \/ UNCHANGED vars)
    => FillOwnsBatch'
<1> SUFFICES ASSUME IInv,
                    PoolRequest \/ LeaseRequest \/ Activation \/ Controller \/ World \/ UNCHANGED vars
             PROVE  FillOwnsBatch'
  OBVIOUS
<1>0. TypeOK /\ Ownership /\ FillOwnsBatch
  BY DEF IInv
<1>1. ASSUME fill' = fill, ctl' = ctl, CalmSlots({}) PROVE FillOwnsBatch'
  BY <1>0, <1>1, FillFrame DEF CalmListing
<1>2. ASSUME slots' = slots PROVE CalmSlots({})
  BY <1>2 DEF CalmSlots
<1>3. CASE PoolRequest
  <2>1. ASSUME NEW p \in Pools, NEW g \in Goldens, NEW n \in Sizes, NEW mx \in MaxActives,
               NEW auto \in Autos, CreatePool(p, g, n, mx, auto)
        PROVE  FillOwnsBatch'
    BY <1>1, <1>2, <2>1 DEF CreatePool
  <2>2. ASSUME NEW p \in Pools, NEW n \in Sizes, ResizePool(p, n) PROVE FillOwnsBatch'
    BY <1>0, <1>1, <2>2, RetiredCalm DEF ResizePool
  <2>3. ASSUME NEW p \in Pools, NEW force \in BOOLEAN, DeletePool(p, force) PROVE FillOwnsBatch'
    BY <1>0, <1>1, <2>3, RetiredCalm DEF DeletePool
  <2> QED BY <1>3, <2>1, <2>2, <2>3 DEF PoolRequest
<1>4. CASE LeaseRequest
  <2>1. ASSUME NEW p \in Pools, NEW k \in Keys, ClaimRefused(p, k) PROVE FillOwnsBatch'
    BY <1>0, <1>1, <2>1, RetiredCalm DEF ClaimRefused
  <2>2. ASSUME NEW p \in Pools, NEW k \in Keys, NEW l \in Leases, Claim(p, k, l)
        PROVE  FillOwnsBatch'
    <3>1. PICK m \in Claimable(p), passed \in SUBSET Unclaimable(p) :
            slots' = [Retired(passed) EXCEPT ![m].state = "activating", ![m].lease = l]
      BY <2>2 DEF Claim
    <3>2. m \in Machines /\ slots[m] # None /\ slots[m].state = "ready"
      BY DEF Claimable, SlotsIn
    <3>3. ASSUME NEW n \in Machines \ {m}
          PROVE  slots'[n] = slots[n] \/ slots'[n].state = "retiring"
      <4>1. slots'[n] = IF n \in passed /\ slots[n] # None
                        THEN [slots[n] EXCEPT !.state = "retiring"] ELSE slots[n]
        BY <3>1 DEF Retired
      <4>2. slots[n] # None => slots[n] \in SlotRecord
        BY <1>0 DEF TypeOK
      <4> QED BY <4>1, <4>2 DEF SlotRecord
    <3>4. CalmSlots({})
      BY <3>2, <3>3 DEF CalmSlots
    <3> QED BY <1>1, <2>2, <3>4 DEF Claim
  <2>3. ASSUME NEW l \in Leases, Heartbeat(l) PROVE FillOwnsBatch'
    BY <1>1, <1>2, <2>3 DEF Heartbeat
  <2>4. ASSUME NEW l \in Leases, HeartbeatLookup(l) PROVE FillOwnsBatch'
    BY <1>0, <1>1, <1>2, <2>4, TransitionCalm DEF HeartbeatLookup, LiveStates
  <2>5. ASSUME NEW l \in Leases, CompleteLease(l) PROVE FillOwnsBatch'
    BY <1>0, <1>1, <2>5, TransitionCalm DEF CompleteLease, LiveStates
  <2> QED BY <1>4, <2>1, <2>2, <2>3, <2>4, <2>5 DEF LeaseRequest
<1>5. CASE Activation
  <2> SUFFICES ASSUME NEW l \in Leases,
                      ActivateLookup(l) \/ ActivateCommit(l) \/ ActivateFail(l) \/ ActivateLost(l)
               PROVE  FillOwnsBatch'
    BY <1>5 DEF Activation
  <2>1. CASE ActivateLookup(l)
    BY <1>0, <1>1, <1>2, <2>1, TransitionCalm DEF ActivateLookup, LiveStates
  <2>2. CASE ActivateCommit(l)
    BY <1>0, <1>1, <2>2, TransitionCalm DEF ActivateCommit, LiveStates
  <2>3. CASE ActivateFail(l)
    BY <1>0, <1>1, <2>3, TransitionCalm DEF ActivateFail, LiveStates
  <2>4. CASE ActivateLost(l)
    BY <1>1, <1>2, <2>4 DEF ActivateLost
  <2> QED BY <2>1, <2>2, <2>3, <2>4
<1>6. CASE Controller
  <2>0. ctl \in [pc : CtlSteps, todo : SUBSET (Machines \cup Leases \cup Pools)]
    BY <1>0 DEF TypeOK
  <2>1. CASE ExpireLeases
    <3>1. CalmListing
      BY <2>1 DEF ExpireLeases, CalmListing
    <3> QED BY <1>0, <2>1, <3>1, RetiredCalm, FillFrame DEF ExpireLeases
  <2>2. CASE FinalizePools
    <3>1. CalmListing
      BY <2>2 DEF FinalizePools, CalmListing
    <3> QED BY <1>0, <1>2, <2>2, <3>1, FillFrame DEF FinalizePools
  <2>3. CASE NextPhase
    <3>1. slots' = slots /\ fill' = fill
      BY <2>3 DEF NextPhase
    <3>2. CalmListing
      BY <2>3, <3>1 DEF NextPhase, CalmListing
    <3> QED BY <1>0, <1>2, <3>1, <3>2, FillFrame
  <2>4. CASE PassFails
    <3>1. CalmListing
      BY <2>4 DEF PassFails, CalmListing
    <3> QED BY <1>0, <1>2, <2>4, <3>1, FillFrame DEF PassFails
  <2>5. ASSUME NEW m \in Machines, RecoverSlot(m) PROVE FillOwnsBatch'
    <3>1. ctl.pc = "recover" /\ fill' = fill /\ ctl'.pc = "recover"
      BY <2>0, <2>5 DEF RecoverSlot
    <3>2. \A p \in Pools : fill'[p] = NoFill
      BY <1>0, <3>1 DEF FillOwnsBatch
    <3> QED BY <3>1, <3>2, NoFillsOwn
  <2>6. ASSUME NEW m \in Machines, CheckReady(m) PROVE FillOwnsBatch'
    <3>1. CalmListing
      BY <2>0, <2>6 DEF CheckReady, CalmListing
    <3>2. CalmSlots({})
      BY <1>0, <1>2, <2>6, MoveSlotCalm DEF CheckReady
    <3> QED BY <1>0, <2>6, <3>1, <3>2, FillFrame DEF CheckReady
  <2>7. ASSUME NEW m \in Machines, DeleteRetired(m) PROVE FillOwnsBatch'
    <3>1. CalmListing
      BY <2>0, <2>7 DEF DeleteRetired, CalmListing
    <3>2. CalmSlots({})
      BY <1>0, <2>7 DEF DeleteRetired, CalmSlots, TypeOK
    <3> QED BY <1>0, <2>7, <3>1, <3>2, FillFrame DEF DeleteRetired
  <2>8. ASSUME NEW m \in Machines, DeleteRetiredFails(m) PROVE FillOwnsBatch'
    <3>1. CalmListing
      BY <2>0, <2>8 DEF DeleteRetiredFails, CalmListing
    <3> QED BY <1>0, <1>2, <2>8, <3>1, FillFrame DEF DeleteRetiredFails
  <2>9. ASSUME NEW l \in Leases, CheckLeased(l) PROVE FillOwnsBatch'
    <3>1. CalmListing
      BY <2>0, <2>9 DEF CheckLeased, CalmListing
    <3>2. CalmSlots({})
      BY <1>0, <1>2, <2>9, TransitionCalm DEF CheckLeased, LiveStates
    <3> QED BY <1>0, <2>9, <3>1, <3>2, FillFrame DEF CheckLeased
  <2>10. ASSUME NEW p \in Pools, ReapFill(p) PROVE FillOwnsBatch'
    <3>1. NoFill \in FillTask /\ TidyTask(NoFill) /\ Pending(NoFill) = {} /\ NoFill.batch = {}
      BY DEF NoFill, FillTask, FillSteps, TidyTask, Pending
    <3>2. fill' = [fill EXCEPT ![p] = NoFill] /\ CalmListing /\ ctl'.pc # "recover"
      BY <2>10 DEF ReapFill, CalmListing
    <3>3. CalmSlots({})
      BY <1>2, <2>10 DEF ReapFill
    <3> QED BY <1>0, <3>1, <3>2, <3>3, FillChange
  <2>11. ASSUME NEW p \in Pools, StartFill(p) PROVE FillOwnsBatch'
    <3> DEFINE t == [NoFill EXCEPT !.pc = "queued", !.golden = pools[p].golden]
    <3>1. CalmListing /\ ctl'.pc # "recover"
      BY <2>0, <2>11 DEF StartFill, CalmListing
    <3>2. CalmSlots({})
      BY <1>2, <2>11 DEF StartFill
    <3>3. CASE fill' = fill
      BY <1>0, <3>1, <3>2, <3>3, FillFrame
    <3>4. CASE HasDeficit(p) /\ fill' = [fill EXCEPT ![p] = t]
      <4>1. pools[p].golden \in Goldens
        BY <1>0, <3>4 DEF HasDeficit, TypeOK, PoolRecord
      <4>2. t \in FillTask /\ t.batch = {} /\ t.todo = {} /\ t.ok = {} /\ t.bad = {}
        BY <4>1 DEF NoFill, FillTask, FillSteps
      <4>3. TidyTask(t) /\ Pending(t) = {}
        BY <4>2 DEF TidyTask, Pending
      <4> HIDE DEF t
      <4> QED BY <1>0, <3>1, <3>2, <3>4, <4>2, <4>3, FillChange
    <3> QED BY <2>11, <3>3, <3>4 DEF StartFill
  <2> QED BY <1>6, <2>1, <2>2, <2>3, <2>4, <2>5, <2>6, <2>7, <2>8, <2>9, <2>10, <2>11 DEF Controller
<1>7. CASE World
  <2>1. CASE Tick
    BY <1>1, <1>2, <2>1 DEF Tick
  <2>2. CASE Restart
    <3>1. (\A p \in Pools : fill'[p] = NoFill) /\ ctl'.pc = "recover"
      BY <2>2 DEF Restart
    <3> QED BY <3>1, NoFillsOwn
  <2>3. ASSUME NEW p \in Pools, BackoffElapses(p) PROVE FillOwnsBatch'
    BY <1>1, <1>2, <2>3 DEF BackoffElapses
  <2>4. ASSUME NEW m \in Machines,
               WorkerExits(m) \/ UserDeletes(m) \/ PauseWorker(m) \/ ResumeWorker(m)
        PROVE  FillOwnsBatch'
    BY <1>1, <1>2, <2>4 DEF WorkerExits, UserDeletes, PauseWorker, ResumeWorker
  <2> QED BY <1>7, <2>1, <2>2, <2>3, <2>4 DEF World
<1>8. CASE UNCHANGED vars
  BY <1>1, <1>2, <1>8 DEF vars
<1> QED BY <1>3, <1>4, <1>5, <1>6, <1>7, <1>8

\* The same, of the steps the fills take.
LEMMA FillStepFills == IInv /\ FillTasks => FillOwnsBatch'
<1> SUFFICES ASSUME IInv, FillTasks PROVE FillOwnsBatch'
  OBVIOUS
<1>0. TypeOK /\ FillOwnsBatch
  BY DEF IInv
<1>1. ASSUME slots' = slots, NEW X PROVE CalmSlots(X)
  BY <1>1 DEF CalmSlots
<1>2. ASSUME NEW p \in Pools, fill[p].pc # "idle" \/ fill[p].ok # {} \/ fill[p].bad # {}, ctl' = ctl
      PROVE  CalmListing /\ ctl'.pc # "recover"
  BY <1>0, <1>2, FillRuns DEF CalmListing
<1>3. \A p \in Pools : fill[p] \in FillTask /\ TidyTask(fill[p])
  BY <1>0 DEF TypeOK, FillOwnsBatch, TidyTask, Pending
<1>4. ASSUME NEW p \in Pools, FillLock(p) \/ FillReserved(p) \/ FillPrepare(p)
      PROVE  FillOwnsBatch'
  <2>1. PICK s \in FillSteps : fill' = [fill EXCEPT ![p].pc = s]
    BY <1>4 DEF FillLock, FillReserved, FillPrepare, FillSteps
  <2> DEFINE t == [fill[p] EXCEPT !.pc = s]
  <2>2. fill[p].pc # "idle" /\ ctl' = ctl /\ slots' = slots
    BY <1>4 DEF FillLock, FillReserved, FillPrepare
  <2>3. /\ t \in FillTask /\ t.batch = fill[p].batch
        /\ t.todo = fill[p].todo /\ t.ok = fill[p].ok /\ t.bad = fill[p].bad
    BY <1>3 DEF FillTask
  <2>4. fill' = [fill EXCEPT ![p] = t]
    BY <1>0, <2>1 DEF TypeOK
  <2> HIDE DEF t
  <2>5. TidyTask(t) /\ Pending(t) = Pending(fill[p])
    BY <1>3, <2>3 DEF TidyTask, Pending
  <2>6. CalmListing /\ ctl'.pc # "recover" /\ CalmSlots({})
    BY <1>1, <1>2, <2>2
  <2> QED BY <1>0, <2>3, <2>4, <2>5, <2>6, FillChange
<1>5. ASSUME NEW p \in Pools, FillBatchFails(p) PROVE FillOwnsBatch'
  <2> DEFINE t == [fill[p] EXCEPT !.pc = "drain", !.bad = fill[p].todo, !.todo = {}]
  <2>2. fill[p].pc = "source" /\ ctl' = ctl /\ slots' = slots
    BY <1>5 DEF FillBatchFails
  <2>3. /\ t \in FillTask /\ t.batch = fill[p].batch
        /\ t.todo = {} /\ t.ok = fill[p].ok /\ t.bad = fill[p].todo
    BY <1>3 DEF FillTask, FillSteps
  <2>4. fill' = [fill EXCEPT ![p] = t]
    BY <1>0, <1>5 DEF FillBatchFails, TypeOK
  <2> HIDE DEF t
  <2>5. TidyTask(t) /\ Pending(t) \subseteq Pending(fill[p])
    BY <1>3, <2>3 DEF TidyTask, Pending
  <2>6. CalmListing /\ ctl'.pc # "recover" /\ CalmSlots({})
    BY <1>1, <1>2, <2>2
  <2> QED BY <1>0, <2>3, <2>4, <2>5, <2>6, FillChange
<1>6. ASSUME NEW p \in Pools, FillDone(p) PROVE FillOwnsBatch'
  <2> DEFINE t == [fill[p] EXCEPT !.pc = "done", !.batch = {}]
  <2>2. fill[p].pc # "idle" /\ ctl' = ctl /\ slots' = slots
    BY <1>6 DEF FillDone
  <2>3. t \in FillTask /\ t.batch = {} /\ t.todo = {} /\ t.ok = {} /\ t.bad = {}
    BY <1>3, <1>6 DEF FillTask, FillSteps, FillDone
  <2>4. fill' = [fill EXCEPT ![p] = t]
    BY <1>0, <1>6 DEF FillDone, TypeOK
  <2> HIDE DEF t
  <2>5. TidyTask(t) /\ Pending(t) = {}
    BY <2>3 DEF TidyTask, Pending
  <2>6. CalmListing /\ ctl'.pc # "recover" /\ CalmSlots({})
    BY <1>1, <1>2, <2>2
  <2> QED BY <1>0, <2>3, <2>4, <2>5, <2>6, FillChange
<1>7. ASSUME NEW p \in Pools, NEW m \in Machines, FillBoot(p, m) PROVE FillOwnsBatch'
  <2> DEFINE t == [fill[p] EXCEPT !.pc = "drain", !.todo = @ \ {m}, !.ok = @ \cup {m}]
  <2>2. fill[p].pc # "idle" /\ m \in fill[p].todo /\ ctl' = ctl /\ slots' = slots
    BY <1>7 DEF FillBoot
  <2>3. /\ t \in FillTask /\ t.batch = fill[p].batch
        /\ t.todo = fill[p].todo \ {m} /\ t.ok = fill[p].ok \cup {m} /\ t.bad = fill[p].bad
    BY <1>3 DEF FillTask, FillSteps
  <2>4. fill' = [fill EXCEPT ![p] = t]
    BY <1>0, <1>7 DEF FillBoot, TypeOK
  <2> HIDE DEF t
  <2>5. TidyTask(t) /\ Pending(t) = Pending(fill[p])
    BY <1>3, <2>2, <2>3 DEF TidyTask, Pending
  <2>6. CalmListing /\ ctl'.pc # "recover" /\ CalmSlots({})
    BY <1>1, <1>2, <2>2
  <2> QED BY <1>0, <2>3, <2>4, <2>5, <2>6, FillChange
<1>8. ASSUME NEW p \in Pools, NEW m \in Machines, FillBootFails(p, m) PROVE FillOwnsBatch'
  <2> DEFINE t == [fill[p] EXCEPT !.todo = @ \ {m}, !.bad = @ \cup {m}]
  <2>2. fill[p].pc # "idle" /\ m \in fill[p].todo /\ ctl' = ctl /\ slots' = slots
    BY <1>8 DEF FillBootFails
  <2>3. /\ t \in FillTask /\ t.batch = fill[p].batch
        /\ t.todo = fill[p].todo \ {m} /\ t.ok = fill[p].ok /\ t.bad = fill[p].bad \cup {m}
    BY <1>3 DEF FillTask
  <2>4. fill' = [fill EXCEPT ![p] = t]
    BY <1>0, <1>8 DEF FillBootFails, TypeOK
  <2> HIDE DEF t
  <2>5. TidyTask(t) /\ Pending(t) = Pending(fill[p])
    BY <1>3, <2>2, <2>3 DEF TidyTask, Pending
  <2>6. CalmListing /\ ctl'.pc # "recover" /\ CalmSlots({})
    BY <1>1, <1>2, <2>2
  <2> QED BY <1>0, <2>3, <2>4, <2>5, <2>6, FillChange
<1>9. ASSUME NEW p \in Pools, NEW m \in Machines, FillFinish(p, m) PROVE FillOwnsBatch'
  <2>1. m \in fill[p].ok /\ ctl' = ctl /\ MoveSlot(m, "provisioning", "ready")
    BY <1>9 DEF FillFinish
  <2>2. CalmListing /\ ctl'.pc # "recover"
    BY <1>2, <2>1
  <2>3. CASE slots[m] # None /\ slots[m].state = "provisioning"
    <3> DEFINE t == [fill[p] EXCEPT !.ok = @ \ {m}, !.ready = TRUE]
    <3>1. /\ t \in FillTask /\ t.batch = fill[p].batch
          /\ t.todo = fill[p].todo /\ t.ok = fill[p].ok \ {m} /\ t.bad = fill[p].bad
      BY <1>3 DEF FillTask
    <3>2. fill' = [fill EXCEPT ![p] = t]
      BY <1>0, <1>9, <2>3 DEF FillFinish, TypeOK
    <3> HIDE DEF t
    <3>3. TidyTask(t) /\ Pending(t) \subseteq Pending(fill[p]) \ {m}
      BY <1>3, <2>1, <3>1 DEF TidyTask, Pending
    <3>4. {m} \in SUBSET Pending(fill[p])
      BY <2>1 DEF Pending
    <3>5. CalmSlots({m})
      BY <1>0, <2>1, <2>3 DEF CalmSlots, MoveSlot, TypeOK
    <3> QED BY <1>0, <2>2, <2>3, <3>1, <3>2, <3>3, <3>4, <3>5, FillChange
  <2>4. CASE ~(slots[m] # None /\ slots[m].state = "provisioning")
    <3> DEFINE t == [fill[p] EXCEPT !.ok = @ \ {m}, !.bad = @ \cup {m}]
    <3>1. /\ t \in FillTask /\ t.batch = fill[p].batch
          /\ t.todo = fill[p].todo /\ t.ok = fill[p].ok \ {m} /\ t.bad = fill[p].bad \cup {m}
      BY <1>3 DEF FillTask
    <3>2. fill' = [fill EXCEPT ![p] = t]
      BY <1>0, <1>9, <2>4 DEF FillFinish, TypeOK
    <3> HIDE DEF t
    <3>3. TidyTask(t) /\ Pending(t) = Pending(fill[p])
      BY <1>3, <2>1, <3>1 DEF TidyTask, Pending
    <3>4. CalmSlots({})
      BY <1>1, <2>1, <2>4 DEF MoveSlot
    <3> QED BY <1>0, <2>2, <3>1, <3>2, <3>3, <3>4, FillChange
  <2> QED BY <2>3, <2>4
<1>10. ASSUME NEW p \in Pools, NEW m \in Machines, FillRetire(p, m) PROVE FillOwnsBatch'
  <2> DEFINE t == [fill[p] EXCEPT !.bad = @ \ {m}, !.failed = TRUE]
  <2>1. m \in fill[p].bad /\ ctl' = ctl /\ slots' = Retired({m})
    BY <1>10 DEF FillRetire
  <2>2. CalmListing /\ ctl'.pc # "recover" /\ CalmSlots({})
    BY <1>0, <1>2, <2>1, RetiredCalm
  <2>3. /\ t \in FillTask /\ t.batch = fill[p].batch
        /\ t.todo = fill[p].todo /\ t.ok = fill[p].ok /\ t.bad = fill[p].bad \ {m}
    BY <1>3 DEF FillTask
  <2>4. fill' = [fill EXCEPT ![p] = t]
    BY <1>0, <1>10 DEF FillRetire, TypeOK
  <2> HIDE DEF t
  <2>5. TidyTask(t) /\ Pending(t) \subseteq Pending(fill[p])
    BY <1>3, <2>3 DEF TidyTask, Pending
  <2> QED BY <1>0, <2>2, <2>3, <2>4, <2>5, FillChange
<1>11. ASSUME NEW p \in Pools, NEW m \in Machines, FillReserve(p, m) PROVE FillOwnsBatch'
  <2> DEFINE t == [fill[p] EXCEPT !.todo = @ \cup {m}, !.batch = @ \cup {m}]
  <2>1. /\ fill[p].pc = "reserve" /\ ctl' = ctl /\ slots[m] = None /\ m \notin ctl.todo
        /\ \A q \in Pools : m \notin fill[q].batch
    BY <1>11 DEF FillReserve, FreshMachine
  <2>2. ctl.pc # "recover"
    BY <1>0, <2>1, FillRuns
  <2>3. /\ t.batch = fill[p].batch \cup {m} /\ t.todo = fill[p].todo \cup {m}
        /\ t.ok = fill[p].ok /\ t.bad = fill[p].bad
    BY <1>3 DEF FillTask
  <2>4. fill'[p] = t /\ \A q \in Pools \ {p} : fill'[q] = fill[q]
    BY <1>0, <1>11 DEF FillReserve, TypeOK
  <2> HIDE DEF t
  <2>5. /\ slots'[m] = [pool |-> p, state |-> "provisioning", lease |-> None]
        /\ \A n \in Machines \ {m} : slots'[n] = slots[n]
    BY <1>0, <1>11 DEF FillReserve, TypeOK
  <2>6. slots'[m].state = "provisioning"
    BY <2>5
  <2>7. \A q \in Pools : Pending(fill[q]) \subseteq Machines
    BY <1>3 DEF Pending, FillTask
  <2>8. \A q \in Pools : TidyTask(fill'[q])
    BY <1>3, <2>1, <2>3, <2>4 DEF TidyTask, Pending
  <2>9. \A q, r \in Pools : q # r => fill'[q].batch \cap fill'[r].batch = {}
    BY <1>0, <2>1, <2>3, <2>4 DEF FillOwnsBatch
  <2>10. ASSUME NEW q \in Pools
         PROVE  \A n \in Pending(fill'[q]) : slots'[n] # None => slots'[n].state \in {"provisioning", "retiring"}
    <3>1. Pending(fill'[q]) \subseteq Pending(fill[q]) \cup {m}
      BY <2>3, <2>4 DEF Pending
    <3> QED BY <1>0, <2>5, <2>6, <2>7, <3>1 DEF FillOwnsBatch, Pending
  <2>11. ctl'.pc = "delete" => \A n \in ctl'.todo : slots'[n] # None => slots'[n].state = "retiring"
    BY <1>0, <2>1, <2>5 DEF FillOwnsBatch, TypeOK
  <2> QED BY <2>1, <2>2, <2>8, <2>9, <2>10, <2>11 DEF FillOwnsBatch, TidyTask, Pending
<1> QED BY <1>4, <1>5, <1>6, <1>7, <1>8, <1>9, <1>10, <1>11 DEF FillTasks

-----------------------------------------------------------------------------
(* The invariant and what follows from it *)

\* The server starts with empty tables.
LEMMA InvInit == Init => IInv
<1> SUFFICES ASSUME Init PROVE IInv
  OBVIOUS
<1>1. TypeOK
  BY TypeInit
<1>2. Ownership
  BY DEF Init, Ownership, LeaseOwnsSlot, OneLeasePerWorker, Live
<1>3. DeletingPoolDrains
  BY DEF Init, DeletingPoolDrains
<1>4. \A p \in Pools : fill[p] = NoFill
  BY DEF Init
<1>5. NoFill.batch = {} /\ NoFill.todo = {} /\ NoFill.ok = {} /\ NoFill.bad = {}
  BY DEF NoFill
<1>6. ctl.pc = "recover"
  BY DEF Init
<1>7. FillOwnsBatch
  BY <1>4, <1>5, <1>6 DEF FillOwnsBatch
<1> QED BY <1>1, <1>2, <1>3, <1>7 DEF IInv

\* No step of any actor breaks the invariant.
LEMMA InvStep == IInv /\ [Next]_vars => IInv'
<1> SUFFICES ASSUME IInv, [Next]_vars PROVE IInv'
  OBVIOUS
<1>1. FillOwnsBatch'
  BY FillStepOthers, FillStepFills DEF Next
<1> QED BY <1>1, TypeStep, OwnershipStep, DrainsStep DEF IInv

\* So it holds in every reachable state.
LEMMA Invariance == Spec => []IInv
BY InvInit, InvStep, PTL DEF Spec

\* A live lease owns exactly the slot that names it, in the matching state, and
\* no other slot is activating or leased: claims, activations, heartbeats,
\* completions, expiries, resizes, deletions, fills and restarts in any order.
THEOREM LeasesOwnTheirSlots == Spec => []LeaseOwnsSlot
<1>1. IInv => LeaseOwnsSlot
  BY DEF IInv, Ownership
<1> QED BY <1>1, Invariance, PTL

\* A worker serves one lease in its life, and is never offered again after it.
THEOREM WorkersAreOneShot == Spec => []OneLeasePerWorker
<1>1. IInv => OneLeasePerWorker
  BY DEF IInv, Ownership
<1> QED BY <1>1, Invariance, PTL

\* A pool being deleted holds retiring workers and ended leases only, and no row
\* of either table outlives its pool.
THEOREM DeletionDrains == Spec => []DeletingPoolDrains
<1>1. IInv => DeletingPoolDrains
  BY DEF IInv
<1> QED BY <1>1, Invariance, PTL

\* Fills never share a worker, never hold one that was handed out, and what the
\* controller listed for deletion is retiring or gone when it gets there.
THEOREM FillsOwnTheirBatches == Spec => []FillOwnsBatch
<1>1. IInv => FillOwnsBatch
  BY DEF IInv
<1> QED BY <1>1, Invariance, PTL

\* No step takes a retiring worker back into service.
THEOREM RetiringWorkersStay == Spec => RetiringIsFinal
<1>1. IInv /\ [Next]_vars =>
        [\A m \in Machines : slots[m] # None /\ slots[m].state = "retiring" =>
            slots'[m] = None \/ (slots'[m] # None /\ slots'[m].state = "retiring")]_vars
  BY RowSteps DEF SlotRowSteps
<1> QED BY <1>1, Invariance, PTL DEF Spec, RetiringIsFinal

\* No step revives a lease that ended or changes its outcome.
THEOREM EndedLeasesStay == Spec => EndedLeaseStays
<1>1. IInv /\ [Next]_vars =>
        [\A l \in Leases : leases[l] # None /\ leases[l].state \in EndStates =>
            \/ leases'[l] # None /\ leases'[l].state = leases[l].state
            \/ leases'[l] = None /\ pools'[leases[l].pool] = None]_vars
  BY RowSteps DEF LeaseRowSteps, Live, LiveStates, EndStates
<1> QED BY <1>1, Invariance, PTL DEF Spec, EndedLeaseStays
=============================================================================
