--------------------------- MODULE ForkPoolPromise ---------------------------
(***************************************************************************)
(* What the fork pools owe their clients, proved from the invariant of     *)
(* ForkPoolProofs: one worker per idempotency key, workers of the pool's   *)
(* own golden, the pool's and the device's limits, and the refinement of   *)
(* OneShot.                                                                *)
(***************************************************************************)
EXTENDS ForkPoolProofs, FiniteSetTheorems

-----------------------------------------------------------------------------
(* The few steps that do more than end leases and retire workers *)

\* A step that adds and removes no row of the two tables, opens no lease and
\* moves none back.
Quiet ==
    /\ \A m \in Machines : slots'[m] = None <=> slots[m] = None
    /\ \A l \in Leases : leases'[l] = None <=> leases[l] = None
    /\ \A l \in Leases : leases'[l] # None /\ leases'[l].state \in LiveStates =>
           leases'[l].state = leases[l].state

\* Retiring workers neither adds nor removes a slot row.
LEMMA RetiredQuiet ==
    ASSUME TypeOK, NEW S, slots' = Retired(S)
    PROVE  \A m \in Machines : slots'[m] = None <=> slots[m] = None
<1> SUFFICES ASSUME NEW m \in Machines PROVE slots'[m] = None <=> slots[m] = None
  OBVIOUS
<1>1. slots'[m] = IF m \in S /\ slots[m] # None
                  THEN [slots[m] EXCEPT !.state = "retiring"] ELSE slots[m]
  BY DEF Retired
<1>2. ASSUME slots[m] # None PROVE [slots[m] EXCEPT !.state = "retiring"] # None
  <2>1. slots[m] \in SlotRecord
    BY <1>2 DEF TypeOK
  <2>2. [slots[m] EXCEPT !.state = "retiring"] \in SlotRecord
    BY <2>1 DEF SlotRecord, SlotStates
  <2> QED BY <2>2, NoneIsNoRow
<1> QED BY <1>1, <1>2

\* Neither does update_fork_pool_slot_state.
LEMMA MoveSlotQuiet ==
    ASSUME TypeOK, NEW m \in Machines, NEW from, NEW to \in SlotStates, MoveSlot(m, from, to)
    PROVE  \A n \in Machines : slots'[n] = None <=> slots[n] = None
<1>1. CASE slots' = slots
  BY <1>1
<1>2. CASE slots[m] # None /\ slots[m].state = from
  <2>1. slots' = [slots EXCEPT ![m] = [slots[m] EXCEPT !.state = to]]
    BY <1>2 DEF MoveSlot
  <2>2. slots[m] \in SlotRecord
    BY <1>2 DEF TypeOK
  <2>3. [slots[m] EXCEPT !.state = to] \in SlotRecord
    BY <2>2 DEF SlotRecord
  <2> QED BY <1>2, <2>1, <2>3, NoneIsNoRow DEF TypeOK
<1> QED BY <1>1, <1>2 DEF MoveSlot

\* A transition that ends a lease is quiet.
LEMMA TransitionQuiet ==
    ASSUME TypeOK, NEW l \in Leases, NEW from, NEW to \in EndStates, NEW slotTo \in SlotStates,
           Transition(l, from, to, slotTo)
    PROVE  Quiet
<1>1. CASE UNCHANGED <<leases, slots>>
  BY <1>1 DEF Quiet
<1>2. CASE leases[l] # None /\ leases[l].state = from
  <2> DEFINE m == leases[l].machine
             u == [leases[l] EXCEPT !.state = to]
  <2>1. m \in Machines /\ leases[l] \in LeaseRecord
    BY <1>2 DEF TypeOK, LeaseRecord
  <2>2. to # "active"
    BY DEF EndStates
  <2>3. leases' = [leases EXCEPT ![l] = u]
    BY <1>2, <2>1, <2>2 DEF Transition, TypeOK, LeaseRecord
  <2>4. u \in LeaseRecord /\ u.state = to
    BY <2>1 DEF LeaseRecord
  <2>5. u # None
    BY <2>4, NoneIsNoRow
  <2> HIDE DEF u
  <2>6. /\ \A k \in Leases : leases'[k] = None <=> leases[k] = None
        /\ \A k \in Leases : leases'[k] # None /\ leases'[k].state \in LiveStates =>
               leases'[k].state = leases[k].state
    BY <1>2, <2>3, <2>4, <2>5 DEF TypeOK, LiveStates, EndStates
  <2>7. \A n \in Machines : slots'[n] = None <=> slots[n] = None
    <3>1. CASE slots' = slots
      BY <3>1
    <3>2. CASE slots[m] # None
      <4>1. slots[m] \in SlotRecord
        BY <2>1, <3>2 DEF TypeOK
      <4>2. [slots[m] EXCEPT !.state = slotTo] \in SlotRecord
        BY <4>1 DEF SlotRecord
      <4>3. slots' = [slots EXCEPT ![m] = [slots[m] EXCEPT !.state = slotTo]]
        BY <1>2, <3>2 DEF Transition
      <4> QED BY <2>1, <3>2, <4>2, <4>3, NoneIsNoRow DEF TypeOK
    <3> QED BY <1>2, <3>1, <3>2 DEF Transition
  <2> QED BY <2>6, <2>7 DEF Quiet
<1> QED BY <1>1, <1>2 DEF Transition

\* Ending a set of leases, and retiring any workers, is quiet.
LEMMA EndQuiet ==
    ASSUME TypeOK, NEW S \in SUBSET {l \in Leases : leases[l] # None}, NEW s \in EndStates, NEW R,
           leases' = [l \in Leases |-> IF l \in S THEN [leases[l] EXCEPT !.state = s] ELSE leases[l]],
           slots' = Retired(R)
    PROVE  Quiet
<1>1. ASSUME NEW l \in S PROVE leases'[l] # None /\ leases'[l].state = s
  <2>1. leases[l] \in LeaseRecord /\ leases'[l] = [leases[l] EXCEPT !.state = s]
    BY DEF TypeOK
  <2>2. leases'[l] \in LeaseRecord /\ leases'[l].state = s
    BY <2>1 DEF LeaseRecord
  <2> QED BY <2>2, NoneIsNoRow
<1>2. \A l \in Leases \ S : leases'[l] = leases[l]
  OBVIOUS
<1>3. s \notin LiveStates
  BY DEF LiveStates, EndStates
<1> QED BY <1>1, <1>2, <1>3, RetiredQuiet DEF Quiet

\* Every step but a claim, an activation, a reservation, a row's removal and the
\* removal of drained pools is quiet.
LEMMA StepKinds ==
    ASSUME TypeOK, [Next]_vars
    PROVE  \/ Quiet
           \/ \E p \in Pools, k \in Keys, l \in Leases : Claim(p, k, l)
           \/ \E l \in Leases : ActivateCommit(l)
           \/ \E p \in Pools, m \in Machines : FillReserve(p, m)
           \/ \E m \in Machines : DeleteRetired(m)
           \/ FinalizePools
<1>1. ASSUME UNCHANGED leases, \A m \in Machines : slots'[m] = None <=> slots[m] = None
      PROVE  Quiet
  BY <1>1 DEF Quiet
<1>2. ASSUME UNCHANGED <<slots, leases>> PROVE Quiet
  BY <1>2 DEF Quiet
<1>3. ASSUME PoolRequest PROVE Quiet
  <2>1. ASSUME NEW p \in Pools, NEW n \in Sizes, ResizePool(p, n) PROVE Quiet
    BY <1>1, <2>1, RetiredQuiet DEF ResizePool
  <2>2. ASSUME NEW p \in Pools, NEW force \in BOOLEAN, DeletePool(p, force) PROVE Quiet
    <3>1. LiveLeases(p) \in SUBSET {l \in Leases : leases[l] # None}
      BY DEF LiveLeases, Live
    <3> QED BY <2>2, <3>1, EndQuiet DEF DeletePool, EndStates
  <2> QED BY <1>2, <1>3, <2>1, <2>2 DEF PoolRequest, CreatePool
<1>4. ASSUME NEW l \in Leases,
             HeartbeatLookup(l) \/ CompleteLease(l) \/ ActivateLookup(l)
             \/ ActivateFail(l) \/ ActivateLost(l) \/ CheckLeased(l)
      PROVE  Quiet
  BY <1>2, <1>4, TransitionQuiet
     DEF HeartbeatLookup, CompleteLease, ActivateLookup, ActivateFail, ActivateLost, CheckLeased,
         EndStates, SlotStates
<1>5. ASSUME NEW l \in Leases, Heartbeat(l) PROVE Quiet
  <2>1. leases[l] \in LeaseRecord /\ leases' = [leases EXCEPT ![l] = [leases[l] EXCEPT !.left = Ttl]]
    BY <1>5 DEF Heartbeat, TypeOK
  <2>2. /\ [leases[l] EXCEPT !.left = Ttl] \in LeaseRecord
        /\ [leases[l] EXCEPT !.left = Ttl].state = leases[l].state
    BY <2>1, PositiveTimes DEF LeaseRecord
  <2> QED BY <1>5, <2>1, <2>2, NoneIsNoRow DEF Heartbeat, Quiet, TypeOK
<1>6. ASSUME Tick PROVE Quiet
  <2>1. ASSUME NEW l \in Leases, leases[l] # None, leases[l].left > 0
        PROVE  leases'[l] # None /\ leases'[l].state = leases[l].state
    <3>1. leases[l] \in LeaseRecord /\ leases'[l] = [leases[l] EXCEPT !.left = @ - 1]
      BY <1>6, <2>1 DEF Tick, TypeOK
    <3>2. leases'[l] \in LeaseRecord /\ leases'[l].state = leases[l].state
      BY <2>1, <3>1 DEF LeaseRecord
    <3> QED BY <3>2, NoneIsNoRow
  <2>2. \A l \in Leases : ~(leases[l] # None /\ leases[l].left > 0) => leases'[l] = leases[l]
    BY <1>6 DEF Tick
  <2> QED BY <1>6, <2>1, <2>2 DEF Tick, Quiet
<1>7. ASSUME NEW p \in Pools, NEW k \in Keys, ClaimRefused(p, k) PROVE Quiet
  BY <1>1, <1>7, RetiredQuiet DEF ClaimRefused
<1>8. ASSUME ExpireLeases PROVE Quiet
  <2>1. Overdue \in SUBSET {l \in Leases : leases[l] # None}
    BY DEF Overdue, Live
  <2> QED BY <1>8, <2>1, EndQuiet DEF ExpireLeases, EndStates
<1>9. ASSUME NEW m \in Machines, RecoverSlot(m) \/ CheckReady(m) \/ DeleteRetiredFails(m) PROVE Quiet
  <2>1. CASE RecoverSlot(m)
    BY <1>1, <2>1, MoveSlotQuiet DEF RecoverSlot, SlotStates
  <2>2. CASE CheckReady(m)
    BY <1>1, <1>2, <2>2, MoveSlotQuiet DEF CheckReady, SlotStates
  <2>3. CASE DeleteRetiredFails(m)
    BY <1>2, <2>3 DEF DeleteRetiredFails
  <2> QED BY <1>9, <2>1, <2>2, <2>3
<1>10. ASSUME NEW p \in Pools, ReapFill(p) \/ StartFill(p) \/ BackoffElapses(p) PROVE Quiet
  BY <1>2, <1>10 DEF ReapFill, StartFill, BackoffElapses
<1>11. ASSUME NextPhase \/ PassFails \/ Restart PROVE Quiet
  BY <1>2, <1>11 DEF NextPhase, PassFails, Restart, db
<1>12. ASSUME NEW p \in Pools,
              FillLock(p) \/ FillReserved(p) \/ FillPrepare(p) \/ FillBatchFails(p) \/ FillDone(p)
       PROVE  Quiet
  BY <1>2, <1>12 DEF FillLock, FillReserved, FillPrepare, FillBatchFails, FillDone
<1>13. ASSUME NEW p \in Pools, NEW m \in Machines, FillBoot(p, m) \/ FillBootFails(p, m) PROVE Quiet
  BY <1>2, <1>13 DEF FillBoot, FillBootFails
<1>14. ASSUME NEW p \in Pools, NEW m \in Machines, FillFinish(p, m) PROVE Quiet
  BY <1>1, <1>14, MoveSlotQuiet DEF FillFinish, SlotStates
<1>15. ASSUME NEW p \in Pools, NEW m \in Machines, FillRetire(p, m) PROVE Quiet
  BY <1>1, <1>15, RetiredQuiet DEF FillRetire
<1>16. ASSUME NEW m \in Machines,
              WorkerExits(m) \/ UserDeletes(m) \/ PauseWorker(m) \/ ResumeWorker(m)
       PROVE  Quiet
  BY <1>2, <1>16 DEF WorkerExits, UserDeletes, PauseWorker, ResumeWorker
<1>17. ASSUME UNCHANGED vars PROVE Quiet
  BY <1>2, <1>17 DEF vars
<1>18. CASE LeaseRequest
  BY <1>4, <1>5, <1>7, <1>18 DEF LeaseRequest
<1>19. CASE Activation
  BY <1>4, <1>19 DEF Activation
<1>20. CASE Controller
  BY <1>4, <1>8, <1>9, <1>10, <1>11, <1>20 DEF Controller
<1>21. CASE FillTasks
  BY <1>12, <1>13, <1>14, <1>15, <1>21 DEF FillTasks
<1>22. CASE World
  BY <1>6, <1>10, <1>11, <1>16, <1>22 DEF World
<1> QED BY <1>3, <1>17, <1>18, <1>19, <1>20, <1>21, <1>22 DEF Next

-----------------------------------------------------------------------------
(* Where new rows come from *)

\* claim_fork_pool_slot, row by row: one new lease, its worker taken out of the
\* ready ones, and nothing else but retirements.
LEMMA ClaimRows ==
    ASSUME TypeOK, NEW p \in Pools, NEW k \in Keys, NEW l \in Leases, Claim(p, k, l)
    PROVE  /\ leases[l] = None /\ leases'[l] # None
           /\ leases'[l].pool = p /\ leases'[l].key = k /\ leases'[l].state = "activating"
           /\ \A j \in Leases \ {l} : leases'[j] = leases[j]
           /\ \E m \in Claimable(p), passed \in SUBSET Unclaimable(p) :
                /\ m \in Machines /\ m \notin passed
                /\ slots[m] # None /\ slots[m].state = "ready"
                /\ leases'[l].machine = m
                /\ slots'[m] # None /\ slots'[m].state = "activating"
                /\ \A n \in Machines \ {m} : slots'[n] = Retired(passed)[n]
                /\ vms' = [vms EXCEPT ![m].held = FALSE]
<1>1. PICK m \in Claimable(p), passed \in SUBSET Unclaimable(p) :
        /\ slots' = [Retired(passed) EXCEPT ![m].state = "activating", ![m].lease = l]
        /\ vms' = [vms EXCEPT ![m].held = FALSE]
        /\ leases' = [leases EXCEPT ![l] = [pool |-> p, machine |-> m, key |-> k,
                                            state |-> "activating", left |-> Grace]]
  BY DEF Claim
<1>2. m \in Machines /\ slots[m] # None /\ slots[m].state = "ready" /\ m \notin passed
  BY DEF Claimable, Unclaimable, SlotsIn
<1>3. slots'[m] # None /\ slots'[m].state = "activating"
  <2>1. Retired(passed)[m] = slots[m] /\ slots[m] \in SlotRecord
    BY <1>2 DEF Retired, TypeOK
  <2>2. slots'[m] = [slots[m] EXCEPT !.state = "activating", !.lease = l]
    BY <1>1, <1>2, <2>1, RetiredType
  <2>3. slots'[m] \in SlotRecord /\ slots'[m].state = "activating"
    BY <2>1, <2>2 DEF SlotRecord, SlotStates
  <2> QED BY <2>3, NoneIsNoRow
<1>4. \A n \in Machines \ {m} : slots'[n] = Retired(passed)[n]
  BY <1>1, RetiredType
<1>5. leases'[l] = [pool |-> p, machine |-> m, key |-> k, state |-> "activating", left |-> Grace]
  BY <1>1 DEF TypeOK
<1>6. leases'[l] # None
  <2>1. leases'[l] \in LeaseRecord
    BY <1>2, <1>5, PositiveTimes DEF LeaseRecord, LiveStates
  <2> QED BY <2>1, NoneIsNoRow
<1>7. /\ leases'[l].pool = p /\ leases'[l].key = k /\ leases'[l].state = "activating"
      /\ leases'[l].machine = m
  BY <1>5
<1>8. leases[l] = None /\ \A j \in Leases \ {l} : leases'[j] = leases[j]
  BY <1>1 DEF Claim, FreshLease, TypeOK
<1> QED BY <1>1, <1>2, <1>3, <1>4, <1>6, <1>7, <1>8

\* Only a claim inserts a lease.
LEMMA NewLeases ==
    ASSUME TypeOK, [Next]_vars
    PROVE  \/ \A l \in Leases : leases[l] = None => leases'[l] = None
           \/ \E p \in Pools, k \in Keys, l \in Leases : Claim(p, k, l)
<1>1. CASE Quiet
  BY <1>1 DEF Quiet
<1>2. ASSUME NEW l \in Leases, ActivateCommit(l)
      PROVE  \A j \in Leases : leases[j] = None => leases'[j] = None
  BY <1>2 DEF ActivateCommit, Transition, TypeOK
<1>3. ASSUME NEW p \in Pools, NEW m \in Machines, FillReserve(p, m) PROVE leases' = leases
  BY <1>3 DEF FillReserve
<1>4. ASSUME NEW m \in Machines, DeleteRetired(m) PROVE leases' = leases
  BY <1>4 DEF DeleteRetired
<1>5. CASE FinalizePools
  BY <1>5 DEF FinalizePools
<1> QED BY <1>1, <1>2, <1>3, <1>4, <1>5, StepKinds

\* Only a reservation inserts a slot.
LEMMA NewSlots ==
    ASSUME TypeOK, [Next]_vars
    PROVE  \/ \A m \in Machines : slots[m] = None => slots'[m] = None
           \/ \E p \in Pools, m \in Machines : FillReserve(p, m)
<1>1. CASE Quiet
  BY <1>1 DEF Quiet
<1>2. ASSUME NEW l \in Leases, ActivateCommit(l)
      PROVE  \A m \in Machines : slots[m] = None => slots'[m] = None
  <2>1. CASE slots' = slots
    BY <2>1
  <2>2. CASE leases[l] # None /\ slots[leases[l].machine] # None
    BY <1>2, <2>2 DEF ActivateCommit, Transition, TypeOK
  <2> QED BY <1>2, <2>1, <2>2 DEF ActivateCommit, Transition
<1>3. ASSUME NEW m \in Machines, DeleteRetired(m)
      PROVE  \A n \in Machines : slots[n] = None => slots'[n] = None
  BY <1>3 DEF DeleteRetired, TypeOK
<1>4. ASSUME NEW p \in Pools, NEW k \in Keys, NEW l \in Leases, Claim(p, k, l)
      PROVE  \A n \in Machines : slots[n] = None => slots'[n] = None
  BY <1>4, ClaimRows DEF Retired
<1>5. CASE FinalizePools
  BY <1>5 DEF FinalizePools
<1> QED BY <1>1, <1>2, <1>3, <1>4, <1>5, StepKinds

\* A pool's row stays, goes with its drained pool, is created while both other
\* tables stay as they are, or keeps its golden and its max_active; only a resize
\* moves its target.
PoolRowSteps ==
    \A p \in Pools :
        \/ pools'[p] = pools[p]
        \/ pools'[p] = None
        \/ pools[p] = None /\ UNCHANGED <<slots, leases>>
        \/ /\ pools[p] # None /\ pools'[p] # None
           /\ pools'[p].golden = pools[p].golden
           /\ pools'[p].maxActive = pools[p].maxActive
           /\ \/ pools'[p].desired = pools[p].desired
              \/ \E n \in Sizes : ResizePool(p, n) /\ pools'[p].desired = n

\* Every step is one of these to every pool.
LEMMA PoolSteps == ASSUME TypeOK, [Next]_vars PROVE PoolRowSteps
<1>1. ASSUME pools' = pools PROVE PoolRowSteps
  BY <1>1 DEF PoolRowSteps
<1>2. ASSUME NEW p \in Pools, NEW r \in PoolRecord, pools[p] # None,
             pools' = [pools EXCEPT ![p] = r],
             r.golden = pools[p].golden, r.maxActive = pools[p].maxActive,
             r.desired = pools[p].desired
      PROVE  PoolRowSteps
  <2>1. pools'[p] = r /\ \A q \in Pools \ {p} : pools'[q] = pools[q]
    BY <1>2 DEF TypeOK
  <2> QED BY <1>2, <2>1, NoneIsNoRow DEF PoolRowSteps
<1>3. CASE PoolRequest
  <2>1. ASSUME NEW p \in Pools, NEW g \in Goldens, NEW n \in Sizes, NEW mx \in MaxActives,
               NEW auto \in Autos, CreatePool(p, g, n, mx, auto)
        PROVE  PoolRowSteps
    BY <2>1 DEF CreatePool, PoolRowSteps, TypeOK
  <2>2. ASSUME NEW p \in Pools, NEW n \in Sizes, ResizePool(p, n) PROVE PoolRowSteps
    <3> DEFINE r == [pools[p] EXCEPT !.desired = n]
    <3>1. pools[p] \in PoolRecord /\ pools[p] # None /\ pools' = [pools EXCEPT ![p] = r]
      BY <2>2 DEF ResizePool, TypeOK
    <3>2. /\ r \in PoolRecord /\ r.golden = pools[p].golden
          /\ r.maxActive = pools[p].maxActive /\ r.desired = n
      BY <3>1, RequestValues DEF PoolRecord
    <3> HIDE DEF r
    <3>3. pools'[p] = r /\ \A q \in Pools \ {p} : pools'[q] = pools[q]
      BY <3>1 DEF TypeOK
    <3> QED BY <2>2, <3>1, <3>2, <3>3, NoneIsNoRow DEF PoolRowSteps
  <2>3. ASSUME NEW p \in Pools, NEW force \in BOOLEAN, DeletePool(p, force) PROVE PoolRowSteps
    <3> DEFINE r == [pools[p] EXCEPT !.deleting = TRUE]
    <3>1. pools[p] \in PoolRecord /\ pools[p] # None /\ pools' = [pools EXCEPT ![p] = r]
      BY <2>3 DEF DeletePool, TypeOK
    <3>2. /\ r \in PoolRecord /\ r.golden = pools[p].golden
          /\ r.maxActive = pools[p].maxActive /\ r.desired = pools[p].desired
      BY <3>1 DEF PoolRecord
    <3> QED BY <1>2, <3>1, <3>2
  <2> QED BY <1>3, <2>1, <2>2, <2>3 DEF PoolRequest
<1>4. CASE LeaseRequest
  BY <1>1, <1>4 DEF LeaseRequest, ClaimRefused, Claim, Heartbeat, HeartbeatLookup, CompleteLease
<1>5. CASE Activation
  BY <1>1, <1>5 DEF Activation, ActivateLookup, ActivateCommit, ActivateFail, ActivateLost
<1>6. CASE Controller
  <2>1. CASE FinalizePools
    BY <2>1 DEF FinalizePools, PoolRowSteps
  <2> QED BY <1>1, <1>6, <2>1
          DEF Controller, ExpireLeases, NextPhase, PassFails, RecoverSlot, CheckReady,
              DeleteRetired, DeleteRetiredFails, CheckLeased, ReapFill, StartFill
<1>7. CASE FillTasks
  <2>1. ASSUME NEW p \in Pools,
               FillLock(p) \/ FillReserved(p) \/ FillPrepare(p) \/ FillBatchFails(p) \/ FillDone(p)
        PROVE  pools' = pools
    BY <2>1 DEF FillLock, FillReserved, FillPrepare, FillBatchFails, FillDone
  <2>2. ASSUME NEW p \in Pools, NEW m \in Machines,
               FillReserve(p, m) \/ FillBoot(p, m) \/ FillBootFails(p, m)
               \/ FillFinish(p, m) \/ FillRetire(p, m)
        PROVE  pools' = pools
    BY <2>2 DEF FillReserve, FillBoot, FillBootFails, FillFinish, FillRetire
  <2> QED BY <1>1, <1>7, <2>1, <2>2 DEF FillTasks
<1>8. CASE World
  BY <1>1, <1>8 DEF World, Tick, Restart, db, BackoffElapses, WorkerExits, UserDeletes,
                    PauseWorker, ResumeWorker
<1>9. CASE UNCHANGED vars
  BY <1>1, <1>9 DEF vars
<1> QED BY <1>3, <1>4, <1>5, <1>6, <1>7, <1>8, <1>9 DEF Next

\* A machine's row goes, or keeps its golden and is never held again once it is
\* not, unless a fill registers it.
VmRowSteps ==
    \A m \in Machines :
        \/ vms'[m] = None
        \/ /\ vms[m] # None /\ vms'[m].golden = vms[m].golden
           /\ vms'[m].held => vms[m].held
        \/ \E p \in Pools : m \in fill[p].todo

\* Every step is one of these to every machine.
LEMMA VmSteps == ASSUME TypeOK, [Next]_vars PROVE VmRowSteps
<1>1. ASSUME vms' = vms PROVE VmRowSteps
  BY <1>1 DEF VmRowSteps
<1>2. ASSUME NEW m \in Machines, NEW r \in VmRecord, vms[m] # None,
             r.golden = vms[m].golden, r.held => vms[m].held, vms' = [vms EXCEPT ![m] = r]
      PROVE  VmRowSteps
  <2>1. vms'[m] = r /\ \A n \in Machines \ {m} : vms'[n] = vms[n]
    BY <1>2 DEF TypeOK
  <2> QED BY <1>2, <2>1 DEF VmRowSteps
<1>3. ASSUME NEW m \in Machines, vms' = [vms EXCEPT ![m] = None] PROVE VmRowSteps
  BY <1>3 DEF VmRowSteps, TypeOK
<1>4. ASSUME NEW m \in Machines, NEW s \in {"off", "up", "paused"}, vms[m] # None,
             vms' = [vms EXCEPT ![m].run = s]
      PROVE  VmRowSteps
  <2> DEFINE r == [vms[m] EXCEPT !.run = s]
  <2>1. vms[m] \in VmRecord /\ vms' = [vms EXCEPT ![m] = r]
    BY <1>4 DEF TypeOK
  <2>2. r \in VmRecord /\ r.golden = vms[m].golden /\ r.held = vms[m].held
    BY <2>1 DEF VmRecord
  <2> QED BY <1>2, <1>4, <2>1, <2>2
<1>5. CASE PoolRequest
  BY <1>1, <1>5 DEF PoolRequest, CreatePool, ResizePool, DeletePool
<1>6. CASE LeaseRequest
  <2>1. ASSUME NEW p \in Pools, NEW k \in Keys, NEW l \in Leases, Claim(p, k, l) PROVE VmRowSteps
    <3>1. PICK m \in Claimable(p) : vms' = [vms EXCEPT ![m].held = FALSE]
      BY <2>1 DEF Claim
    <3> DEFINE r == [vms[m] EXCEPT !.held = FALSE]
    <3>2. m \in Machines /\ vms[m] # None /\ vms[m] \in VmRecord
      BY DEF Claimable, SlotsIn, TypeOK
    <3>3. r \in VmRecord /\ r.golden = vms[m].golden /\ r.held = FALSE
      BY <3>2 DEF VmRecord
    <3>4. vms' = [vms EXCEPT ![m] = r]
      BY <3>1
    <3> QED BY <1>2, <3>2, <3>3, <3>4
  <2> QED BY <1>1, <1>6, <2>1
       DEF LeaseRequest, ClaimRefused, Heartbeat, HeartbeatLookup, CompleteLease
<1>7. CASE Activation
  BY <1>1, <1>7 DEF Activation, ActivateLookup, ActivateCommit, ActivateFail, ActivateLost
<1>8. CASE Controller
  <2>1. ASSUME NEW m \in Machines, DeleteRetired(m) PROVE VmRowSteps
    BY <1>3, <2>1 DEF DeleteRetired
  <2> QED BY <1>1, <1>8, <2>1
          DEF Controller, ExpireLeases, FinalizePools, NextPhase, PassFails, RecoverSlot, CheckReady,
              DeleteRetiredFails, CheckLeased, ReapFill, StartFill
<1>9. CASE FillTasks
  <2>1. ASSUME NEW p \in Pools, FillPrepare(p) PROVE VmRowSteps
    BY <2>1 DEF FillPrepare, VmRowSteps
  <2>2. ASSUME NEW p \in Pools, NEW m \in Machines, FillBoot(p, m) PROVE VmRowSteps
    BY <1>4, <2>2 DEF FillBoot
  <2>3. ASSUME NEW p \in Pools, NEW m \in Machines, FillBootFails(p, m) PROVE VmRowSteps
    BY <1>1, <1>3, <2>3 DEF FillBootFails
  <2> QED BY <1>1, <1>9, <2>1, <2>2, <2>3
          DEF FillTasks, FillLock, FillReserved, FillBatchFails, FillDone, FillReserve, FillFinish,
              FillRetire
<1>10. CASE World
  <2>1. ASSUME NEW m \in Machines, UserDeletes(m) PROVE VmRowSteps
    BY <1>3, <2>1 DEF UserDeletes
  <2>2. ASSUME NEW m \in Machines, WorkerExits(m) \/ PauseWorker(m) \/ ResumeWorker(m)
        PROVE  VmRowSteps
    BY <1>4, <2>2 DEF WorkerExits, PauseWorker, ResumeWorker
  <2> QED BY <1>1, <1>10, <2>1, <2>2 DEF World, Tick, Restart, db, BackoffElapses
<1>11. CASE UNCHANGED vars
  BY <1>1, <1>11 DEF vars
<1> QED BY <1>5, <1>6, <1>7, <1>8, <1>9, <1>10, <1>11 DEF Next

-----------------------------------------------------------------------------
(* Keys and goldens *)

\* A lease that lives after the step is the one a claim just made, or lived
\* before it with the same worker, pool and key.
LEMMA LiveBefore ==
    ASSUME TypeOK, LeaseRowSteps, NEW l \in Leases, leases[l] # None, Live(l)'
    PROVE  /\ Live(l)
           /\ leases'[l].machine = leases[l].machine
           /\ leases'[l].pool = leases[l].pool
           /\ leases'[l].key = leases[l].key
BY DEF LeaseRowSteps, Live

\* The claim's key lookup covers ended leases too.
LEMMA KeyStep == IInv /\ OneLeasePerKey /\ [Next]_vars => OneLeasePerKey'
<1> SUFFICES ASSUME IInv, OneLeasePerKey, [Next]_vars PROVE OneLeasePerKey'
  OBVIOUS
<1>0. TypeOK /\ LeaseRowSteps
  BY RowSteps DEF IInv
<1>1. CASE \A l \in Leases : leases[l] = None => leases'[l] = None
  BY <1>0, <1>1 DEF OneLeasePerKey, LeaseRowSteps
<1>2. ASSUME NEW p \in Pools, NEW k \in Keys, NEW l \in Leases, Claim(p, k, l)
      PROVE  OneLeasePerKey'
  <2>1. /\ leases'[l].pool = p /\ leases'[l].key = k
        /\ \A j \in Leases \ {l} : leases'[j] = leases[j]
    BY <1>0, <1>2, ClaimRows
  <2>2. \A j \in Leases : leases[j] # None => ~(leases[j].pool = p /\ leases[j].key = k)
    BY <1>2 DEF Claim, Admits
  <2> QED BY <2>1, <2>2 DEF OneLeasePerKey
<1> QED BY <1>0, <1>1, <1>2, NewLeases

\* The worker of a live lease is no fill's, so nothing registers it again.
LEMMA MatchStep == IInv /\ ClaimedWorkerMatches /\ [Next]_vars => ClaimedWorkerMatches'
<1> SUFFICES ASSUME IInv, ClaimedWorkerMatches, [Next]_vars,
                    NEW l \in Leases, Live(l)', vms'[leases'[l].machine] # None
             PROVE  /\ ~vms'[leases'[l].machine].held
                    /\ pools'[leases'[l].pool] # None
                    /\ vms'[leases'[l].machine].golden = pools'[leases'[l].pool].golden
  BY DEF ClaimedWorkerMatches, Live
<1>0. TypeOK /\ LeaseRowSteps /\ PoolRowSteps /\ VmRowSteps /\ Ownership
  BY RowSteps, PoolSteps, VmSteps DEF IInv
<1>1. DeletingPoolDrains /\ DeletingPoolDrains' /\ FillOwnsBatch
  BY InvStep DEF IInv
<1>2. CASE leases[l] # None
  <2>1. /\ Live(l) /\ leases'[l].machine = leases[l].machine /\ leases'[l].pool = leases[l].pool
    BY <1>0, <1>2, LiveBefore
  <2> DEFINE m == leases[l].machine
             p == leases[l].pool
  <2>2. m \in Machines /\ p \in Pools
    BY <1>0, <1>2 DEF TypeOK, LeaseRecord
  <2>3. slots[m] # None /\ slots[m].state \in {"activating", "leased"}
    BY <1>0, <2>1 DEF Ownership, LeaseOwnsSlot
  <2>4. \A q \in Pools : m \notin fill[q].todo
    BY <1>1, <2>3 DEF FillOwnsBatch
  <2>5. /\ vms[m] # None /\ vms'[m].golden = vms[m].golden
        /\ vms'[m].held => vms[m].held
    BY <1>0, <2>1, <2>2, <2>4 DEF VmRowSteps
  <2>6. pools[p] # None /\ pools'[p] # None
    BY <1>1, <1>2, <2>1 DEF DeletingPoolDrains, Live
  <2>7. pools'[p].golden = pools[p].golden
    BY <1>0, <2>2, <2>6 DEF PoolRowSteps
  <2>8. ~vms[m].held /\ vms[m].golden = pools[p].golden
    BY <2>1, <2>5 DEF ClaimedWorkerMatches
  <2> QED BY <2>1, <2>5, <2>6, <2>7, <2>8
<1>3. CASE leases[l] = None
  <2>1. leases'[l] # None
    BY DEF Live
  <2>2. PICK p \in Pools, k \in Keys, j \in Leases : Claim(p, k, j)
    BY <1>0, <1>3, <2>1, NewLeases
  <2>3. j = l
    BY <1>0, <1>3, <2>1, <2>2, ClaimRows
  <2>4. PICK m \in Claimable(p) : leases'[l].machine = m /\ vms' = [vms EXCEPT ![m].held = FALSE]
    BY <1>0, <2>2, <2>3, ClaimRows
  <2>5. leases'[l].pool = p
    BY <1>0, <2>2, <2>3, ClaimRows
  <2>6. m \in Machines /\ vms[m] \in VmRecord /\ vms[m].golden = pools[p].golden
    BY <1>0 DEF Claimable, SlotsIn, TypeOK
  <2>7. vms'[m] = [vms[m] EXCEPT !.held = FALSE]
    BY <1>0, <2>4, <2>6 DEF TypeOK
  <2>8. ~vms'[m].held /\ vms'[m].golden = pools[p].golden
    BY <2>6, <2>7 DEF VmRecord
  <2>9. pools[p] # None /\ pools' = pools
    BY <2>2 DEF Claim
  <2> QED BY <2>4, <2>5, <2>8, <2>9
<1> QED BY <1>2, <1>3

\* A retry with the same idempotency key never consumes a second worker, whatever
\* became of the first lease: claims, restarts and deletions in any order.
THEOREM KeysAreServedOnce == Spec => []OneLeasePerKey
<1>1. Init => OneLeasePerKey
  BY DEF Init, OneLeasePerKey
<1> QED BY <1>1, KeyStep, Invariance, PTL DEF Spec

\* The worker of a live lease was forked from the golden its pool has now and is
\* held no more, also when its fill outlived the pool it was started for.
THEOREM WorkersMatchTheirPools == Spec => []ClaimedWorkerMatches
<1>1. Init => ClaimedWorkerMatches
  BY DEF Init, ClaimedWorkerMatches, Live
<1> QED BY <1>1, MatchStep, Invariance, PTL DEF Spec

-----------------------------------------------------------------------------
(* Counting workers and leases *)

SlotRows == {m \in Machines : slots[m] # None}
LeaseRows == {l \in Leases : leases[l] # None}

\* The tables are finite: they start empty and grow by a row at a time.  Names
\* and lease identifiers need not be finitely many.
FiniteTables == IsFiniteSet(SlotRows) /\ IsFiniteSet(LeaseRows)

\* A set within a finite one, or within it and one more element, is finite.
LEMMA GrowsByOne ==
    ASSUME NEW S, IsFiniteSet(S), NEW x, NEW T \in SUBSET (S \cup {x})
    PROVE  IsFiniteSet(T) /\ Cardinality(T) \in Nat /\ Cardinality(S) \in Nat
           /\ Cardinality(T) <= Cardinality(S) + 1
<1>1. /\ IsFiniteSet(S \cup {x})
      /\ Cardinality(S \cup {x}) = IF x \in S THEN Cardinality(S) ELSE Cardinality(S) + 1
  BY FS_AddElement
<1>2. IsFiniteSet(T) /\ Cardinality(T) <= Cardinality(S \cup {x})
  BY <1>1, FS_Subset
<1>3. Cardinality(T) \in Nat /\ Cardinality(S) \in Nat
  BY <1>2, FS_CardinalityType
<1> QED BY <1>1, <1>2, <1>3

\* A set within a finite one has no more elements.
LEMMA Shrinks ==
    ASSUME NEW S, IsFiniteSet(S), NEW T \in SUBSET S
    PROVE  IsFiniteSet(T) /\ Cardinality(T) \in Nat /\ Cardinality(S) \in Nat
           /\ Cardinality(T) <= Cardinality(S)
BY FS_Subset, FS_CardinalityType

\* Every step leaves the tables finite.
LEMMA FiniteStep == TypeOK /\ FiniteTables /\ [Next]_vars => FiniteTables'
<1> SUFFICES ASSUME TypeOK, FiniteTables, [Next]_vars PROVE FiniteTables'
  OBVIOUS
<1>1. IsFiniteSet(SlotRows')
  <2>1. CASE \A m \in Machines : slots[m] = None => slots'[m] = None
    <3>1. SlotRows' \in SUBSET SlotRows
      BY <2>1 DEF SlotRows
    <3> QED BY <3>1, Shrinks DEF FiniteTables
  <2>2. ASSUME NEW p \in Pools, NEW m \in Machines, FillReserve(p, m) PROVE IsFiniteSet(SlotRows')
    <3>1. SlotRows' \in SUBSET (SlotRows \cup {m})
      BY <2>2 DEF SlotRows, FillReserve, TypeOK
    <3> QED BY <3>1, GrowsByOne DEF FiniteTables
  <2> QED BY <2>1, <2>2, NewSlots
<1>2. IsFiniteSet(LeaseRows')
  <2>1. CASE \A l \in Leases : leases[l] = None => leases'[l] = None
    <3>1. LeaseRows' \in SUBSET LeaseRows
      BY <2>1 DEF LeaseRows
    <3> QED BY <3>1, Shrinks DEF FiniteTables
  <2>2. ASSUME NEW p \in Pools, NEW k \in Keys, NEW l \in Leases, Claim(p, k, l)
        PROVE  IsFiniteSet(LeaseRows')
    <3>1. \A j \in Leases \ {l} : leases'[j] = leases[j]
      BY <2>2, ClaimRows
    <3>2. LeaseRows' \in SUBSET (LeaseRows \cup {l})
      BY <3>1 DEF LeaseRows
    <3> QED BY <3>2, GrowsByOne DEF FiniteTables
  <2> QED BY <2>1, <2>2, NewLeases
<1> QED BY <1>1, <1>2 DEF FiniteTables

\* What is counted is finite.
LEMMA FiniteCounts ==
    ASSUME FiniteTables
    PROVE  /\ \A p \in Pools : /\ IsFiniteSet(Available(p)) /\ Cardinality(Available(p)) \in Nat
                               /\ IsFiniteSet(LiveLeases(p)) /\ Cardinality(LiveLeases(p)) \in Nat
           /\ \A d : IsFiniteSet(OnDevice(d)) /\ Cardinality(OnDevice(d)) \in Nat
<1>1. ASSUME NEW p \in Pools
      PROVE  /\ IsFiniteSet(Available(p)) /\ Cardinality(Available(p)) \in Nat
             /\ IsFiniteSet(LiveLeases(p)) /\ Cardinality(LiveLeases(p)) \in Nat
  <2>1. Available(p) \in SUBSET SlotRows
    BY DEF Available, SlotsIn, SlotRows
  <2>2. LiveLeases(p) \in SUBSET LeaseRows
    BY DEF LiveLeases, Live, LeaseRows
  <2> QED BY <2>1, <2>2, Shrinks DEF FiniteTables
<1>2. ASSUME NEW d PROVE IsFiniteSet(OnDevice(d)) /\ Cardinality(OnDevice(d)) \in Nat
  <2>1. OnDevice(d) \in SUBSET LeaseRows
    BY DEF OnDevice, Live, LeaseRows
  <2> QED BY <2>1, Shrinks DEF FiniteTables
<1> QED BY <1>1, <1>2

\* No worker that was taken or retired becomes available: a worker available
\* after the step was so before, in the same pool, or is newly reserved.
LEMMA AvailableBefore ==
    ASSUME IInv, [Next]_vars, NEW p \in Pools, NEW m \in Available(p)'
    PROVE  m \in Available(p) \/ slots[m] = None
<1>0. TypeOK /\ Ownership /\ SlotRowSteps /\ LeaseRowSteps /\ TypeOK'
  BY RowSteps, TypeStep DEF IInv
<1>1. Ownership' /\ DeletingPoolDrains'
  BY InvStep DEF IInv
<1>2. m \in Machines /\ slots'[m] # None /\ slots'[m].pool = p
      /\ slots'[m].state \in {"provisioning", "ready"}
  BY DEF Available, SlotsIn
<1> SUFFICES ASSUME slots[m] # None PROVE m \in Available(p)
  OBVIOUS
<1>3. slots[m] \in SlotRecord /\ slots[m].pool = p
  BY <1>0, <1>2 DEF SlotRowSteps, TypeOK
<1>4. slots[m].state # "retiring"
  BY <1>0, <1>2 DEF SlotRowSteps
<1>5. slots[m].state \notin {"activating", "leased"}
  <2> SUFFICES ASSUME slots[m].state \in {"activating", "leased"} PROVE FALSE
    OBVIOUS
  <2> DEFINE l == slots[m].lease
  <2>1. l \in Leases /\ Live(l) /\ leases[l].machine = m
    BY <1>0, <1>2 DEF Ownership, LeaseOwnsSlot
  <2>2. leases[l] # None /\ leases[l].pool = p
    BY <1>0, <1>3, <2>1 DEF Ownership, LeaseOwnsSlot, Live
  <2>3. pools'[p] # None
    BY <1>1, <1>2 DEF DeletingPoolDrains
  <2>4. leases'[l] # None /\ leases'[l].machine = m
    BY <1>0, <2>1, <2>2, <2>3 DEF LeaseRowSteps
  <2> QED BY <1>1, <1>2, <2>1, <2>4 DEF Ownership, OneLeasePerWorker
<1> QED BY <1>2, <1>3, <1>4, <1>5 DEF Available, SlotsIn, SlotRecord, SlotStates

\* A reservation counts in its own transaction; a resize retires the surplus in
\* its own; nothing else adds an available worker or lowers a target.
LEMMA OverfillStep == IInv /\ FiniteTables /\ NoOverfill /\ [Next]_vars => NoOverfill'
<1> SUFFICES ASSUME IInv, FiniteTables, NoOverfill, [Next]_vars,
                    NEW p \in Pools, pools'[p] # None
             PROVE  Cardinality(Available(p)') <= pools'[p].desired
  BY DEF NoOverfill
<1>0. TypeOK /\ TypeOK' /\ PoolRowSteps
  BY PoolSteps, TypeStep DEF IInv
<1>1. IsFiniteSet(Available(p)) /\ Cardinality(Available(p)) \in Nat
  BY FiniteCounts
<1>2. pools'[p] \in PoolRecord /\ pools'[p].desired \in Nat
  BY <1>0 DEF TypeOK, PoolRecord
<1>3. CASE pools[p] = None
  <2>1. UNCHANGED slots
    BY <1>0, <1>3 DEF PoolRowSteps
  <2>2. Available(p)' = {}
    BY <1>3, <2>1 DEF Available, SlotsIn, IInv, DeletingPoolDrains
  <2> QED BY <1>2, <2>2, FS_EmptySet
<1>4. ASSUME NEW n \in Sizes, ResizePool(p, n) PROVE Cardinality(Available(p)') <= pools'[p].desired
  <2>1. PICK S \in Surplus(p, n) : slots' = Retired(S) /\ pools' = [pools EXCEPT ![p].desired = n]
    BY <1>4 DEF ResizePool
  <2>2. pools'[p].desired = n /\ n \in Nat
    BY <1>0, <1>4, <2>1, RequestValues DEF ResizePool, TypeOK, PoolRecord
  <2> DEFINE A == Available(p)
             T == A \ S
  <2>3. S \in SUBSET A /\ Cardinality(S) = IF Cardinality(A) > n THEN Cardinality(A) - n ELSE 0
    BY DEF Surplus
  <2>4. Available(p)' \in SUBSET T
    <3> SUFFICES ASSUME NEW m \in Available(p)' PROVE m \in T
      OBVIOUS
    <3>1. m \in Machines /\ slots'[m] # None /\ slots'[m].state \in {"provisioning", "ready"}
      BY DEF Available, SlotsIn
    <3>2. slots'[m] = IF m \in S /\ slots[m] # None
                      THEN [slots[m] EXCEPT !.state = "retiring"] ELSE slots[m]
      BY <2>1, <3>1 DEF Retired
    <3>3. slots[m] # None
      BY <3>1, <3>2
    <3>4. m \in A
      BY <3>3, AvailableBefore
    <3>5. m \notin S
      <4>1. slots[m] \in SlotRecord
        BY <1>0, <3>1, <3>3 DEF TypeOK
      <4> QED BY <3>1, <3>2, <3>3, <4>1 DEF SlotRecord
    <3> QED BY <3>4, <3>5
  <2>5. IsFiniteSet(S) /\ IsFiniteSet(T) /\ Cardinality(S) \in Nat /\ Cardinality(T) \in Nat
        /\ Cardinality(T) <= Cardinality(A)
    BY <1>1, <2>3, Shrinks
  <2>6. Cardinality(A) = Cardinality(S) + Cardinality(T)
    <3>1. A = S \cup T /\ S \cap T = {}
      BY <2>3
    <3>2. Cardinality(S \cup T) = Cardinality(S) + Cardinality(T) - Cardinality(S \cap T)
      BY <2>5, FS_Union
    <3>3. Cardinality(S \cap T) = 0
      BY <3>1, FS_EmptySet
    <3> HIDE DEF A, T
    <3>4. Cardinality(A) = Cardinality(S \cup T)
      BY <3>1
    <3> QED BY <2>5, <3>2, <3>3, <3>4
  <2>7. Cardinality(T) <= n
    BY <1>1, <2>2, <2>3, <2>5, <2>6
  <2>8. Cardinality(Available(p)') \in Nat /\ Cardinality(Available(p)') <= Cardinality(T)
    BY <2>4, <2>5, Shrinks
  <2> HIDE DEF T
  <2> QED BY <2>2, <2>5, <2>7, <2>8
<1>5. CASE pools[p] # None /\ pools'[p].desired = pools[p].desired
  <2>1. CASE \A m \in Machines : slots[m] = None => slots'[m] = None
    <3>1. Available(p)' \in SUBSET Available(p)
      <4> SUFFICES ASSUME NEW m \in Available(p)' PROVE m \in Available(p)
        OBVIOUS
      <4>1. m \in Machines /\ slots'[m] # None
        BY DEF Available, SlotsIn
      <4> QED BY <2>1, <4>1, AvailableBefore
    <3>2. Cardinality(Available(p)') \in Nat /\ Cardinality(Available(p)') <= Cardinality(Available(p))
      BY <1>1, <3>1, Shrinks
    <3> QED BY <1>1, <1>2, <1>5, <3>2 DEF NoOverfill
  <2>2. ASSUME NEW q \in Pools, NEW m \in Machines, FillReserve(q, m)
        PROVE  Cardinality(Available(p)') <= pools'[p].desired
    <3>1. /\ slots'[m] = [pool |-> q, state |-> "provisioning", lease |-> None]
          /\ \A n \in Machines \ {m} : slots'[n] = slots[n]
          /\ slots[m] = None
      BY <1>0, <2>2 DEF FillReserve, FreshMachine, TypeOK
    <3>2. CASE q = p
      <4>1. Available(p)' \in SUBSET (Available(p) \cup {m})
        BY <3>1 DEF Available, SlotsIn
      <4>2. Cardinality(Available(p)') \in Nat
            /\ Cardinality(Available(p)') <= Cardinality(Available(p)) + 1
        BY <1>1, <4>1, GrowsByOne
      <4>3. Cardinality(Available(p)) < pools[p].desired
        BY <2>2, <3>2 DEF FillReserve, HasDeficit
      <4> QED BY <1>1, <1>2, <1>5, <4>2, <4>3
    <3>3. CASE q # p
      <4>1. Available(p)' \in SUBSET Available(p)
        BY <3>1, <3>3 DEF Available, SlotsIn
      <4>2. Cardinality(Available(p)') \in Nat /\ Cardinality(Available(p)') <= Cardinality(Available(p))
        BY <1>1, <4>1, Shrinks
      <4> QED BY <1>1, <1>2, <1>5, <4>2 DEF NoOverfill
    <3> QED BY <3>2, <3>3
  <2> QED BY <1>0, <2>1, <2>2, NewSlots
<1> QED BY <1>0, <1>3, <1>4, <1>5 DEF PoolRowSteps

\* Provisioning and ready workers never exceed the pool's target: repeated passes,
\* concurrent fills, fills that outlive their pool, resizes and restarts, for
\* every number of workers and every target.
THEOREM PoolsAreNotOverfilled == Spec => []NoOverfill
<1>1. Init => NoOverfill /\ FiniteTables
  <2> SUFFICES ASSUME Init PROVE NoOverfill /\ FiniteTables
    OBVIOUS
  <2>1. NoOverfill
    BY DEF Init, NoOverfill
  <2>2. SlotRows = {} /\ LeaseRows = {}
    BY DEF Init, SlotRows, LeaseRows
  <2> QED BY <2>1, <2>2, FS_EmptySet DEF FiniteTables
<1>2. IInv => TypeOK
  BY DEF IInv
<1> QED BY <1>1, <1>2, OverfillStep, FiniteStep, Invariance, PTL DEF Spec

\* Leases on a device, whichever pools they come from, when every pool is under
\* automatic admission.
WithinDevices ==
    FALSE \notin Autos =>
        \A g \in Goldens : Device[g] # None => Cardinality(OnDevice(Device[g])) <= DeviceLimit

\* Leases of a pool that has a limit.
WithinPools ==
    \A p \in Pools : pools[p] # None /\ pools[p].maxActive # None =>
        Cardinality(LiveLeases(p)) <= pools[p].maxActive

\* Only a claim adds a live lease to a pool, and it has counted the others.
LEMMA PoolCountStep == IInv /\ FiniteTables /\ WithinPools /\ [Next]_vars => WithinPools'
<1> SUFFICES ASSUME IInv, FiniteTables, WithinPools, [Next]_vars,
                    NEW p \in Pools, pools'[p] # None, pools'[p].maxActive # None
             PROVE  Cardinality(LiveLeases(p)') <= pools'[p].maxActive
  BY DEF WithinPools
<1>0. TypeOK /\ TypeOK' /\ PoolRowSteps /\ LeaseRowSteps
  BY PoolSteps, RowSteps, TypeStep DEF IInv
<1>1. IsFiniteSet(LiveLeases(p)) /\ Cardinality(LiveLeases(p)) \in Nat
  BY FiniteCounts
<1>2. pools'[p].maxActive \in Nat
  BY <1>0 DEF TypeOK, PoolRecord
<1>3. CASE pools[p] = None
  <2>1. UNCHANGED leases
    BY <1>0, <1>3 DEF PoolRowSteps
  <2>2. LiveLeases(p)' = {}
    BY <1>3, <2>1 DEF LiveLeases, Live, IInv, DeletingPoolDrains
  <2> QED BY <1>2, <2>2, FS_EmptySet
<1>4. CASE pools[p] # None
  <2>1. pools'[p].maxActive = pools[p].maxActive
    BY <1>0, <1>4 DEF PoolRowSteps
  <2>2. ASSUME NEW l \in Leases, l \in LiveLeases(p)', leases[l] # None PROVE l \in LiveLeases(p)
    BY <1>0, <2>2, LiveBefore DEF LiveLeases, Live
  <2>3. CASE \A l \in Leases : leases[l] = None => leases'[l] = None
    <3>1. LiveLeases(p)' \in SUBSET LiveLeases(p)
      <4>1. \A l \in LiveLeases(p)' : l \in Leases /\ leases'[l] # None
        BY DEF LiveLeases, Live
      <4> QED BY <2>2, <2>3, <4>1
    <3>2. Cardinality(LiveLeases(p)') \in Nat
          /\ Cardinality(LiveLeases(p)') <= Cardinality(LiveLeases(p))
      BY <1>1, <3>1, Shrinks
    <3> QED BY <1>1, <1>2, <1>4, <2>1, <3>2 DEF WithinPools
  <2>4. ASSUME NEW q \in Pools, NEW k \in Keys, NEW j \in Leases, Claim(q, k, j)
        PROVE  Cardinality(LiveLeases(p)') <= pools'[p].maxActive
    <3>1. /\ leases'[j].pool = q
          /\ \A l \in Leases \ {j} : leases'[l] = leases[l]
      BY <1>0, <2>4, ClaimRows
    <3>2. CASE q = p
      <4>1. LiveLeases(p)' \in SUBSET (LiveLeases(p) \cup {j})
        BY <3>1 DEF LiveLeases, Live
      <4>2. Cardinality(LiveLeases(p)') \in Nat
            /\ Cardinality(LiveLeases(p)') <= Cardinality(LiveLeases(p)) + 1
        BY <1>1, <4>1, GrowsByOne
      <4>3. Cardinality(LiveLeases(p)) < pools[p].maxActive
        BY <2>1, <2>4, <3>2 DEF Claim, Admits
      <4> QED BY <1>1, <1>2, <2>1, <4>2, <4>3
    <3>3. CASE q # p
      <4>1. LiveLeases(p)' \in SUBSET LiveLeases(p)
        BY <3>1, <3>3 DEF LiveLeases, Live
      <4>2. Cardinality(LiveLeases(p)') \in Nat
            /\ Cardinality(LiveLeases(p)') <= Cardinality(LiveLeases(p))
        BY <1>1, <4>1, Shrinks
      <4> QED BY <1>1, <1>2, <1>4, <2>1, <4>2 DEF WithinPools
    <3> QED BY <3>2, <3>3
  <2> QED BY <1>0, <2>3, <2>4, NewLeases
<1> QED BY <1>3, <1>4

\* Only a claim adds a live lease to a device, and it has counted those of every
\* pool on it.
LEMMA DeviceCountStep == IInv /\ FiniteTables /\ WithinDevices /\ [Next]_vars => WithinDevices'
<1> SUFFICES ASSUME IInv, FiniteTables, WithinDevices, [Next]_vars,
                    FALSE \notin Autos, NEW g \in Goldens, Device[g] # None
             PROVE  Cardinality(OnDevice(Device[g])') <= DeviceLimit
  BY DEF WithinDevices
<1> DEFINE d == Device[g]
<1>0. TypeOK /\ TypeOK' /\ PoolRowSteps /\ LeaseRowSteps
  BY PoolSteps, RowSteps, TypeStep DEF IInv
<1>1. IsFiniteSet(OnDevice(d)) /\ Cardinality(OnDevice(d)) \in Nat /\ DeviceLimit \in Nat
  BY FiniteCounts, RequestValues
<1>2. ASSUME NEW l \in Leases, l \in OnDevice(d)', leases[l] # None PROVE l \in OnDevice(d)
  <2>1. Live(l)' /\ pools'[leases'[l].pool] # None /\ Device[pools'[leases'[l].pool].golden] = d
    BY <1>2 DEF OnDevice, Live
  <2>2. Live(l) /\ leases'[l].pool = leases[l].pool
    BY <1>0, <1>2, <2>1, LiveBefore
  <2>3. leases[l].pool \in Pools /\ pools[leases[l].pool] # None
    BY <1>0, <1>2 DEF TypeOK, LeaseRecord, IInv, DeletingPoolDrains
  <2>4. pools'[leases[l].pool].golden = pools[leases[l].pool].golden
    BY <1>0, <2>1, <2>2, <2>3 DEF PoolRowSteps
  <2> QED BY <2>1, <2>2, <2>3, <2>4 DEF OnDevice
<1>3. ASSUME OnDevice(d)' \in SUBSET OnDevice(d)
      PROVE  Cardinality(OnDevice(d)') <= DeviceLimit
  <2>1. Cardinality(OnDevice(d)') \in Nat /\ Cardinality(OnDevice(d)') <= Cardinality(OnDevice(d))
    BY <1>1, <1>3, Shrinks
  <2> QED BY <1>1, <2>1 DEF WithinDevices
<1>4. \A l \in OnDevice(d)' : l \in Leases /\ leases'[l] # None
  BY DEF OnDevice, Live
<1>5. CASE \A l \in Leases : leases[l] = None => leases'[l] = None
  BY <1>2, <1>3, <1>4, <1>5
<1>6. ASSUME NEW p \in Pools, NEW k \in Keys, NEW j \in Leases, Claim(p, k, j)
      PROVE  Cardinality(OnDevice(d)') <= DeviceLimit
  <2>0. /\ leases'[j].pool = p
        /\ \A l \in Leases \ {j} : leases'[l] = leases[l]
    BY <1>0, <1>6, ClaimRows
  <2>1. /\ leases'[j].pool = p /\ pools' = pools
        /\ \A l \in Leases \ {j} : leases'[l] = leases[l]
    BY <1>6, <2>0 DEF Claim
  <2>2. CASE Device[pools[p].golden] = d
    <3>1. OnDevice(d)' \in SUBSET (OnDevice(d) \cup {j})
      BY <2>1 DEF OnDevice, Live
    <3>2. Cardinality(OnDevice(d)') \in Nat
          /\ Cardinality(OnDevice(d)') <= Cardinality(OnDevice(d)) + 1
      BY <1>1, <3>1, GrowsByOne
    <3>3. PICK limit \in LimitsSeen : Admits(p, k, limit)
      BY <1>6 DEF Claim
    <3>4. limit # None
      BY RequestValues, NoneIsNoRow DEF LimitsSeen, AnswersOf
    <3>5. Cardinality(OnDevice(d)) < DeviceLimit
      BY <2>2, <3>3, <3>4 DEF Admits
    <3> QED BY <1>1, <3>2, <3>5
  <2>3. CASE Device[pools[p].golden] # d
    <3>1. j \notin OnDevice(d)'
      BY <2>1, <2>3 DEF OnDevice
    <3>2. OnDevice(d)' \in SUBSET OnDevice(d)
      BY <1>4, <2>1, <3>1 DEF OnDevice, Live
    <3> QED BY <1>3, <3>2
  <2> QED BY <2>2, <2>3
<1> QED BY <1>0, <1>5, <1>6, NewLeases

\* Live leases stay within their pool's max_active and, under automatic admission,
\* within their device's limit, whatever claims for whichever pools race.
THEOREM CapacityIsKept == Spec => []WithinCapacity
<1>1. Init => WithinPools /\ WithinDevices /\ FiniteTables
  <2> SUFFICES ASSUME Init PROVE WithinPools /\ WithinDevices /\ FiniteTables
    OBVIOUS
  <2>1. WithinPools
    BY DEF Init, WithinPools
  <2>2. \A d : OnDevice(d) = {}
    BY DEF Init, OnDevice, Live
  <2>3. DeviceLimit \in Nat
    BY RequestValues
  <2>4. \A d : Cardinality(OnDevice(d)) = 0
    BY <2>2, FS_EmptySet
  <2>5. WithinDevices
    BY <2>3, <2>4 DEF WithinDevices
  <2>6. SlotRows = {} /\ LeaseRows = {}
    BY DEF Init, SlotRows, LeaseRows
  <2> QED BY <2>1, <2>5, <2>6, FS_EmptySet DEF FiniteTables
<1>2. IInv => TypeOK
  BY DEF IInv
<1>3. TypeOK /\ WithinPools /\ WithinDevices => WithinCapacity
  BY DEF WithinPools, WithinDevices, WithinCapacity, TypeOK, PoolRecord
<1> QED BY <1>1, <1>2, <1>3, PoolCountStep, DeviceCountStep, FiniteStep, Invariance, PTL DEF Spec

-----------------------------------------------------------------------------
(* The tables implement OneShot *)

\* The worker a lease was granted, None when there is no lease.
Holder(l) == IF leases[l] = None THEN None ELSE leases[l].machine

\* The stage of a worker and of a lease, read off its row.
Staged ==
    /\ \A m \in Machines :
         /\ slots[m] = None => WorkerStage(m) = "absent"
         /\ slots[m] # None => slots[m].state \in SlotStates
         /\ slots[m] # None /\ slots[m].state \in {"provisioning", "ready"} => WorkerStage(m) = "spare"
         /\ slots[m] # None /\ slots[m].state \in {"activating", "leased"} => WorkerStage(m) = "given"
         /\ slots[m] # None /\ slots[m].state = "retiring" => WorkerStage(m) = "spent"
    /\ \A l \in Leases :
         /\ leases[l] = None => LeaseStage(l) = "none"
         /\ leases[l] # None => leases[l].state \in LiveStates \cup EndStates
         /\ leases[l] # None /\ leases[l].state = "activating" => LeaseStage(l) = "pending"
         /\ leases[l] # None /\ leases[l].state = "active" => LeaseStage(l) = "open"
         /\ leases[l] # None /\ leases[l].state \in EndStates => LeaseStage(l) = "ended"

\* Rows that have their types have those stages.
LEMMA Stages == TypeOK => Staged
<1>1. ASSUME TypeOK, NEW m \in Machines
      PROVE  /\ slots[m] = None => WorkerStage(m) = "absent"
             /\ slots[m] # None => slots[m].state \in SlotStates
             /\ slots[m] # None /\ slots[m].state \in {"provisioning", "ready"} =>
                    WorkerStage(m) = "spare"
             /\ slots[m] # None /\ slots[m].state \in {"activating", "leased"} =>
                    WorkerStage(m) = "given"
             /\ slots[m] # None /\ slots[m].state = "retiring" => WorkerStage(m) = "spent"
  BY <1>1 DEF TypeOK, WorkerStage, SlotRecord
<1>2. ASSUME TypeOK, NEW l \in Leases
      PROVE  /\ leases[l] = None => LeaseStage(l) = "none"
             /\ leases[l] # None => leases[l].state \in LiveStates \cup EndStates
             /\ leases[l] # None /\ leases[l].state = "activating" => LeaseStage(l) = "pending"
             /\ leases[l] # None /\ leases[l].state = "active" => LeaseStage(l) = "open"
             /\ leases[l] # None /\ leases[l].state \in EndStates => LeaseStage(l) = "ended"
  BY <1>2 DEF TypeOK, LeaseStage, LeaseRecord, EndStates
<1> QED BY <1>1, <1>2 DEF Staged

\* A step that leaves every row at its stage leaves the promise alone.
LEMMA PromiseStutters ==
    ASSUME \A m \in Machines : WorkerStage(m)' = WorkerStage(m),
           \A l \in Leases : LeaseStage(l)' = LeaseStage(l) /\ Holder(l)' = Holder(l)
    PROVE  Promise!promised' = Promise!promised
BY DEF Promise!promised, Holder

\* A quiet step ends leases and their workers together, and discards spares.
LEMMA QuietEnds == ASSUME IInv, [Next]_vars, Quiet PROVE Promise!Next
<1>0. /\ TypeOK /\ Ownership /\ TypeOK' /\ Ownership'
      /\ SlotRowSteps /\ LeaseRowSteps
  BY InvStep, RowSteps DEF IInv
<1>1. Staged /\ Staged'
  BY <1>0, Stages, PTL
<1> DEFINE ending == {l \in Leases : Live(l) /\ ~Live(l)'}
           discarded == {m \in Machines : WorkerStage(m) = "spare" /\ WorkerStage(m)' = "spent"}
<1>2. ASSUME NEW l \in Leases
      PROVE  /\ Holder(l)' = Holder(l)
             /\ LeaseStage(l)' = IF l \in ending THEN "ended" ELSE LeaseStage(l)
  <2>1. CASE leases[l] = None
    BY <1>1, <2>1 DEF Quiet, Holder, Live, Staged
  <2>2. CASE leases[l] # None
    <3>1. /\ leases'[l] # None /\ leases'[l].machine = leases[l].machine
          /\ leases'[l].state = leases[l].state \/ Live(l)
          /\ leases'[l].state \in LiveStates => leases'[l].state = leases[l].state
      BY <1>0, <2>2 DEF Quiet, LeaseRowSteps
    <3>2. Holder(l)' = Holder(l)
      BY <2>2, <3>1 DEF Holder
    <3>3. CASE Live(l)'
      <4>1. leases'[l].state = leases[l].state /\ leases[l].state \in LiveStates
        BY <3>1, <3>3 DEF Live
      <4> QED BY <1>1, <2>2, <3>1, <3>2, <3>3, <4>1 DEF Staged, LiveStates
    <3>4. CASE ~Live(l)'
      <4>1. leases'[l].state \in EndStates
        BY <1>1, <3>1, <3>4 DEF Live, Staged
      <4>2. LeaseStage(l)' = "ended"
        BY <1>1, <3>1, <4>1 DEF Staged
      <4>3. ~Live(l) => LeaseStage(l) = "ended"
        BY <1>1, <2>2 DEF Staged, Live
      <4> QED BY <3>2, <3>4, <4>2, <4>3
    <3> QED BY <3>3, <3>4
  <2> QED BY <2>1, <2>2
<1>3. ASSUME NEW l \in Leases, Live(l)
      PROVE  /\ Holder(l) \in Machines /\ slots[Holder(l)] # None
             /\ slots[Holder(l)].state \in {"activating", "leased"}
             /\ leases[l] # None /\ leases[l].machine = Holder(l)
  BY <1>0, <1>3 DEF Ownership, LeaseOwnsSlot, Live, Holder, TypeOK, LeaseRecord
<1>4. ASSUME NEW m \in Machines
      PROVE  WorkerStage(m)' = IF m \in discarded \cup {Holder(l) : l \in ending}
                               THEN "spent" ELSE WorkerStage(m)
  <2>1. CASE slots[m] = None
    <3>1. WorkerStage(m) = "absent" /\ WorkerStage(m)' = "absent"
      BY <1>1, <2>1 DEF Quiet, Staged
    <3> QED BY <1>3, <2>1, <3>1
  <2>2. CASE slots[m] # None /\ slots[m].state \in {"provisioning", "ready"}
    <3>1. slots'[m] # None /\ WorkerStage(m) = "spare"
      BY <1>1, <2>2 DEF Quiet, Staged
    <3>2. slots'[m].state \notin {"activating", "leased"}
      <4> SUFFICES ASSUME slots'[m].state \in {"activating", "leased"} PROVE FALSE
        OBVIOUS
      <4>1. PICK j \in Leases : Live(j)' /\ leases'[j].machine = m
        BY <1>0, <3>1 DEF Ownership, LeaseOwnsSlot, Live
      <4>2. leases[j] # None
        BY <4>1 DEF Quiet, Live
      <4>3. Live(j) /\ leases[j].machine = m
        BY <1>0, <4>1, <4>2, LiveBefore
      <4> QED BY <1>3, <2>2, <4>1, <4>3
    <3>3. m \notin {Holder(l) : l \in ending}
      BY <1>3, <2>2
    <3>4. WorkerStage(m)' \in {"spare", "spent"}
      BY <1>1, <3>1, <3>2 DEF Staged, SlotStates
    <3> QED BY <3>1, <3>3, <3>4
  <2>3. CASE slots[m] # None /\ slots[m].state \in {"activating", "leased"}
    <3>1. PICK l \in Leases : Live(l) /\ leases[l] # None /\ leases[l].machine = m /\ Holder(l) = m
      BY <1>0, <2>3 DEF Ownership, LeaseOwnsSlot, Live, Holder
    <3>2. leases'[l] # None /\ leases'[l].machine = m
      BY <1>0, <3>1 DEF Quiet, LeaseRowSteps
    <3>3. slots'[m] # None /\ WorkerStage(m) = "given"
      BY <1>1, <2>3 DEF Quiet, Staged
    <3>4. slots'[m].state \notin {"provisioning", "ready"}
      BY <1>0, <3>1, <3>2, <3>3 DEF Ownership, OneLeasePerWorker
    <3>5. CASE Live(l)'
      <4>1. slots'[m].state \in {"activating", "leased"}
        BY <1>0, <3>1, <3>2, <3>5 DEF Ownership, LeaseOwnsSlot
      <4>2. WorkerStage(m)' = "given"
        BY <1>1, <3>3, <4>1 DEF Staged
      <4>3. ASSUME NEW k \in ending, Holder(k) = m PROVE FALSE
        <5>1. k \in Leases /\ leases[k] # None /\ leases[k].machine = m /\ k # l
          BY <1>3, <3>5, <4>3
        <5> QED BY <1>0, <3>1, <5>1 DEF Ownership, OneLeasePerWorker
      <4> QED BY <3>3, <4>2, <4>3
    <3>6. CASE ~Live(l)'
      <4>1. slots'[m].state \notin {"activating", "leased"}
        <5> SUFFICES ASSUME slots'[m].state \in {"activating", "leased"} PROVE FALSE
          OBVIOUS
        <5>1. PICK j \in Leases : Live(j)' /\ leases'[j] # None /\ leases'[j].machine = m
          BY <1>0, <3>3 DEF Ownership, LeaseOwnsSlot, Live
        <5>2. j = l
          BY <1>0, <3>1, <3>2, <5>1 DEF Ownership, OneLeasePerWorker
        <5> QED BY <3>6, <5>1, <5>2
      <4>2. WorkerStage(m)' = "spent"
        BY <1>1, <3>3, <3>4, <4>1 DEF Staged, SlotStates
      <4>3. m \in {Holder(k) : k \in ending}
        BY <3>1, <3>6
      <4> QED BY <4>2, <4>3
    <3> QED BY <3>5, <3>6
  <2>4. CASE slots[m] # None /\ slots[m].state = "retiring"
    <3>1. slots'[m] # None /\ slots'[m].state = "retiring"
      BY <1>0, <2>4 DEF Quiet, SlotRowSteps
    <3> QED BY <1>1, <2>4, <3>1 DEF Staged
  <2> QED BY <1>1, <2>1, <2>2, <2>3, <2>4 DEF Staged, SlotStates
<1>5. ending \in SUBSET Promise!LiveNow /\ discarded \in SUBSET Promise!Spare
  <2>1. \A l \in ending : LeaseStage(l) \in {"pending", "open"}
    BY <1>1 DEF Staged, Live, LiveStates
  <2> QED BY <2>1 DEF Promise!LiveNow, Promise!Spare
<1>6. ending \in SUBSET Leases
  OBVIOUS
<1> HIDE DEF ending, discarded
<1>7. Promise!End(ending, discarded)
  BY <1>2, <1>4, <1>6 DEF Promise!End, Holder
<1> QED BY <1>5, <1>7 DEF Promise!Next

\* A claim grants a spare worker and discards those it passed over.
LEMMA ClaimGrants ==
    ASSUME IInv, [Next]_vars, NEW p \in Pools, NEW k \in Keys, NEW l \in Leases, Claim(p, k, l)
    PROVE  Promise!Next
<1>0. TypeOK /\ TypeOK'
  BY TypeStep DEF IInv
<1>1. Staged /\ Staged'
  BY <1>0, Stages, PTL
<1>2. /\ leases[l] = None /\ leases'[l] # None /\ leases'[l].state = "activating"
      /\ \A j \in Leases \ {l} : leases'[j] = leases[j]
  BY <1>0, ClaimRows
<1>3. PICK m \in Claimable(p), passed \in SUBSET Unclaimable(p) :
        /\ m \in Machines /\ m \notin passed
        /\ slots[m] # None /\ slots[m].state = "ready"
        /\ leases'[l].machine = m
        /\ slots'[m] # None /\ slots'[m].state = "activating"
        /\ \A n \in Machines \ {m} : slots'[n] = Retired(passed)[n]
  BY <1>0, ClaimRows
<1>4. \A n \in passed : n \in Machines /\ slots[n] # None /\ slots[n].state = "ready"
  BY DEF Unclaimable, SlotsIn
<1>5. passed \in SUBSET Promise!Spare
  BY <1>1, <1>4 DEF Staged, Promise!Spare
<1>6. WorkerStage(m) = "spare" /\ WorkerStage(m)' = "given"
  BY <1>1, <1>3 DEF Staged
<1>7. ASSUME NEW n \in Machines \ {m}
      PROVE  WorkerStage(n)' = IF n \in passed THEN "spent" ELSE WorkerStage(n)
  <2>1. slots'[n] = IF n \in passed /\ slots[n] # None
                    THEN [slots[n] EXCEPT !.state = "retiring"] ELSE slots[n]
    BY <1>3 DEF Retired
  <2>2. CASE n \in passed
    <3>1. slots[n] \in SlotRecord /\ slots'[n] = [slots[n] EXCEPT !.state = "retiring"]
      BY <1>0, <1>4, <2>1, <2>2 DEF TypeOK
    <3>2. slots'[n] \in SlotRecord /\ slots'[n].state = "retiring"
      BY <3>1 DEF SlotRecord, SlotStates
    <3>3. WorkerStage(n)' = "spent"
      BY <1>1, <3>2, NoneIsNoRow DEF Staged
    <3> QED BY <2>2, <3>3
  <2>3. CASE n \notin passed
    <3>1. slots'[n] = slots[n]
      BY <2>1, <2>3
    <3>2. WorkerStage(n)' = WorkerStage(n)
      BY <3>1 DEF WorkerStage
    <3> QED BY <2>3, <3>2
  <2> QED BY <2>2, <2>3
<1>8. LeaseStage(l) = "none" /\ LeaseStage(l)' = "pending" /\ Holder(l)' = m
  BY <1>1, <1>2, <1>3 DEF Staged, Holder
<1>9. \A j \in Leases \ {l} : LeaseStage(j)' = LeaseStage(j) /\ Holder(j)' = Holder(j)
  BY <1>2 DEF LeaseStage, Holder
<1>10. Promise!Grant(l, m, passed)
  BY <1>3, <1>6, <1>7, <1>8, <1>9 DEF Promise!Grant, Holder
<1> QED BY <1>3, <1>5, <1>10 DEF Promise!Next

\* A commit of an activation opens the lease, or comes too late and does nothing.
LEMMA CommitOpens ==
    ASSUME IInv, [Next]_vars, NEW l \in Leases, ActivateCommit(l)
    PROVE  [Promise!Next]_(Promise!promised)
<1>0. TypeOK /\ TypeOK' /\ Ownership
  BY TypeStep DEF IInv
<1>1. Staged /\ Staged'
  BY <1>0, Stages, PTL
<1>2. CASE UNCHANGED <<leases, slots>>
  <2>1. \A m \in Machines : WorkerStage(m)' = WorkerStage(m)
    BY <1>2 DEF WorkerStage
  <2>2. \A j \in Leases : LeaseStage(j)' = LeaseStage(j) /\ Holder(j)' = Holder(j)
    BY <1>2 DEF LeaseStage, Holder
  <2> QED BY <2>1, <2>2, PromiseStutters
<1>3. CASE leases[l] # None /\ leases[l].state = "activating"
  <2> DEFINE u == [leases[l] EXCEPT !.state = "active", !.left = Ttl]
  <2>1. PICK m \in Machines : m = leases[l].machine
    BY <1>0, <1>3 DEF TypeOK, LeaseRecord
  <2>2. leases[l] \in LeaseRecord /\ Live(l)
    BY <1>0, <1>3 DEF TypeOK, Live, LiveStates
  <2>3. slots[m] # None /\ slots[m].state = "activating" /\ slots[m] \in SlotRecord
    BY <1>0, <1>3, <2>1, <2>2 DEF Ownership, LeaseOwnsSlot, TypeOK
  <2>4. slots' = [slots EXCEPT ![m] = [slots[m] EXCEPT !.state = "leased"]]
    BY <1>3, <2>1, <2>3 DEF ActivateCommit, Transition
  <2>5. leases' = [leases EXCEPT ![l] = u]
    BY <1>0, <1>3 DEF ActivateCommit, Transition, TypeOK
  <2>6. u \in LeaseRecord /\ u.state = "active" /\ u.machine = m
    BY <2>1, <2>2, PositiveTimes DEF LeaseRecord, LiveStates
  <2>7. u # None
    BY <2>6, NoneIsNoRow
  <2> HIDE DEF u
  <2>8. leases'[l] = u /\ \A j \in Leases \ {l} : leases'[j] = leases[j]
    BY <1>0, <2>5 DEF TypeOK
  <2>9. slots'[m] # None /\ slots'[m].state = "leased"
    <3>1. slots'[m] \in SlotRecord /\ slots'[m].state = "leased"
      BY <1>0, <2>3, <2>4 DEF TypeOK, SlotRecord, SlotStates
    <3> QED BY <3>1, NoneIsNoRow
  <2>10. WorkerStage(m)' = WorkerStage(m)
    BY <1>1, <2>3, <2>9 DEF Staged
  <2>11. ASSUME NEW n \in Machines \ {m} PROVE WorkerStage(n)' = WorkerStage(n)
    <3>1. slots'[n] = slots[n]
      BY <1>0, <2>4 DEF TypeOK
    <3> QED BY <3>1 DEF WorkerStage
  <2>12. LeaseStage(l) = "pending" /\ LeaseStage(l)' = "open" /\ Holder(l)' = Holder(l)
    BY <1>1, <1>3, <2>1, <2>6, <2>7, <2>8 DEF Staged, Holder
  <2>13. \A j \in Leases \ {l} : LeaseStage(j)' = LeaseStage(j) /\ Holder(j)' = Holder(j)
    BY <2>8 DEF LeaseStage, Holder
  <2>14. Promise!Open(l)
    BY <2>10, <2>11, <2>12, <2>13 DEF Promise!Open, Holder
  <2> QED BY <2>14 DEF Promise!Next
<1> QED BY <1>2, <1>3 DEF ActivateCommit, Transition

\* A reservation stocks a worker under a name no lease remembers.
LEMMA ReserveStocks ==
    ASSUME IInv, [Next]_vars, NEW p \in Pools, NEW m \in Machines, FillReserve(p, m)
    PROVE  Promise!Next
<1>0. TypeOK /\ TypeOK'
  BY TypeStep DEF IInv
<1>1. Staged /\ Staged'
  BY <1>0, Stages, PTL
<1>2. /\ slots[m] = None /\ leases' = leases
      /\ slots'[m] = [pool |-> p, state |-> "provisioning", lease |-> None]
      /\ \A n \in Machines \ {m} : slots'[n] = slots[n]
      /\ \A l \in Leases : leases[l] # None => leases[l].machine # m
  BY <1>0 DEF FillReserve, FreshMachine, TypeOK
<1>3. slots'[m] # None /\ slots'[m].state = "provisioning"
  <2>1. slots'[m] \in SlotRecord /\ slots'[m].state = "provisioning"
    BY <1>2 DEF SlotRecord, SlotStates
  <2> QED BY <2>1, NoneIsNoRow
<1>4. WorkerStage(m) = "absent" /\ WorkerStage(m)' = "spare"
  BY <1>1, <1>2, <1>3 DEF Staged
<1>5. \A n \in Machines \ {m} : WorkerStage(n)' = WorkerStage(n)
  BY <1>2 DEF WorkerStage
<1>6. \A l \in Leases : LeaseStage(l)' = LeaseStage(l) /\ Holder(l)' = Holder(l) /\ Holder(l) # m
  BY <1>2, NoneIsNoRow DEF LeaseStage, Holder
<1>7. Promise!Stock(m)
  BY <1>4, <1>5, <1>6 DEF Promise!Stock, Holder
<1> QED BY <1>7 DEF Promise!Next

\* What the controller deletes is spent, or gone already.
LEMMA DeleteRemoves ==
    ASSUME IInv, [Next]_vars, NEW m \in Machines, DeleteRetired(m)
    PROVE  [Promise!Next]_(Promise!promised)
<1>0. TypeOK /\ TypeOK' /\ FillOwnsBatch
  BY TypeStep DEF IInv
<1>1. Staged /\ Staged'
  BY <1>0, Stages, PTL
<1>2. /\ leases' = leases /\ slots'[m] = None
      /\ \A n \in Machines \ {m} : slots'[n] = slots[n]
      /\ slots[m] # None => slots[m].state = "retiring"
  BY <1>0 DEF DeleteRetired, TypeOK, FillOwnsBatch
<1>3. WorkerStage(m)' = "absent"
  BY <1>1, <1>2 DEF Staged
<1>4. \A n \in Machines \ {m} : WorkerStage(n)' = WorkerStage(n)
  BY <1>2 DEF WorkerStage
<1>5. \A l \in Leases : LeaseStage(l)' = LeaseStage(l) /\ Holder(l)' = Holder(l)
  BY <1>2 DEF LeaseStage, Holder
<1>6. CASE slots[m] = None
  <2>1. WorkerStage(m) = "absent"
    BY <1>1, <1>6 DEF Staged
  <2> QED BY <1>3, <1>4, <1>5, <2>1, PromiseStutters
<1>7. CASE slots[m] # None
  <2>1. WorkerStage(m) = "spent"
    BY <1>1, <1>2, <1>7 DEF Staged
  <2>2. Promise!Remove(m)
    BY <1>3, <1>4, <1>5, <2>1 DEF Promise!Remove, Holder
  <2> QED BY <2>2 DEF Promise!Next
<1> QED BY <1>6, <1>7

\* The leases that go with a drained pool have all ended.
LEMMA FinalizeForgets ==
    ASSUME IInv, [Next]_vars, FinalizePools PROVE Promise!Next
<1>0. TypeOK /\ TypeOK' /\ DeletingPoolDrains
  BY TypeStep DEF IInv
<1>1. Staged /\ Staged'
  BY <1>0, Stages, PTL
<1>2. PICK forgotten \in SUBSET Leases :
        forgotten = {l \in Leases : leases[l] # None /\ leases[l].pool \in Drained}
  OBVIOUS
<1>3. \A l \in Leases : leases'[l] = IF l \in forgotten THEN None ELSE leases[l]
  BY <1>2 DEF FinalizePools
<1>4. slots' = slots
  BY DEF FinalizePools
<1>5. ASSUME NEW l \in forgotten PROVE LeaseStage(l) = "ended"
  <2>1. leases[l] # None /\ ~Live(l)
    BY <1>0, <1>2 DEF DeletingPoolDrains, Drained
  <2> QED BY <1>1, <2>1 DEF Staged, Live
<1>6. \A l \in Leases : /\ LeaseStage(l)' = IF l \in forgotten THEN "none" ELSE LeaseStage(l)
                        /\ Holder(l)' = IF l \in forgotten THEN None ELSE Holder(l)
  <2> SUFFICES ASSUME NEW l \in Leases
               PROVE  /\ LeaseStage(l)' = IF l \in forgotten THEN "none" ELSE LeaseStage(l)
                      /\ Holder(l)' = IF l \in forgotten THEN None ELSE Holder(l)
    OBVIOUS
  <2>1. CASE l \in forgotten
    BY <1>1, <1>3, <2>1 DEF Staged, Holder
  <2>2. CASE l \notin forgotten
    <3>1. leases'[l] = leases[l]
      BY <1>3, <2>2
    <3>2. LeaseStage(l)' = LeaseStage(l) /\ Holder(l)' = Holder(l)
      BY <3>1 DEF LeaseStage, Holder
    <3> QED BY <2>2, <3>2
  <2> QED BY <2>1, <2>2
<1>7. \A m \in Machines : WorkerStage(m)' = WorkerStage(m)
  BY <1>4 DEF WorkerStage
<1>8. Promise!Forget(forgotten)
  BY <1>5, <1>6, <1>7 DEF Promise!Forget, Holder
<1> QED BY <1>8 DEF Promise!Next

\* Every step of every handler, task, pass and restart is a step of OneShot or
\* none at all.
LEMMA PromiseStep == IInv /\ [Next]_vars => [Promise!Next]_(Promise!promised)
<1> SUFFICES ASSUME IInv, [Next]_vars PROVE [Promise!Next]_(Promise!promised)
  OBVIOUS
<1>1. TypeOK
  BY DEF IInv
<1>2. CASE Quiet
  BY <1>2, QuietEnds
<1>3. CASE \E p \in Pools, k \in Keys, l \in Leases : Claim(p, k, l)
  BY <1>3, ClaimGrants
<1>4. CASE \E l \in Leases : ActivateCommit(l)
  BY <1>4, CommitOpens
<1>5. CASE \E p \in Pools, m \in Machines : FillReserve(p, m)
  BY <1>5, ReserveStocks
<1>6. CASE \E m \in Machines : DeleteRetired(m)
  BY <1>6, DeleteRemoves
<1>7. CASE FinalizePools
  BY <1>7, FinalizeForgets
<1> QED BY <1>1, <1>2, <1>3, <1>4, <1>5, <1>6, <1>7, StepKinds

\* The pools keep their promise: through claims, late activations, expiries,
\* deletions, fills and restarts a worker is given to one lease at most and then
\* spent, a lease opens at most once and ends together with its worker, and a
\* worker's name does not come back while a lease remembers it.
THEOREM PromiseIsKept == Spec => KeepsPromise
<1>1. Init => Promise!Init
  <2> SUFFICES ASSUME Init PROVE Promise!Init
    OBVIOUS
  <2>1. Staged
    BY TypeInit, Stages
  <2>2. /\ \A m \in Machines : WorkerStage(m) = "absent"
        /\ \A l \in Leases : LeaseStage(l) = "none" /\ Holder(l) = None
    BY <2>1 DEF Staged, Init, Holder
  <2> QED BY <2>2 DEF Promise!Init, Holder
<1> QED BY <1>1, PromiseStep, Invariance, PTL DEF Spec, KeepsPromise, Promise!Spec
=============================================================================
