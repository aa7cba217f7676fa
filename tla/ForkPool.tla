------------------------------ MODULE ForkPool ------------------------------
(***************************************************************************)
(* Warm fork pools and their one-shot leases.                              *)
(*                                                                         *)
(* The server keeps, per pool, a number of workers: machines forked from a *)
(* golden machine and parked ("held") at its forkpoint.  A client acquires *)
(* a lease, which consumes one held worker for good; the worker is deleted *)
(* and replaced when the lease ends.  Four SQLite tables hold the durable  *)
(* state; every action that writes them is one transaction of db.rs.  The  *)
(* actors are the API handlers (pools.rs), the detached activation tasks,  *)
(* the single pool controller, its fill tasks (pool_controller.rs), and    *)
(* the outside world: workers exit, are paused and resumed, are deleted by *)
(* users, and the server itself stops and restarts at any point.           *)
(***************************************************************************)
EXTENDS Naturals, FiniteSets, TLC

CONSTANTS
    Pools,            \* pool names
    Goldens,          \* golden machines a pool may fork
    Machines,         \* worker names the fills may generate
    Leases,           \* lease identifiers the handlers may generate
    Keys,             \* idempotency keys clients use
    Sizes,            \* desired_ready values requests carry
    MaxActives,       \* max_active values requests carry, None: unlimited
    Device,           \* Device[g]: the CUDA device of golden g, None: no GPU
    Autos,            \* auto_admission values requests carry
    PoolLimits,       \* per-pool limits adaptive admission may answer
    DeviceLimit,      \* the largest per-device limit adaptive admission answers
    MountsWorkspace,  \* goldens with external storage under /workspace
    Pausable,         \* workers that memory pressure or a user may pause
    MaxBatch,         \* MAX_PREPARED_POOL_WORKERS
    Ttl,              \* lease TTL, in clock ticks
    Grace,            \* FORK_LEASE_ACTIVATION_GRACE_SECS, in clock ticks
    MaxFaults,        \* bound: server restarts and failed controller passes
    None              \* a missing row

ASSUME PositiveTimes == Ttl \in Nat \ {0} /\ Grace \in Nat \ {0}
ASSUME BoundsAreNat == MaxBatch \in Nat \ {0} /\ MaxFaults \in Nat
ASSUME RequestValues ==
    /\ Sizes \subseteq Nat
    /\ MaxActives \subseteq (Nat \ {0}) \cup {None}
    /\ Autos \subseteq BOOLEAN
    /\ PoolLimits \subseteq Nat
    /\ DeviceLimit \in Nat
    /\ MountsWorkspace \subseteq Goldens
    /\ Pausable \subseteq Machines
    /\ DOMAIN Device = Goldens
VARIABLES
    pools,     \* table fork_pools
    slots,     \* table fork_pool_slots, by machine name
    leases,    \* table fork_leases, by lease id
    vms,       \* table vms with the VMM process behind each row
    fill,      \* the fill task of each pool (ForkPoolController::fill_pool)
    ctl,       \* where the controller is in its pass, and what it has listed
    backoff,   \* pools whose fill_backoff delay has not elapsed
    act,       \* the detached activation task of each lease
    beat,      \* heartbeats between their transaction and the worker lookup
    faults     \* server restarts and failed controller passes so far

db == <<pools, slots, leases, vms>>
vars == <<pools, slots, leases, vms, fill, ctl, backoff, act, beat, faults>>

SlotStates == {"provisioning", "ready", "activating", "leased", "retiring"}
LiveStates == {"activating", "active"}
EndStates == {"completed", "expired", "failed", "cancelled"}

PoolRecord == [golden : Goldens, desired : Nat, maxActive : Nat \cup {None},
               auto : BOOLEAN, deleting : BOOLEAN]
SlotRecord == [pool : Pools, state : SlotStates, lease : Leases \cup {None}]
\* left is expires_at minus the clock, never below zero.
LeaseRecord == [pool : Pools, machine : Machines, key : Keys,
                state : LiveStates \cup EndStates, left : Nat]
\* run: "up" while the VMM process lives, "paused" when its execution is saved
\* and the process is gone, "off" before boot and after the process exits.
VmRecord == [golden : Goldens, held : BOOLEAN, run : {"off", "up", "paused"}]

ASSUME NoneIsNoRow ==
    /\ None \notin Nat \cup Pools \cup Goldens \cup Machines \cup Leases \cup Keys
    /\ None \notin PoolRecord
    /\ None \notin SlotRecord
    /\ None \notin LeaseRecord
    /\ None \notin VmRecord

FillSteps == {"idle", "queued", "reserve", "source", "boot", "drain", "done"}
FillTask == [pc : FillSteps, golden : Goldens \cup {None},
             batch : SUBSET Machines, todo : SUBSET Machines,
             ok : SUBSET Machines, bad : SUBSET Machines,
             ready : BOOLEAN, failed : BOOLEAN]
CtlSteps == {"recover", "expire", "ready", "leased", "delete", "finalize", "fill"}

TypeOK ==
    /\ pools \in [Pools -> PoolRecord \cup {None}]
    /\ slots \in [Machines -> SlotRecord \cup {None}]
    /\ leases \in [Leases -> LeaseRecord \cup {None}]
    /\ vms \in [Machines -> VmRecord \cup {None}]
    /\ fill \in [Pools -> FillTask]
    /\ \A p \in Pools : fill[p].pc # "idle" => fill[p].golden \in Goldens
    /\ ctl \in [pc : CtlSteps, todo : SUBSET (Machines \cup Leases \cup Pools)]
    /\ ctl.pc \in {"recover", "ready", "delete"} => ctl.todo \subseteq Machines
    /\ backoff \subseteq Pools
    /\ act \in [Leases -> {"none", "lookup", "release"}]
    /\ beat \subseteq Leases
    /\ faults \in Nat

-----------------------------------------------------------------------------
(* Rows and locks *)

Live(l) == leases[l] # None /\ leases[l].state \in LiveStates

SlotsIn(p, states) ==
    {m \in Machines : slots[m] # None /\ slots[m].pool = p /\ slots[m].state \in states}

Available(p) == SlotsIn(p, {"provisioning", "ready"})

LiveLeases(p) == {l \in Leases : Live(l) /\ leases[l].pool = p}

\* Every row of S retired, the rest of the table as it is.
Retired(S) ==
    [m \in Machines |-> IF m \in S /\ slots[m] # None
                        THEN [slots[m] EXCEPT !.state = "retiring"] ELSE slots[m]]

\* Mutant of MoveSlot: the UPDATE without its "AND state = expected".
MoveSlotUnchecked(m, expected, next) ==
    slots' = IF slots[m] # None THEN [slots EXCEPT ![m].state = next] ELSE slots

\* update_fork_pool_slot_state: the row moves only from the expected state.
MoveSlot(m, expected, next) ==
    slots' = IF slots[m] # None /\ slots[m].state = expected
             THEN [slots EXCEPT ![m].state = next] ELSE slots

\* Mutant of Transition: the expected state is not compared.
TransitionUnchecked(l, expected, next, slotNext) ==
    IF leases[l] # None
    THEN /\ leases' = [leases EXCEPT ![l].state = next]
         /\ slots' = IF slots[leases[l].machine] # None
                     THEN [slots EXCEPT ![leases[l].machine].state = slotNext]
                     ELSE slots
    ELSE UNCHANGED <<leases, slots>>

\* Mutant of Transition: the expected state is not compared when a lease ends.
TransitionEndsAnyway(l, expected, next, slotNext) ==
    IF leases[l] # None /\ (leases[l].state = expected \/ next \in EndStates)
    THEN /\ leases' = [leases EXCEPT ![l].state = next,
                                     ![l].left = IF next = "active" THEN Ttl ELSE @]
         /\ slots' = IF slots[leases[l].machine] # None
                     THEN [slots EXCEPT ![leases[l].machine].state = slotNext]
                     ELSE slots
    ELSE UNCHANGED <<leases, slots>>

\* Mutant of Transition: the slot's UPDATE is bound to the lease's new state.
TransitionMixesColumns(l, expected, next, slotNext) ==
    IF leases[l] # None /\ leases[l].state = expected
    THEN /\ leases' = [leases EXCEPT ![l].state = next,
                                     ![l].left = IF next = "active" THEN Ttl ELSE @]
         /\ slots' = IF slots[leases[l].machine] # None
                     THEN [slots EXCEPT ![leases[l].machine].state = next]
                     ELSE slots
    ELSE UNCHANGED <<leases, slots>>

\* transition_fork_lease: nothing happens unless the lease is in the expected
\* state; then its slot row, if there is one, takes the given state.
Transition(l, expected, next, slotNext) ==
    IF leases[l] # None /\ leases[l].state = expected
    THEN /\ leases' = [leases EXCEPT ![l].state = next,
                                     ![l].left = IF next = "active" THEN Ttl ELSE @]
         /\ slots' = IF slots[leases[l].machine] # None
                     THEN [slots EXCEPT ![leases[l].machine].state = slotNext]
                     ELSE slots
    ELSE UNCHANGED <<leases, slots>>

\* A held, running fork of the golden: what the controller calls a valid worker.
ValidWorker(m, golden) ==
    vms[m] # None /\ vms[m].held /\ vms[m].golden = golden /\ vms[m].run = "up"

\* The golden's lifecycle lock, held by a fill until its checkpoint is published.
GoldenLocked(g) ==
    \E p \in Pools : /\ fill[p].golden = g
                     /\ \/ fill[p].pc \in {"reserve", "source"}
                        \/ fill[p].pc = "boot" /\ fill[p].todo # {}

\* The golden's fork-source lock, held through preparation and boot of a batch.
SourceLocked(g) ==
    \E p \in Pools : fill[p].golden = g /\ fill[p].pc \in {"boot", "drain"}
                     /\ fill[p].todo # {}

\* The clones' lifecycle locks, taken only once the forkpoint was reached.
CloneLocked(m) ==
    \E p \in Pools : m \in fill[p].batch /\ fill[p].todo # {}
                     /\ fill[p].pc \in {"boot", "drain"}

\* generate_short_id: a name nothing refers to.
FreshMachine(m) ==
    /\ slots[m] = None /\ vms[m] = None
    /\ \A l \in Leases : leases[l] # None => leases[l].machine # m
    /\ \A p \in Pools : m \notin fill[p].batch
    /\ m \notin ctl.todo

FreshLease(l) == leases[l] = None /\ act[l] = "none" /\ l \notin beat /\ l \notin ctl.todo

NoFill == [pc |-> "idle", golden |-> None, batch |-> {}, todo |-> {}, ok |-> {},
           bad |-> {}, ready |-> FALSE, failed |-> FALSE]

Init ==
    /\ pools = [p \in Pools |-> None]
    /\ slots = [m \in Machines |-> None]
    /\ leases = [l \in Leases |-> None]
    /\ vms = [m \in Machines |-> None]
    /\ fill = [p \in Pools |-> NoFill]
    /\ ctl = [pc |-> "recover", todo |-> {}]
    /\ backoff = {}
    /\ act = [l \in Leases |-> "none"]
    /\ beat = {}
    /\ faults = 0

-----------------------------------------------------------------------------
(* API handlers: pools *)

\* create_pool: the golden is a running forkable machine; automatic admission
\* needs a GPU.  An existing pool of that name is left alone.
CreatePool(p, g, n, mx, auto) ==
    /\ pools[p] = None
    /\ n > 0
    /\ auto => Device[g] # None
    /\ pools' = [pools EXCEPT ![p] = [golden |-> g, desired |-> n, maxActive |-> mx,
                                      auto |-> auto, deleting |-> FALSE]]
    /\ UNCHANGED <<slots, leases, vms, fill, ctl, backoff, act, beat, faults>>

\* resize_fork_pool: surplus workers retire, provisioning ones first and then
\* in name order; names are random, so any choice within a state may come up.
Surplus(p, n) ==
    {S \in SUBSET Available(p) :
        /\ Cardinality(S) = IF Cardinality(Available(p)) > n
                            THEN Cardinality(Available(p)) - n ELSE 0
        /\ S \subseteq SlotsIn(p, {"provisioning"}) \/ SlotsIn(p, {"provisioning"}) \subseteq S}

ResizePool(p, n) ==
    /\ pools[p] # None
    /\ ~pools[p].deleting
    /\ \E S \in Surplus(p, n) :
        /\ pools' = [pools EXCEPT ![p].desired = n]
        /\ slots' = Retired(S)
    /\ UNCHANGED <<leases, vms, fill, ctl, backoff, act, beat, faults>>

\* begin_delete_fork_pool: refused while leases live, unless forced; then every
\* worker retires and the live leases are cancelled in the same transaction.
DeletePool(p, force) ==
    /\ pools[p] # None
    /\ force \/ LiveLeases(p) = {}
    /\ pools' = [pools EXCEPT ![p].deleting = TRUE]
    /\ slots' = Retired(SlotsIn(p, SlotStates))
    /\ leases' = [l \in Leases |-> IF l \in LiveLeases(p)
                                   THEN [leases[l] EXCEPT !.state = "cancelled"] ELSE leases[l]]
    /\ UNCHANGED <<vms, fill, ctl, backoff, act, beat, faults>>

-----------------------------------------------------------------------------
(* API handlers: leases *)

\* AdmissionController::limit answers only for pools under automatic admission.
\* The handler reads the pool's row once, before it starts to wait for a worker:
\* by the time it claims, the pool may have been deleted and created anew, so the
\* request may hold the answer for any admission mode in use.
AnswersOf(auto) == IF auto THEN PoolLimits ELSE {None}
LimitsSeen == UNION {AnswersOf(auto) : auto \in Autos}

\* Mutant of OnDevice: leases still activating are not counted.
OnDeviceActive(d) ==
    {l \in Leases : Live(l) /\ leases[l].state = "active" /\ pools[leases[l].pool] # None
                    /\ Device[pools[leases[l].pool].golden] = d}

OnDevice(d) ==
    {l \in Leases : Live(l) /\ pools[leases[l].pool] # None
                    /\ Device[pools[leases[l].pool].golden] = d}

\* Mutant of Admits: the key is looked up among the live leases only.
AdmitsEndedKey(p, k, limit) ==
    /\ \A l \in Leases : Live(l) => ~(leases[l].pool = p /\ leases[l].key = k)
    /\ pools[p] # None
    /\ ~pools[p].deleting
    /\ pools[p].maxActive # None => Cardinality(LiveLeases(p)) < pools[p].maxActive

\* The conditions claim_fork_pool_slot checks before it looks at any worker.
Admits(p, k, limit) ==
    /\ \A l \in Leases : leases[l] # None => ~(leases[l].pool = p /\ leases[l].key = k)
    /\ pools[p] # None
    /\ ~pools[p].deleting
    /\ pools[p].maxActive # None => Cardinality(LiveLeases(p)) < pools[p].maxActive
    /\ limit # None =>
         /\ Cardinality(LiveLeases(p)) < limit
         /\ Device[pools[p].golden] # None =>
              Cardinality(OnDevice(Device[pools[p].golden])) < DeviceLimit

\* Mutant of Claimable: the worker's fork source is not compared.
ClaimableAnyGolden(p) == {m \in SlotsIn(p, {"ready"}) : vms[m] # None /\ vms[m].held}

\* Ready workers the claim accepts.  The process is not looked at here.
Claimable(p) ==
    {m \in SlotsIn(p, {"ready"}) :
        vms[m] # None /\ vms[m].held /\ vms[m].golden = pools[p].golden}

Unclaimable(p) == SlotsIn(p, {"ready"}) \ Claimable(p)

\* claim_fork_pool_slot: takes the first acceptable worker in name order and
\* retires the unacceptable ones it passes over on the way.
Claim(p, k, l) ==
    /\ FreshLease(l)
    /\ pools[p] # None
    /\ \E limit \in LimitsSeen : Admits(p, k, limit)
    /\ \E m \in Claimable(p), passed \in SUBSET Unclaimable(p) :
        /\ slots' = [Retired(passed) EXCEPT ![m].state = "activating", ![m].lease = l]
        /\ vms' = [vms EXCEPT ![m].held = FALSE]
        /\ leases' = [leases EXCEPT ![l] = [pool |-> p, machine |-> m, key |-> k,
                                            state |-> "activating", left |-> Grace]]
    /\ act' = [act EXCEPT ![l] = "lookup"]
    /\ UNCHANGED <<pools, fill, ctl, backoff, beat, faults>>

\* The claim found no acceptable worker, or the first acceptable one cannot
\* take a payload: the retirements made on the way are committed all the same.
ClaimRefused(p, k) ==
    /\ pools[p] # None
    /\ \E limit \in LimitsSeen : Admits(p, k, limit)
    /\ \E passed \in SUBSET Unclaimable(p) :
        /\ IF Claimable(p) = {} THEN passed = Unclaimable(p)
                                ELSE pools[p].golden \in MountsWorkspace
        /\ slots' = Retired(passed)
    /\ UNCHANGED <<pools, leases, vms, fill, ctl, backoff, act, beat, faults>>

\* heartbeat_fork_lease: extends an active lease whose deadline is ahead.
Heartbeat(l) ==
    /\ leases[l] # None /\ leases[l].state = "active" /\ leases[l].left > 0
    /\ l \notin beat
    /\ leases' = [leases EXCEPT ![l].left = Ttl]
    /\ beat' = beat \cup {l}
    /\ UNCHANGED <<pools, slots, vms, fill, ctl, backoff, act, faults>>

\* The second half of heartbeat_lease: it fails the lease unless the worker has
\* a live process, which a paused worker has not.
HeartbeatLookup(l) ==
    /\ l \in beat
    /\ beat' = beat \ {l}
    /\ IF leases[l] # None /\ (vms[leases[l].machine] = None \/ vms[leases[l].machine].run # "up")
       THEN Transition(l, "active", "failed", "retiring")
       ELSE UNCHANGED <<leases, slots>>
    /\ UNCHANGED <<pools, vms, fill, ctl, backoff, act, faults>>

\* Mutant of CompleteLease: the worker goes back to the pool.
CompleteLeaseReuses(l) ==
    /\ leases[l] # None /\ leases[l].state = "active"
    /\ Transition(l, "active", "completed", "ready")
    /\ UNCHANGED <<pools, vms, fill, ctl, backoff, act, beat, faults>>

\* complete_fork_lease
CompleteLease(l) ==
    /\ leases[l] # None /\ leases[l].state = "active"
    /\ Transition(l, "active", "completed", "retiring")
    /\ UNCHANGED <<pools, vms, fill, ctl, backoff, act, beat, faults>>

-----------------------------------------------------------------------------
(* activate_claimed_lease, a task of its own that outlives the request *)

ActivateLookup(l) ==
    /\ act[l] = "lookup"
    /\ IF leases[l] # None /\ vms[leases[l].machine] = None
       THEN Transition(l, "activating", "failed", "retiring")
            /\ act' = [act EXCEPT ![l] = "none"]
       ELSE UNCHANGED <<leases, slots>> /\ act' = [act EXCEPT ![l] = "release"]
    /\ UNCHANGED <<pools, vms, fill, ctl, backoff, beat, faults>>

\* Payload staged and guest released; the commit may come after the lease ended.
ActivateCommit(l) ==
    /\ act[l] = "release"
    /\ Transition(l, "activating", "active", "leased")
    /\ act' = [act EXCEPT ![l] = "none"]
    /\ UNCHANGED <<pools, vms, fill, ctl, backoff, beat, faults>>

ActivateFail(l) ==
    /\ act[l] = "release"
    /\ Transition(l, "activating", "failed", "retiring")
    /\ act' = [act EXCEPT ![l] = "none"]
    /\ UNCHANGED <<pools, vms, fill, ctl, backoff, beat, faults>>

\* The lookup failed, a blocking task panicked, or the commit did: the lease is
\* left activating for the controller to expire.
ActivateLost(l) ==
    /\ act[l] # "none"
    /\ act' = [act EXCEPT ![l] = "none"]
    /\ UNCHANGED <<pools, slots, leases, vms, fill, ctl, backoff, beat, faults>>

-----------------------------------------------------------------------------
(* The controller: recover once, then one pass after another.  A step that    *)
(* closes a phase also takes the listing the next phase works through.        *)

\* recover_interrupted_provisioning: no fill survived the restart, so every
\* provisioning row is residue.
RecoverSlot(m) ==
    /\ ctl.pc = "recover" /\ m \in ctl.todo
    /\ MoveSlot(m, "provisioning",
                IF slots[m] # None /\ pools[slots[m].pool] # None
                   /\ ValidWorker(m, pools[slots[m].pool].golden)
                THEN "ready" ELSE "retiring")
    /\ ctl' = [ctl EXCEPT !.todo = @ \ {m}]
    /\ UNCHANGED <<pools, leases, vms, fill, backoff, act, beat, faults>>

\* Mutant of ReapFill: a fill that found nothing to do is not collected.
ReapFillWithResult(p) ==
    /\ ctl.pc = "expire"
    /\ fill[p].pc = "done" /\ (fill[p].ready \/ fill[p].failed)
    /\ fill' = [fill EXCEPT ![p] = NoFill]
    /\ backoff' = IF fill[p].ready THEN backoff \ {p} ELSE backoff \cup {p}
    /\ UNCHANGED <<pools, slots, leases, vms, ctl, act, beat, faults>>

\* handle_fill_task, between two passes.
ReapFill(p) ==
    /\ ctl.pc = "expire"
    /\ fill[p].pc = "done"
    /\ fill' = [fill EXCEPT ![p] = NoFill]
    /\ backoff' = IF fill[p].ready THEN backoff \ {p}
                  ELSE IF fill[p].failed THEN backoff \cup {p} ELSE backoff
    /\ UNCHANGED <<pools, slots, leases, vms, ctl, act, beat, faults>>

\* Mutant of Overdue: only active leases are looked at.
OverdueActive == {l \in Leases : Live(l) /\ leases[l].state = "active" /\ leases[l].left = 0}

\* expire_fork_leases
Overdue == {l \in Leases : Live(l) /\ leases[l].left = 0}

ExpireLeases ==
    /\ ctl.pc = "expire"
    /\ leases' = [l \in Leases |-> IF l \in Overdue
                                   THEN [leases[l] EXCEPT !.state = "expired"] ELSE leases[l]]
    /\ slots' = Retired({leases[l].machine : l \in Overdue})
    /\ ctl' = [pc |-> "ready",
               todo |-> {m \in Machines : slots[m] # None /\ slots[m].state = "ready"}]
    /\ UNCHANGED <<pools, vms, fill, backoff, act, beat, faults>>

\* Mutant of CheckReady: the listing is trusted, the row's state not compared.
CheckReadyStale(m) ==
    /\ ctl.pc = "ready" /\ m \in ctl.todo
    /\ slots' = IF slots[m] # None /\ pools[slots[m].pool] # None
                   /\ ValidWorker(m, pools[slots[m].pool].golden)
                THEN slots ELSE Retired({m})
    /\ ctl' = [ctl EXCEPT !.todo = @ \ {m}]
    /\ UNCHANGED <<pools, leases, vms, fill, backoff, act, beat, faults>>

\* retire_invalid_ready_workers, for one worker of the listing.  A claim may
\* have taken it since: only a row that is still ready is retired.
CheckReady(m) ==
    /\ ctl.pc = "ready" /\ m \in ctl.todo
    /\ IF slots[m] # None /\ pools[slots[m].pool] # None
          /\ ValidWorker(m, pools[slots[m].pool].golden)
       THEN UNCHANGED slots
       ELSE MoveSlot(m, "ready", "retiring")
    /\ ctl' = [ctl EXCEPT !.todo = @ \ {m}]
    /\ UNCHANGED <<pools, leases, vms, fill, backoff, act, beat, faults>>

\* leased_worker_is_live: a paused worker is kept for its client.
LeasedWorkerIsLive(m) == vms[m] # None /\ vms[m].run \in {"up", "paused"}

\* retire_dead_leased_workers, for one lease of the listing.
CheckLeased(l) ==
    /\ ctl.pc = "leased" /\ l \in ctl.todo
    /\ IF leases[l] # None /\ ~LeasedWorkerIsLive(leases[l].machine)
       THEN Transition(l, "active", "failed", "retiring")
       ELSE UNCHANGED <<leases, slots>>
    /\ ctl' = [ctl EXCEPT !.todo = @ \ {l}]
    /\ UNCHANGED <<pools, vms, fill, backoff, act, beat, faults>>

\* Mutant of DeleteRetired: a machine that is already gone is a failure.
DeleteRetiredMissing(m) ==
    /\ ctl.pc = "delete" /\ m \in ctl.todo
    /\ ~CloneLocked(m)
    /\ vms' = [vms EXCEPT ![m] = None]
    /\ slots' = IF vms[m] = None THEN slots ELSE [slots EXCEPT ![m] = None]
    /\ ctl' = [ctl EXCEPT !.todo = @ \ {m}]
    /\ UNCHANGED <<pools, leases, fill, backoff, act, beat, faults>>

\* delete_retired_workers, for one row of the listing: delete_one waits for the
\* machine's lifecycle lock; a machine that does not exist counts as deleted,
\* and the row is removed.  Between the two steps the database is in the state
\* that UserDeletes leaves behind.
DeleteRetired(m) ==
    /\ ctl.pc = "delete" /\ m \in ctl.todo
    /\ ~CloneLocked(m)
    /\ vms' = [vms EXCEPT ![m] = None]
    /\ slots' = [slots EXCEPT ![m] = None]
    /\ ctl' = [ctl EXCEPT !.todo = @ \ {m}]
    /\ UNCHANGED <<pools, leases, fill, backoff, act, beat, faults>>

\* delete_one failed for another reason: the row stays for the next pass.
DeleteRetiredFails(m) ==
    /\ ctl.pc = "delete" /\ m \in ctl.todo
    /\ vms[m] # None
    /\ ctl' = [ctl EXCEPT !.todo = @ \ {m}]
    /\ UNCHANGED <<pools, slots, leases, vms, fill, backoff, act, beat, faults>>

\* Mutant of Drained: the pool also waits for its lease rows to go.
DrainedOfLeases ==
    {p \in Pools : /\ pools[p] # None /\ pools[p].deleting /\ SlotsIn(p, SlotStates) = {}
                   /\ \A l \in Leases : leases[l] # None => leases[l].pool # p}

\* finalize_deleted_fork_pools: drained pools go, and their leases with them.
Drained == {p \in Pools : pools[p] # None /\ pools[p].deleting /\ SlotsIn(p, SlotStates) = {}}

FinalizePools ==
    /\ ctl.pc = "finalize"
    /\ pools' = [p \in Pools |-> IF p \in Drained THEN None ELSE pools[p]]
    /\ leases' = [l \in Leases |-> IF leases[l] # None /\ leases[l].pool \in Drained
                                   THEN None ELSE leases[l]]
    /\ backoff' = backoff \cap {p \in Pools : pools[p] # None /\ p \notin Drained}
    /\ ctl' = [pc |-> "fill", todo |-> {p \in Pools : pools[p] # None /\ p \notin Drained}]
    /\ UNCHANGED <<slots, vms, fill, act, beat, faults>>

\* Mutants of HasDeficit: workers being provisioned are not counted; and a pool
\* being deleted is filled all the same.
HasDeficitOfReady(p) ==
    /\ pools[p] # None
    /\ ~pools[p].deleting
    /\ SlotsIn(p, {"activating"}) = {}
    /\ Cardinality(SlotsIn(p, {"ready"})) < pools[p].desired

HasDeficitDeleting(p) ==
    /\ pools[p] # None
    /\ SlotsIn(p, {"activating"}) = {}
    /\ Cardinality(Available(p)) < pools[p].desired

\* fork_pool_ready_deficit is positive; reserve_fork_pool_slot checks the same.
HasDeficit(p) ==
    /\ pools[p] # None
    /\ ~pools[p].deleting
    /\ SlotsIn(p, {"activating"}) = {}
    /\ Cardinality(Available(p)) < pools[p].desired

\* The end of reconcile_once: spawn a fill for a pool that wants workers.
StartFill(p) ==
    /\ ctl.pc = "fill" /\ p \in ctl.todo
    /\ ctl' = [ctl EXCEPT !.todo = @ \ {p}]
    /\ fill' = IF fill[p].pc = "idle" /\ p \notin backoff /\ HasDeficit(p)
               THEN [fill EXCEPT ![p] = [NoFill EXCEPT !.pc = "queued", !.golden = pools[p].golden]]
               ELSE fill
    /\ UNCHANGED <<pools, slots, leases, vms, backoff, act, beat, faults>>

\* A phase whose listing is worked through gives way to the next one.
NextPhase ==
    /\ ctl.todo = {}
    /\ \/ ctl.pc \in {"recover", "fill"} /\ ctl' = [pc |-> "expire", todo |-> {}]
       \/ /\ ctl.pc = "ready"
          /\ ctl' = [pc |-> "leased",
                     todo |-> {l \in Leases : leases[l] # None /\ leases[l].state = "active"}]
       \/ /\ ctl.pc = "leased"
          /\ ctl' = [pc |-> "delete",
                     todo |-> {m \in Machines : slots[m] # None /\ slots[m].state = "retiring"}]
       \/ ctl.pc = "delete" /\ ctl' = [pc |-> "finalize", todo |-> {}]
    /\ UNCHANGED <<pools, slots, leases, vms, fill, backoff, act, beat, faults>>

\* A database error ends the pass, or the recovery, where it is: the error is
\* logged and the next pass starts over.
PassFails ==
    /\ faults < MaxFaults
    /\ ctl.pc # "expire"
    /\ faults' = faults + 1
    /\ ctl' = [pc |-> "expire", todo |-> {}]
    /\ UNCHANGED <<pools, slots, leases, vms, fill, backoff, act, beat>>

BackoffElapses(p) ==
    /\ p \in backoff
    /\ backoff' = backoff \ {p}
    /\ UNCHANGED <<pools, slots, leases, vms, fill, ctl, act, beat, faults>>

-----------------------------------------------------------------------------
(* fill_pool and fork_held_machines_inner *)

FillLock(p) ==
    /\ fill[p].pc = "queued"
    /\ ~GoldenLocked(fill[p].golden)
    /\ fill' = [fill EXCEPT ![p].pc = "reserve"]
    /\ UNCHANGED <<pools, slots, leases, vms, ctl, backoff, act, beat, faults>>

\* reserve_fork_pool_slot, on the pool as it is now.
FillReserve(p, m) ==
    /\ fill[p].pc = "reserve"
    /\ Cardinality(fill[p].todo) < MaxBatch
    /\ HasDeficit(p)
    /\ FreshMachine(m)
    /\ slots' = [slots EXCEPT ![m] = [pool |-> p, state |-> "provisioning", lease |-> None]]
    /\ fill' = [fill EXCEPT ![p].todo = @ \cup {m}, ![p].batch = @ \cup {m}]
    /\ UNCHANGED <<pools, leases, vms, ctl, backoff, act, beat, faults>>

FillReserved(p) ==
    /\ fill[p].pc = "reserve"
    /\ \/ Cardinality(fill[p].todo) >= MaxBatch
       \/ ~HasDeficit(p)
       \/ \A m \in Machines : ~FreshMachine(m)      \* bound: Machines used up
    /\ fill' = [fill EXCEPT ![p].pc = IF fill[p].todo = {} THEN "done" ELSE "source"]
    /\ UNCHANGED <<pools, slots, leases, vms, ctl, backoff, act, beat, faults>>

\* Source lock and forkpoint obtained, clone locks taken, machines registered.
FillPrepare(p) ==
    /\ fill[p].pc = "source"
    /\ ~SourceLocked(fill[p].golden)
    /\ vms' = [m \in Machines |->
                 IF m \in fill[p].todo
                 THEN [golden |-> fill[p].golden, held |-> TRUE, run |-> "off"] ELSE vms[m]]
    /\ fill' = [fill EXCEPT ![p].pc = "boot"]
    /\ UNCHANGED <<pools, slots, leases, ctl, backoff, act, beat, faults>>

\* The forkpoint was not reached in time or the preparation failed: nothing is
\* registered, and every worker of the batch is to be retired.
FillBatchFails(p) ==
    /\ fill[p].pc = "source"
    /\ fill' = [fill EXCEPT ![p].pc = "drain", ![p].bad = fill[p].todo, ![p].todo = {}]
    /\ UNCHANGED <<pools, slots, leases, vms, ctl, backoff, act, beat, faults>>

\* boot_prepared_fork_inner succeeded; the first success publishes the
\* checkpoint and drops the golden's lock.
FillBoot(p, m) ==
    /\ fill[p].pc \in {"boot", "drain"} /\ m \in fill[p].todo
    /\ vms[m] # None
    /\ vms' = [vms EXCEPT ![m].run = "up"]
    /\ fill' = [fill EXCEPT ![p].pc = "drain", ![p].todo = @ \ {m}, ![p].ok = @ \cup {m}]
    /\ UNCHANGED <<pools, slots, leases, ctl, backoff, act, beat, faults>>

\* The boot failed: the registration is rolled back, or the record of a process
\* that exited at once is left stopped.
FillBootFails(p, m) ==
    /\ fill[p].pc \in {"boot", "drain"} /\ m \in fill[p].todo
    /\ vms' \in {vms, [vms EXCEPT ![m] = None]}
    /\ fill' = [fill EXCEPT ![p].todo = @ \ {m}, ![p].bad = @ \cup {m}]
    /\ UNCHANGED <<pools, slots, leases, ctl, backoff, act, beat, faults>>

\* finish_provision of a booted worker: ready, if the row is still provisioning.
FillFinish(p, m) ==
    /\ m \in fill[p].ok
    /\ MoveSlot(m, "provisioning", "ready")
    /\ fill' = IF slots[m] # None /\ slots[m].state = "provisioning"
               THEN [fill EXCEPT ![p].ok = @ \ {m}, ![p].ready = TRUE]
               ELSE [fill EXCEPT ![p].ok = @ \ {m}, ![p].bad = @ \cup {m}]
    /\ UNCHANGED <<pools, leases, vms, ctl, backoff, act, beat, faults>>

\* retire_failed_provision: whatever state the row is in, if there is a row.
FillRetire(p, m) ==
    /\ m \in fill[p].bad
    /\ slots' = Retired({m})
    /\ fill' = [fill EXCEPT ![p].bad = @ \ {m}, ![p].failed = TRUE]
    /\ UNCHANGED <<pools, leases, vms, ctl, backoff, act, beat, faults>>

FillDone(p) ==
    /\ fill[p].pc \in {"boot", "drain"}
    /\ fill[p].todo = {} /\ fill[p].ok = {} /\ fill[p].bad = {}
    /\ fill' = [fill EXCEPT ![p].pc = "done", ![p].batch = {}]
    /\ UNCHANGED <<pools, slots, leases, vms, ctl, backoff, act, beat, faults>>

-----------------------------------------------------------------------------
(* The outside world *)

\* The clock: every deadline comes one tick closer.
Tick ==
    /\ \E l \in Leases : Live(l) /\ leases[l].left > 0
    /\ leases' = [l \in Leases |-> IF leases[l] # None /\ leases[l].left > 0
                                   THEN [leases[l] EXCEPT !.left = @ - 1] ELSE leases[l]]
    /\ UNCHANGED <<pools, slots, vms, fill, ctl, backoff, act, beat, faults>>

WorkerExits(m) ==
    /\ vms[m] # None /\ vms[m].run = "up"
    /\ vms' = [vms EXCEPT ![m].run = "off"]
    /\ UNCHANGED <<pools, slots, leases, fill, ctl, backoff, act, beat, faults>>

\* DELETE /machines/{name}: delete_one does not ask whether a pool owns it.
UserDeletes(m) ==
    /\ vms[m] # None
    /\ ~CloneLocked(m)
    /\ vms' = [vms EXCEPT ![m] = None]
    /\ UNCHANGED <<pools, slots, leases, fill, ctl, backoff, act, beat, faults>>

\* The memory-pressure guard or a user pauses a worker that was released.
PauseWorker(m) ==
    /\ m \in Pausable
    /\ vms[m] # None /\ vms[m].run = "up" /\ ~vms[m].held
    /\ ~CloneLocked(m)
    /\ vms' = [vms EXCEPT ![m].run = "paused"]
    /\ UNCHANGED <<pools, slots, leases, fill, ctl, backoff, act, beat, faults>>

ResumeWorker(m) ==
    /\ vms[m] # None /\ vms[m].run = "paused"
    /\ ~CloneLocked(m)
    /\ vms' = [vms EXCEPT ![m].run = "up"]
    /\ UNCHANGED <<pools, slots, leases, fill, ctl, backoff, act, beat, faults>>

\* The server stops and starts again: its tasks are gone, its tables and the
\* workers' processes are not.
Restart ==
    /\ faults < MaxFaults
    /\ faults' = faults + 1
    /\ fill' = [p \in Pools |-> NoFill]
    /\ act' = [l \in Leases |-> "none"]
    /\ beat' = {}
    /\ backoff' = {}
    /\ ctl' = [pc |-> "recover",
               todo |-> {m \in Machines : slots[m] # None /\ slots[m].state = "provisioning"}]
    /\ UNCHANGED db

-----------------------------------------------------------------------------
PoolRequest ==
    \E p \in Pools :
        \/ \E g \in Goldens, n \in Sizes, mx \in MaxActives, auto \in Autos :
               CreatePool(p, g, n, mx, auto)
        \/ \E n \in Sizes : ResizePool(p, n)
        \/ \E force \in BOOLEAN : DeletePool(p, force)

LeaseRequest ==
    \/ \E p \in Pools, k \in Keys : ClaimRefused(p, k) \/ \E l \in Leases : Claim(p, k, l)
    \/ \E l \in Leases : Heartbeat(l) \/ HeartbeatLookup(l) \/ CompleteLease(l)

Activation ==
    \E l \in Leases :
        ActivateLookup(l) \/ ActivateCommit(l) \/ ActivateFail(l) \/ ActivateLost(l)

Controller ==
    \/ ExpireLeases
    \/ FinalizePools
    \/ NextPhase
    \/ PassFails
    \/ \E m \in Machines : RecoverSlot(m) \/ CheckReady(m) \/ DeleteRetired(m) \/ DeleteRetiredFails(m)
    \/ \E l \in Leases : CheckLeased(l)
    \/ \E p \in Pools : ReapFill(p) \/ StartFill(p)

FillTasks ==
    \E p \in Pools :
        \/ FillLock(p)
        \/ FillReserved(p)
        \/ FillPrepare(p)
        \/ FillBatchFails(p)
        \/ FillDone(p)
        \/ \E m \in Machines : \/ FillReserve(p, m)
                               \/ FillBoot(p, m)
                               \/ FillBootFails(p, m)
                               \/ FillFinish(p, m)
                               \/ FillRetire(p, m)

World ==
    \/ Tick
    \/ Restart
    \/ \E p \in Pools : BackoffElapses(p)
    \/ \E m \in Machines : \/ WorkerExits(m)
                           \/ UserDeletes(m)
                           \/ PauseWorker(m)
                           \/ ResumeWorker(m)

Next == PoolRequest \/ LeaseRequest \/ Activation \/ Controller \/ FillTasks \/ World

Spec == Init /\ [][Next]_vars

-----------------------------------------------------------------------------
(* Safety *)

\* The lease table and the slot table tell the same story: a live lease owns
\* exactly the slot that names it, in the matching state, and a slot that is
\* activating or leased is owned by a live lease (claim_fork_pool_slot,
\* transition_fork_lease and every other writer of either table).
LeaseOwnsSlot ==
    /\ \A l \in Leases : Live(l) =>
         /\ slots[leases[l].machine] # None
         /\ slots[leases[l].machine].lease = l
         /\ slots[leases[l].machine].pool = leases[l].pool
         /\ slots[leases[l].machine].state = IF leases[l].state = "active"
                                             THEN "leased" ELSE "activating"
    /\ \A m \in Machines :
         slots[m] # None /\ slots[m].state \in {"activating", "leased"} =>
           /\ slots[m].lease \in Leases
           /\ Live(slots[m].lease)
           /\ leases[slots[m].lease].machine = m

\* A worker serves one lease in its life: two leases never name one machine, and
\* a worker offered as ready was never named by any ("Acquire and release one
\* clean worker exactly once", pools.rs acquire_lease).
OneLeasePerWorker ==
    \A l \in Leases : leases[l] # None =>
        /\ \A k \in Leases \ {l} : leases[k] # None => leases[k].machine # leases[l].machine
        /\ slots[leases[l].machine] # None =>
               slots[leases[l].machine].state \notin {"provisioning", "ready"}

\* A worker owned by a live lease is not held any more, and was forked from the
\* golden its pool has now, whatever fill provisioned it (the claim's check of
\* the vms row, and the held bit it clears in the same transaction).
ClaimedWorkerMatches ==
    \A l \in Leases : Live(l) /\ vms[leases[l].machine] # None =>
        /\ ~vms[leases[l].machine].held
        /\ pools[leases[l].pool] # None
        /\ vms[leases[l].machine].golden = pools[leases[l].pool].golden

\* A retry with the same idempotency key never consumes a second worker.
OneLeasePerKey ==
    \A l, k \in Leases :
        l # k /\ leases[l] # None /\ leases[k] # None /\ leases[l].pool = leases[k].pool
        => leases[l].key # leases[k].key

\* Provisioning and ready workers never exceed the pool's target, through
\* resizes, restarts and fills that outlive their pool (reserve_fork_pool_slot:
\* "repeated controller ticks or a future second controller cannot overfill").
NoOverfill ==
    \A p \in Pools : pools[p] # None => Cardinality(Available(p)) <= pools[p].desired

\* Live leases stay within max_active, and within the device's limit when every
\* request is under automatic admission: the counters are read and the lease is
\* inserted in one immediate transaction, whichever pools the claims are for.
WithinCapacity ==
    \A p \in Pools : pools[p] # None =>
        /\ pools[p].maxActive # None => Cardinality(LiveLeases(p)) <= pools[p].maxActive
        /\ FALSE \notin Autos /\ Device[pools[p].golden] # None
             => Cardinality(OnDevice(Device[pools[p].golden])) <= DeviceLimit

\* Once deletion has begun a pool only drains: every worker retires and no lease
\* lives; no row outlives its pool.
DeletingPoolDrains ==
    /\ \A m \in Machines : slots[m] # None =>
         /\ pools[slots[m].pool] # None
         /\ pools[slots[m].pool].deleting => slots[m].state = "retiring"
    /\ \A l \in Leases : leases[l] # None =>
         /\ pools[leases[l].pool] # None
         /\ pools[leases[l].pool].deleting => ~Live(l)

\* A lease that ended stays ended, with the same outcome: a late activation, a
\* heartbeat or a completion cannot revive it.  Only its pool's removal takes it.
EndedLeaseStays ==
    [][\A l \in Leases : leases[l] # None /\ leases[l].state \in EndStates =>
          \/ leases'[l] # None /\ leases'[l].state = leases[l].state
          \/ leases'[l] = None /\ pools'[leases[l].pool] = None]_vars

\* A retiring worker is never reused: its row is deleted and nothing else.
RetiringIsFinal ==
    [][\A m \in Machines : slots[m] # None /\ slots[m].state = "retiring" =>
          slots'[m] = None \/ (slots'[m] # None /\ slots'[m].state = "retiring")]_vars

\* What keeps the unconditional retirement of a failed provision and the row
\* removal after delete_one from touching a worker someone was given: no two
\* fills share a worker, a fill works only on rows that are provisioning,
\* retiring or gone, no fill runs while a restarted controller recovers, and
\* what the controller listed for deletion is retiring or gone.
FillOwnsBatch ==
    /\ \A p \in Pools :
         /\ fill[p].todo \cup fill[p].ok \cup fill[p].bad \subseteq fill[p].batch
         /\ fill[p].todo \cap fill[p].ok = {}
         /\ (fill[p].todo \cup fill[p].ok) \cap fill[p].bad = {}
         /\ \A m \in fill[p].todo \cup fill[p].ok \cup fill[p].bad :
              slots[m] # None => slots[m].state \in {"provisioning", "retiring"}
         /\ \A q \in Pools \ {p} : fill[p].batch \cap fill[q].batch = {}
         /\ ctl.pc = "recover" => fill[p] = NoFill
    /\ ctl.pc = "delete" =>
         \A m \in ctl.todo : slots[m] # None => slots[m].state = "retiring"

-----------------------------------------------------------------------------
(* What the pools promise, and how the tables keep it *)

WorkerStage(m) ==
    CASE slots[m] = None -> "absent"
      [] slots[m] # None /\ slots[m].state \in {"provisioning", "ready"} -> "spare"
      [] slots[m] # None /\ slots[m].state \in {"activating", "leased"} -> "given"
      [] slots[m] # None /\ slots[m].state = "retiring" -> "spent"

LeaseStage(l) ==
    CASE leases[l] = None -> "none"
      [] leases[l] # None /\ leases[l].state = "activating" -> "pending"
      [] leases[l] # None /\ leases[l].state = "active" -> "open"
      [] leases[l] # None /\ leases[l].state \in EndStates -> "ended"

Promise == INSTANCE OneShot WITH
    Workers <- Machines,
    Nobody <- None,
    worker <- [m \in Machines |-> WorkerStage(m)],
    lease <- [l \in Leases |-> LeaseStage(l)],
    holds <- [l \in Leases |-> IF leases[l] = None THEN None ELSE leases[l].machine]

\* Every step of every handler, task, pass and restart is a step of the promise
\* or none at all: a lease and its worker change together, a worker is given
\* once, and its name does not come back while a lease remembers it.
KeepsPromise == Promise!Spec

-----------------------------------------------------------------------------
(* What the code says of itself and does not keep *)

\* "Forget a slot after its machine and data directory are gone" (db.rs) and
\* "pool changed while worker was provisioning; retiring worker": a pool worker
\* that runs and that no fill is working on has a slot row.
NoOrphanWorker ==
    \A m \in Machines :
        vms[m] # None /\ vms[m].run = "up" => slots[m] # None \/ \E p \in Pools : m \in fill[p].batch

\* "retiring it would delete that saved execution" (leased_worker_is_live): a
\* lease whose worker is paused does not fail as if the worker were dead.
PausedWorkerKept ==
    [][\A l \in Leases :
          /\ leases[l] # None /\ leases[l].state = "active"
          /\ vms[leases[l].machine] # None /\ vms[leases[l].machine].run = "paused"
          => ~(leases'[l] # None /\ leases'[l].state = "failed")]_vars

-----------------------------------------------------------------------------
(* Liveness: the controller loop, its fills and the clock keep going; mutexes  *)
(* are FIFO, and deleting one machine does not fail for ever.                  *)

Fairness ==
    /\ WF_vars(Tick)
    /\ WF_vars(ExpireLeases) /\ WF_vars(NextPhase) /\ WF_vars(FinalizePools)
    /\ \A m \in Machines : /\ WF_vars(RecoverSlot(m)) /\ WF_vars(CheckReady(m))
                           /\ SF_vars(DeleteRetired(m))
    /\ \A l \in Leases : WF_vars(CheckLeased(l))
    /\ \A p \in Pools :
         /\ WF_vars(StartFill(p)) /\ SF_vars(ReapFill(p)) /\ SF_vars(FillLock(p))
         /\ WF_vars(FillReserved(p) \/ \E m \in Machines : FillReserve(p, m))
         /\ SF_vars(FillPrepare(p) \/ FillBatchFails(p))
         /\ \A m \in Machines : /\ WF_vars(FillBoot(p, m) \/ FillBootFails(p, m))
                                /\ WF_vars(FillFinish(p, m)) /\ WF_vars(FillRetire(p, m))
         /\ WF_vars(FillDone(p))

FairSpec == Spec /\ Fairness

\* Every retiring worker is deleted and its row forgotten.
RetiringIsDeleted ==
    \A m \in Machines :
        (slots[m] # None /\ slots[m].state = "retiring") ~> slots[m] = None

\* A pool whose deletion began is gone in the end.
DeletingIsFinalized ==
    \A p \in Pools : (pools[p] # None /\ pools[p].deleting) ~> pools[p] = None

\* No lease stays activating for ever, even when its task was lost or the
\* server restarted in the middle: the activation grace runs out.
ActivationEnds ==
    \A l \in Leases : (leases[l] # None /\ leases[l].state = "activating")
                      ~> ~(leases[l] # None /\ leases[l].state = "activating")

\* A fill always comes to an end and its pool can be filled again.
FillsEnd == \A p \in Pools : fill[p].pc = "queued" ~> fill[p].pc = "idle"
=============================================================================
