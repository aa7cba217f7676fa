SPECIFICATION FairSpec
CONSTANTS
    None = None
    g1 = g1
    g2 = g2
    gpu0 = gpu0
    Pools = {p1}
    Goldens = {g1, g2}
    Machines = {m1}
    Leases = {l1}
    Keys = {k1}
    Sizes = {1}
    MaxActives = {None}
    Device <- NoGpu
    Autos = {FALSE}
    PoolLimits = {1}
    DeviceLimit = 1
    MountsWorkspace = {g2}
    Pausable = {m1}
    MaxBatch = 2
    Ttl = 1
    Grace = 1
    MaxFaults = 1
INVARIANTS
    ClaimedWorkerMatches
    DeletingPoolDrains
PROPERTIES
    KeepsPromise
    RetiringIsDeleted
    DeletingIsFinalized
    ActivationEnds
    FillsEnd
