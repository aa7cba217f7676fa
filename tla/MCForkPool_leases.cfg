SPECIFICATION Spec
CONSTANTS
    None = None
    g1 = g1
    g2 = g2
    gpu0 = gpu0
    Pools = {p1}
    Goldens = {g1}
    Machines = {m1, m2}
    Leases = {l1, l2}
    Keys = {k1, k2}
    Sizes = {1}
    MaxActives = {None}
    Device <- NoGpu
    Autos = {FALSE}
    PoolLimits = {1}
    DeviceLimit = 1
    MountsWorkspace = {}
    Pausable = {}
    MaxBatch = 2
    Ttl = 1
    Grace = 1
    MaxFaults = 1
SYMMETRY Names
INVARIANTS
    TypeOK
    LeaseOwnsSlot
    OneLeasePerWorker
    NoOverfill
    FillOwnsBatch
    OneLeasePerKey
PROPERTIES
    RetiringIsFinal
    EndedLeaseStays
