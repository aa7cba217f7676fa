SPECIFICATION Spec
CONSTANTS
    None = None
    g1 = g1
    g2 = g2
    gpu0 = gpu0
    Pools = {p1, p2}
    Goldens = {g1}
    Machines = {m1, m2}
    Leases = {l1, l2}
    Keys = {k1}
    Sizes = {1}
    MaxActives = {1}
    Device <- OneGpu
    Autos = {TRUE}
    PoolLimits = {1}
    DeviceLimit = 1
    MountsWorkspace = {}
    Pausable = {}
    MaxBatch = 1
    Ttl = 1
    Grace = 1
    MaxFaults = 0
SYMMETRY NamesAndPools
CONSTRAINT QuietHost
INVARIANTS
    WithinCapacity
