SPECIFICATION Spec
CONSTANTS
    None = None
    g1 = g1
    g2 = g2
    gpu0 = gpu0
    Pools = {p1}
    Goldens = {g1}
    Machines = {m1, m2}
    Leases = {l1}
    Keys = {k1}
    Sizes = {0, 1}
    MaxActives = {None}
    Device <- NoGpu
    Autos = {FALSE}
    PoolLimits = {1}
    DeviceLimit = 1
    MountsWorkspace = {}
    Pausable = {}
    MaxBatch = 2
    Ttl = 1
    Grace = 1
    MaxFaults = 0
SYMMETRY Names
INVARIANT NoOrphanWorker
