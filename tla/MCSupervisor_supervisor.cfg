SPECIFICATION FairSpec
CONSTANTS
    None = None
    r1 = r1
    r2 = r2
    v1 = v1
    v2 = v2
    Reqs = {r1, r2}
    Vmms = {v1, v2}
    Policy = "OnFailure"
    MaxRetries = 2
    MaxOps = 2
    MaxFaults = 2
INVARIANTS
    TypeOK
    VmmIsNamed
    WithinRetries
PROPERTIES
    DeleteLeavesNoVmm
    RestartsWanted
    ForgetsDeleted
CHECK_DEADLOCK FALSE
