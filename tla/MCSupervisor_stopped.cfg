SPECIFICATION Spec
CONSTANTS
    None = None
    r1 = r1
    r2 = r2
    v1 = v1
    v2 = v2
    Reqs = {r1}
    Vmms = {v1, v2}
    Policy = "Always"
    MaxRetries = 2
    MaxOps = 2
    MaxFaults = 0
SYMMETRY Names
INVARIANTS
    StoppedStaysStopped
CHECK_DEADLOCK FALSE
