SPECIFICATION Spec
CONSTANTS
    None = None
    Procs = {s1, s2}
    Unlocked = {s2}
    Ops = {o1}
    Arts = {a1, a2, a3}
    Vmms = {v1, v2, v3, v4}
    MaxWork = 2
    MaxFaults = 1
SYMMETRY Names
CONSTRAINT Orderly
INVARIANTS
    TypeOK
    PausedIsSaved
    MemoryMatchesDisks
    UnkilledRunsOnItsDisks
    LockedKillsOnlyZombies
    SpentOperationsRest
PROPERTIES
    StopsOnlySaved
    NoFreshBoot
    FrozenIsGuarded
