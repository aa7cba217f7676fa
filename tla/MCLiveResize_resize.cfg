SPECIFICATION FairSpec
CONSTANTS
    None = None
    Kinds = {"cpu", "mem", "disk"}
    MaxSize = 2
    Capacity = 3
    Ids = {i1, i2}
    Ops = {o1}
    CliStarts = FALSE
    MaxReqs = 2
    MaxFaults = 2
    MaxBoots = 1
CHECK_DEADLOCK FALSE
INVARIANTS
    TypeOK
    LeaksAreKnown
    RightIncarnation
PROPERTIES
    AnswersAreTrue
    UnfinishedEnds
