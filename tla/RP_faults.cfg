SPECIFICATION Spec
CONSTANTS
    NULL = NULL
    Disks <- MCDisks
    DiskSize = 40
    MdNums = {0, 1, 2, 3}
    VgNames = {"p"}
    LvNames = {"LD_x"}
    OneKB = 2
    LdVolumes = {"LD_x"}
    Primordial = "disks"
    PrimordialCap <- MCCap
    MinVolumeSize = 2
    Goals <- MCFaultGoals
    Sizes = {0, 27}
    Garbage = 200
    LibraryFails = {"cut", "compose", "cleanup"}
    ProcessEnds = TRUE
    MaxRequests = 3
INVARIANT SpaceIsAccountedFor
INVARIANT PoolIsAsAsked
INVARIANT DeletionIsComplete
PROPERTY EveryCallReturns
