SPECIFICATION Spec
CONSTANTS
    NULL = NULL
    Disks <- MCDisks
    DiskSize = 40
    MdNums = {0, 1, 2, 3}
    VgNames = {"p", "q"}
    LvNames = {"LD_x"}
    OneKB = 2
    LdVolumes = {"LD_x"}
    Primordial = "disks"
    PrimordialCap <- MCCap
    MinVolumeSize = 2
    Goals <- MCGoals
    Sizes = {0, 1, 30, 50}
    Garbage = 200
    LibraryFails = {}
    ProcessEnds = FALSE
    MaxRequests = 4
INVARIANT TypeOK
INVARIANT RedundancyIsReal
INVARIANT SpaceIsAccountedFor
INVARIANT PoolIsAsAsked
INVARIANT GrantedExtentsCanBeCut
INVARIANT DeletionIsComplete
PROPERTY EveryCallReturns
