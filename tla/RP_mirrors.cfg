SPECIFICATION Spec
CONSTANTS
    NULL = NULL
    Disks <- MCDisks
    DiskSize = 40
    MdNums = {0, 1, 2, 3}
    VgNames = {"p", "q"}
    LvNames = {"LD_x"}
    OneKB = 2
    LdVolumes = {"LD_x"}
    Primordial = "disks"
    PrimordialCap <- MCCap
    MinVolumeSize = 2
    Goals <- MCGoals
    Sizes = {0, 50}
    Garbage = 200
    LibraryFails = {"compose"}
    ProcessEnds = FALSE
    MaxRequests = 2
INVARIANT FailureLeavesNoMirrors
