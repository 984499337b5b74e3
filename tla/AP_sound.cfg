SPECIFICATION NavSpec
CHECK_DEADLOCK FALSE
CONSTANTS
    NULL = NULL
    Disks <- MCDisks
    DiskSize = 40
    MdNums = {0, 1, 2, 3}
    VgNames = {"p"}
    LvNames = {"LD_x", "sv"}
    OneKB = 2
    LdVolumes = {"LD_x"}
    Primordial = "disks"
    PrimordialCap <- MCCap
    MinVolumeSize = 2
    Goals <- MCGoals
    Sizes = {0}
    Garbage = 200
    LibraryFails = {}
    ProcessEnds = FALSE
    MaxRequests = 3
    MaxSettings = 2
INVARIANT SettingsAreAnchored
INVARIANT NamesAreInstances
INVARIANT NamesCanBeGot
INVARIANT EndsAgree
INVARIANT RolesSelectEnds
INVARIANT DisksAreReached
PROPERTY ShowingChangesNothing
