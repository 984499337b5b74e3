\* Clients give a volume the name of a volume in another pool.
CONSTANTS
    a = a
    b = b
    x = x
    y = y
    NULL = NULL
    EMPTY = EMPTY
    Primordial = Primordial
    VgNames <- MCVgNames
    LvNames <- MCLvNames
    GenVol <- MCGenVol
    Capacity = 8
    MinVolumeSize = 2
    OneKB = 2
    Grain = 2
    Offered <- MCAll
    ClientRenamesFresh = FALSE
    QueriesFail = FALSE
    CommitFails = FALSE
SPECIFICATION Spec
PROPERTY VolumesSurvive
