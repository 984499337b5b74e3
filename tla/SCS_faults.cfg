\* Library queries and commits fail, clients are careless.
CONSTANTS
    a = a
    b = b
    x = x
    y = y
    NULL = NULL
    EMPTY = EMPTY
    Primordial = Primordial
    VgNames <- MCVgNames
    LvNames <- MCLvNames
    GenVol <- MCGenVol
    Capacity = 6
    MinVolumeSize = 2
    OneKB = 2
    Grain = 2
    Offered <- MCCareless
    ClientRenamesFresh = FALSE
    QueriesFail = TRUE
    CommitFails = TRUE
SPECIFICATION Spec
INVARIANT CacheMirrorsLib
PROPERTY EveryCallReturns
