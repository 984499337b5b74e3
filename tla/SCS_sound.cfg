\* One client, a library that fails but tells.
CONSTANTS
    a = a
    b = b
    x = x
    y = y
    NULL = NULL
    EMPTY = EMPTY
    Primordial = Primordial
    VgNames <- MCVgNames
    LvNames <- MCLvNames
    GenVol <- MCGenVol
    Capacity = 8
    MinVolumeSize = 2
    OneKB = 2
    Grain = 2
    Offered <- MCAll
    ClientRenamesFresh = TRUE
    QueriesFail = FALSE
    CommitFails = FALSE
SPECIFICATION Spec
INVARIANT TypeOK
INVARIANT CacheMirrorsLib
INVARIANT RequestsFit
INVARIANT AnswerIsDurable
INVARIANT DeletedPoolIsGone
PROPERTY VolumesSurvive
