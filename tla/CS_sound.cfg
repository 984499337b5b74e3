SPECIFICATION Spec
CONSTANTS
    NULL = NULL
    Vgs = {"p", "q"}
    VgSize <- MCVgSize
    LongVgs = {"q"}
    FirstLvs <- MCFirstLvs
    Elements = {"a", "b"}
    LongElements = {"b"}
    CommitFails = TRUE
    QueriesFail = TRUE
INVARIANT ReplicasAreOfSources
INVARIANT AnsweredReplicaIsShown
PROPERTY OnlyAnsweredChanges
