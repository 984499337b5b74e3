\* The array of settings.
CONSTANTS
    k1 = k1
    k2 = k2
    k3 = k3
    k4 = k4
    o1 = o1
    o2 = o2
    o3 = o3
    o4 = o4
    o5 = o5
    Ids <- MCIds
    Objects <- MCObjects
    NULL = NULL
    Chunk = 2
    RemoveFrees = FALSE
    GrowthLoses = FALSE
SPECIFICATION Spec
INVARIANT LoopsMeetAll
PROPERTY ImplementsCatalogue
PROPERTY AddPuts
