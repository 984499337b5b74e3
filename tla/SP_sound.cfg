SPECIFICATION Spec
CHECK_DEADLOCK FALSE
CONSTANTS
    NULL = NULL
    Managers = {"m", "n"}
INVARIANT TypeOK
INVARIANT ProfileNamesAreInstances
INVARIANT ProfileNamesCanBeGot
INVARIANT ProfileEndsAgree
INVARIANT ProfileRolesSelectEnds
INVARIANT EverythingIsDiscovered
