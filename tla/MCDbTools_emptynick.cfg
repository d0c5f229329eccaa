CONSTANTS
    Layouts = {"ndbm"}
    LegacyDBs <- EmptyNickDBs
    OldDBs <- MCOldDBs
SPECIFICATION Spec
INVARIANT ActiveUsersKept
CHECK_DEADLOCK FALSE
