CONSTANTS
    Layouts = {"ndbm", "gdbm"}
    LegacyDBs <- MCLegacyDBs
    OldDBs <- MCOldDBs
SPECIFICATION Spec
INVARIANT MigratedLoadsBack
INVARIANT TransferKeepsData
INVARIANT FindDelAgree
INVARIANT DeletedNicksGone
INVARIANT NamedUsersKept
INVARIANT PrunedUsersGone
CHECK_DEADLOCK FALSE
 
