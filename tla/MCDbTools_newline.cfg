CONSTANTS
    Layouts = {"ndbm"}
    LegacyDBs <- NewlineDBs
    OldDBs <- MCOldDBs
SPECIFICATION Spec
INVARIANT TransferKeepsData
CHECK_DEADLOCK FALSE
