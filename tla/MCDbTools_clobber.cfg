CONSTANTS
    Layouts = {"bdb"}
    LegacyDBs <- MCLegacyDBs
    OldDBs <- MCOldDBs
SPECIFICATION Spec
INVARIANT LegacyIntact
CHECK_DEADLOCK FALSE
