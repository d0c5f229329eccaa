\* Frames arrive whole; the scenario makes one wait_for.
CONSTANTS
    Packets <- MCPackets
    Calls <- WaitOnly
    MaxSent = 2
    MaxCalls = 1
    Segmented = FALSE
    ServerMayClose = FALSE
SPECIFICATION Spec
CHECK_DEADLOCK FALSE
INVARIANT WaitTimesOutOnlyAtDeadline
