\* Frames may arrive in pieces and the scenario drains: a timeout in the
\* middle of a frame is swallowed by drain_for.
CONSTANTS
    Packets <- MCPackets
    Calls <- AllCalls
    MaxSent = 2
    MaxCalls = 2
    Segmented = TRUE
    ServerMayClose = FALSE
SPECIFICATION Spec
CHECK_DEADLOCK FALSE
PROPERTY ChannelSpec
