\* Frames may arrive in pieces; recv_packet and wait_for only; the scenario
\* stops at the first exception.
CONSTANTS
    Packets <- MCPackets
    Calls <- NoDrainCalls
    MaxSent = 3
    MaxCalls = 3
    Segmented = TRUE
    ServerMayClose = TRUE
SPECIFICATION Spec
\* A scenario is a finite program: it ends once its calls are made.
CHECK_DEADLOCK FALSE
PROPERTY ChannelSpec
