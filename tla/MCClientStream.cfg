\* Frames arrive whole; every call kind; the scenario stops at the first exception.
CONSTANTS
    Packets <- MCPackets
    Calls <- AllCalls
    MaxSent = 3
    MaxCalls = 3
    Segmented = FALSE
    ServerMayClose = TRUE
SPECIFICATION Spec
\* A scenario is a finite program: it ends once its calls are made.
CHECK_DEADLOCK FALSE
INVARIANT NothingDropped
PROPERTY ChannelSpec
PROPERTY WaitReturnsAtFirstMatch
PROPERTY CallsReturn
PROPERTY LoginReturnsHandshake
