CONSTANTS
    Ports = {p1, p2}
    NoPort = NoPort
    EnableTls = TRUE
    PemInFixtures = TRUE
    OpensslAvailable = TRUE
    ProbeAttempts = 2
    MaxStops = 2
    OtherBinder = TRUE
    ServerMayCrash = TRUE
SPECIFICATION Spec
\* The test process ends after stop() or after with_server raised.
CHECK_DEADLOCK FALSE
INVARIANT StopLeavesNoServer
PROPERTY HarnessEnds
