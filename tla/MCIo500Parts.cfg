SPECIFICATION Spec
CONSTANTS
    Servers = {"s1", "s2"}
    Clients = {"c0", "c1", "c2"}
    Coordinator = "c0"
    ClockFaults = 1
    RestartFaults = 2
    Arenas = 2
    Chunks = 3
    MaxInterrupts = 3
    Required = {"write", "read"}
    Auxiliary = {"timestamp"}
    Limit = 1
    Horizon = 4
    MaxLines = 3
    ServerCount = 2
    ClientCount = 1
    RunFaults = 2
INVARIANTS
    MeasuresOneClock
    OneAuthority
    OneCopyIsEnough
    AlarmIsJust
    FirstFailureKept
PROPERTIES
    LaunchCompletes
    TeardownOrder
