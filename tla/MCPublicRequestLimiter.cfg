SPECIFICATION Spec
CONSTANTS
    OfA = {a1, a2, a3, a4}
    OfB = {b1, b2}
    Requests <- MCRequests
    IPs = {"a", "b"}
    Ip <- MCIp
    PerMinute = 2
    PerIp = 2
    Global = 3
    Window = 4
    TicksPerSecond = 2
    MaxTime = 5
    EventLoop = TRUE
SYMMETRY Alike
INVARIANTS
    TypeOK
    LeaseAccounting
    ConcurrencyCaps
    NoIdleEntries
    SlidingWindow
PROPERTIES
    RetryAfterHonoured
    ImplementsAdmissionControl
CHECK_DEADLOCK FALSE
