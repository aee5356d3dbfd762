CONSTANTS
    None = None
    NoOp = NoOp
    Threads = {c1}
    Peers = {p1}
    Registrations = {"r1"}
    Demo = {}
    HeartbeatOps = {"h1"}
    DeregisterOps = {"d1", "h1"}
    LeaseTTL = 2
    DelayedAfter = 1
    Retention = 1
    PeerRemaining = {2}
    PeerKinds = {"REGISTER", "HEARTBEAT", "TTL_EXPIRE", "DEREGISTER"}
    PeerSkew = 1
    MaxCalls = 2
    MaxPeer = 1
    LastCall = 2
    MaxNow = 3
    Window = 2
SPECIFICATION Spec
INVARIANTS ClockLeads ExpiryPending DeregistrationSticks ChangesAreForwarded
CHECK_DEADLOCK FALSE
