CONSTANTS
    None = None
    NoOp = NoOp
    Threads = {c1, c2}
    Peers = {p1}
    Registrations = {"r1", "r2"}
    Demo = {}
    HeartbeatOps = {"h1"}
    DeregisterOps = {"d1", "h1"}
    LeaseTTL = 2
    DelayedAfter = 1
    Retention = 1
    PeerRemaining = {2}
    PeerKinds = {"REGISTER", "HEARTBEAT", "TTL_EXPIRE", "DEREGISTER"}
    PeerSkew = 1
    MaxCalls = 3
    MaxPeer = 0
    LastCall = 2
    MaxNow = 2
    Window = 2
SYMMETRY Symmetry
SPECIFICATION Spec
INVARIANTS TypeOK DeregistrationSticks DelayedIsLate
CHECK_DEADLOCK FALSE
