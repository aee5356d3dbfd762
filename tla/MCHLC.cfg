CONSTANTS
    None = None
    Self = 2
    Remotes <- MCRemotes
    MaxWall = 4
    MaxFutureSkew = 1
    MaxPhysical = 7
    MaxLogical = 2
SPECIFICATION Spec
INVARIANTS TypeOK NextIsNewer ClockBounded
