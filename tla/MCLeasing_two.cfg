CONSTANTS
    Workers = {w1}
    Seeded = {w1}
    Users = {u1, u2}
    Requests = {r1, r2}
    None = None
    MaxId = 2
    MaxContainers = 2
    Quota = 1
    Capacity = 1
    SSH_PORT_START = 1
    SSH_PORT_END = 2
    Durations = {1}
    MaxNow = 1
    MaxEnd = 2
SYMMETRY Symmetry
SPECIFICATION LeaseSafety
INVARIANTS
    LeaseTypeOK
    QuotaClaims
    CapacityClaims
    LeaseConsistent
    DeletedMeansGone
PROPERTY ImplementsContract
