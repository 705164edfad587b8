CONSTANTS
    Workers = {w1, w2}
    Seeded = {w1, w2}
    Users = {u1}
    Requests = {r1, r2}
    None = None
    MaxId = 2
    MaxContainers = 2
    Quota = 2
    Capacity = 2
    SSH_PORT_START = 1
    SSH_PORT_END = 2
    Durations = {1}
    MaxNow = 0
    MaxEnd = 1
SYMMETRY RequestSymmetry
SPECIFICATION LeaseSafety
INVARIANT PortsDistinct
