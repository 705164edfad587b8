CONSTANTS
    Workers = {w1}
    Seeded = {w1}
    Users = {u1}
    Requests = {r1, r2}
    None = None
    MaxId = 1
    MaxContainers = 1
    Quota = 1
    Capacity = 2
    SSH_PORT_START = 1
    SSH_PORT_END = 1
    Durations = {1, 2}
    MaxNow = 0
    MaxEnd = 3
SYMMETRY RequestSymmetry
SPECIFICATION LeaseSafety
PROPERTY ExtensionsKept
