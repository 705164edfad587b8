CONSTANTS
    Workers = {w1}
    Seeded = {w1}
    Users = {u1}
    Requests = {r1}
    None = None
    MaxId = 1
    MaxContainers = 1
    Quota = 1
    Capacity = 1
    SSH_PORT_START = 1
    SSH_PORT_END = 1
    Durations = {1}
    MaxNow = 1
    MaxEnd = 2
SPECIFICATION LeaseSafety
PROPERTY ExpiredOnlyWhenDue
