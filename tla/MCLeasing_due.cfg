CONSTANTS
    Workers = {w1}
    Seeded = {w1}
    Users = {u1}
    Requests = {r1, r2}
    None = None
    MaxId = 2
    MaxContainers = 2
    Quota = 1
    Capacity = 1
    SSH_PORT_START = 1
    SSH_PORT_END = 1
    Durations = {1}
    MaxNow = 1
    MaxEnd = 1
SPECIFICATION LeaseSpec
PROPERTY DueRentalsEnd
