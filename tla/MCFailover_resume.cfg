CONSTANTS
    Workers = {w1, w2}
    Seeded = {w1}
    Users = {u1}
    Requests = {r1}
    None = None
    MaxId = 1
    MaxContainers = 2
    Quota = 1
    Capacity = 1
    SSH_PORT_START = 1
    SSH_PORT_END = 2
    Durations = {1}
    MaxNow = 0
    MaxEnd = 1
    Flaky = {w1}
    MaxStops = 0
    WebProcesses = 2
SPECIFICATION SteadySpec
PROPERTY RecoveringResumes
