\* One client and its abandoned requests on one tap port: answers, shutdown, health.
CONSTANTS
    s1 = s1
    s2 = s2
    c1 = c1
    c2 = c2
    k1 = k1
    k2 = k2
    Servers = {s1}
    Clients = {c1}
    Conns = {k1, k2}
    Kind <- MCTap
    WatchInterval = 45
    MaxCrashes = 0
    MaxBreaks = 1
    NoOne = NoOne
SPECIFICATION FairSpec
CHECK_DEADLOCK FALSE
PROPERTY RequestsAnswered
PROPERTY ShutdownCompletes
PROPERTY BrokenServeExits
