\* One port attached again and again by one client, against management, packets and Stats.
CONSTANTS
    N_ports = 1
    c1 = c1
    ipA = ipA
    ipB = ipB
    x = x
    y = y
    Clients = {c1}
    IPs = {ipA, ipB}
    Configs = {x, y}
    OptLen <- MCOptLen
    LocatorLen = 0
    Requests <- MCRequests
    Modes = {"tap"}
    Free = Free
    Reserved = Reserved
    NoConfig = NoConfig
    Unpublished = Unpublished
    NoOne = NoOne
    Control = Control
    Programs = {"nx", "mx", "transit"}
    Queried = {0}
    Together = FALSE
    MaxAttach = 2
SPECIFICATION PathSpec
INVARIANT PublishedOnly
INVARIANT CountersAreOwn
INVARIANT ReportIsExact
