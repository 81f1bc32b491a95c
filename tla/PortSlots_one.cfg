\* One port, two clients with the same address: claim races, takeovers, crashes.
CONSTANTS
    N_ports = 1
    c1 = c1
    c2 = c2
    ipA = ipA
    ipB = ipB
    x = x
    y = y
    Clients = {c1, c2}
    IPs = {ipA, ipB}
    Configs = {x, y}
    OptLen <- MCOptLen
    LocatorLen = 0
    Requests <- MCRequests
    Modes = {"veth", "tap"}
    Free = Free
    Reserved = Reserved
    NoConfig = NoConfig
    Unpublished = Unpublished
    NoOne = NoOne
    Control = Control
SYMMETRY Symmetry
SPECIFICATION Spec
INVARIANT TypeOK
INVARIANT OneClaimant
INVARIANT FreeIsDown
INVARIANT UpIsComplete
PROPERTY NoForeignWrite
PROPERTY TakeoverNotUndone
PROPERTY ImplementsLifecycle
