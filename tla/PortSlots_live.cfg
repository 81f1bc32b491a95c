\* Two ports, one client against management: termination of the calls and of the CAS loop.
CONSTANTS
    N_ports = 2
    c1 = c1
    c2 = c2
    ipA = ipA
    ipB = ipB
    x = x
    y = y
    Clients = {c1}
    IPs = {ipA}
    Configs = {x}
    OptLen <- MCOptLen1
    LocatorLen = 0
    Requests <- MCOneRequest
    Modes = {"tap"}
    Free = Free
    Reserved = Reserved
    NoConfig = NoConfig
    Unpublished = Unpublished
    NoOne = NoOne
    Control = Control
SPECIFICATION FairSpec
PROPERTY CallsReturn
PROPERTY ForceReserveProgress
