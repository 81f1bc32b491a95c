\* Two clients on one tap and one veth port, serve restarted and tried twice.
CONSTANTS
    s1 = s1
    s2 = s2
    c1 = c1
    c2 = c2
    k1 = k1
    k2 = k2
    Servers = {s1, s2}
    Clients = {c1, c2}
    Conns = {k1, k2}
    Kind <- MCKind
    WatchInterval = 45
    MaxCrashes = 1
    MaxBreaks = 0
    NoOne = NoOne
SYMMETRY Symmetry
SPECIFICATION Spec
CHECK_DEADLOCK FALSE
INVARIANT HolderKeepsPort
INVARIANT NoLeakedPort
INVARIANT HandoffFaithful
INVARIANT NoUseAfterClose
INVARIANT ServingIsReachable
