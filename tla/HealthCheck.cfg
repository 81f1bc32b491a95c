\* Two ports of both kinds, complete commands, and a health check at any point of them.
CONSTANTS
    N_ports = 2
    i1 = i1
    i2 = i2
    i3 = i3
    i4 = i4
    Indices = {i1, i2, i3}
    Kinds = {"veth", "tap"}
    Faults = {}
    NoSlot = NoSlot
    NoLink = NoLink
SYMMETRY Symmetry
SPECIFICATION HealthSpec
INVARIANT PortsWired
INVARIANT NoOrphans
PROPERTY NoFalseAlarm
 
