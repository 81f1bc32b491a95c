\* Two ports, failing calls and crashes at every step.
CONSTANTS
    N_ports = 2
    i1 = i1
    i2 = i2
    i3 = i3
    i4 = i4
    Indices = {i1, i2, i3, i4}
    Kinds = {"veth", "tap"}
    Faults <- MCFaults
    NoSlot = NoSlot
    NoLink = NoLink
SYMMETRY Symmetry
SPECIFICATION Spec
INVARIANT RevPointsBack
PROPERTY ForceReleaseComplete
