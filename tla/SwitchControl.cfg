\* Starts, stops, failures and crashes of one manager, with verified commands beside it.
CONSTANTS
    m1 = m1
    m2 = m2
    v = v
    Procs = {m1, v}
    Commands <- MCOneManager
    N_planes = 2
    MaxStarts = 3
    MaxFaults = 2
    MaxCrashes = 1
    NoOne = NoOne
SPECIFICATION Spec
CHECK_DEADLOCK FALSE
 
 
INVARIANT VerifiedIsCurrent
INVARIANT ObservationStands
