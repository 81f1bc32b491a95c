\* Two managers: a command that waited on the directory of a stopped switch.
CONSTANTS
    m1 = m1
    m2 = m2
    v = v
    Procs = {m1, m2}
    Commands <- MCTwoManagers
    N_planes = 1
    MaxStarts = 2
    MaxFaults = 0
    MaxCrashes = 0
    NoOne = NoOne
SPECIFICATION Spec
CHECK_DEADLOCK FALSE
INVARIANT ControlExclusive
