\* A switch that is started and stopped without ever being provisioned.
CONSTANTS
    m1 = m1
    m2 = m2
    v = v
    Procs = {m1}
    Commands <- MCAlone
    N_planes = 1
    MaxStarts = 2
    MaxFaults = 0
    MaxCrashes = 0
    NoOne = NoOne
SPECIFICATION Spec
CHECK_DEADLOCK FALSE
INVARIANT StopRemovesDevices
