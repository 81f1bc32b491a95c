\* Two clients that retry once, a server that is restarted, pools of two and one address.
CONSTANTS
    m1 = m1
    m2 = m2
    Macs = {m1, m2}
    AddrBits = 3
    Pools <- MCPools
    Retries = 1
    MaxRestarts = 1
    NoLease = NoLease
SPECIFICATION FairSpec
CHECK_DEADLOCK FALSE
INVARIANT NoSharedLease
INVARIANT LeaseIsRecorded
INVARIANT PoolIsExact
PROPERTY ServeStops
