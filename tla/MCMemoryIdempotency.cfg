\* Three attempts for two keys: a holder, one that takes its lapsed lease
\* over and one that races both.  Leases of 2 ticks can lapse twice in 5.
CONSTANTS
    Keys = {k1, k2}
    Owners = {o1, o2, o3}
    NoClaim = NoClaim
    Lease = 2
    MaxTime = 5
SPECIFICATION MemorySpec
CHECK_DEADLOCK FALSE
INVARIANTS OneLiveOwner
PROPERTIES ImplementsContract
