\* Two attempts, each with a renewal task racing its own main flow and the
\* other attempt's takeover.  With Lease = 1 one tick is enough for a renewal
\* and for a lapse.
CONSTANTS
    Keys = {k1}
    Owners = {o1, o2}
    NoClaim = NoClaim
    Lease = 1
    Retention = 1
    Renewing = {o1, o2}
    MaxTime = 1
    MaxFaults = 1
SPECIFICATION FairSpec
CHECK_DEADLOCK FALSE
INVARIANTS ExpiryCoversLease
PROPERTIES ImplementsContract OperationsReturn
