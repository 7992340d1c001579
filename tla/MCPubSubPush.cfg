\* Three requests: a holder, one that takes over, one that comes late.
CONSTANTS
    Keys = {valid, invalid, unkeyed}
    Invalid = {invalid}
    Unkeyed = {unkeyed}
    Owners = {r1, r2, r3}
    NoClaim = NoClaim
    Lease = 1
    MaxTime = 2
SYMMETRY RequestSymmetry
SPECIFICATION PushSpec
INVARIANTS AckedMeansHandled HandledOnce
PROPERTIES CompletionRecorded
CHECK_DEADLOCK FALSE
