\* Three updates, at most two names: a holder and two waiters for one card, or
\* two cards at once.  Three lock objects, one more than there are names, so
\* that a replaced object can still be referred to by an earlier waiter.
CONSTANTS
    Tasks = {t1, t2, t3}
    Names = {n1, n2}
    LockIds = {l1, l2, l3}
    NoLock = NoLock
SPECIFICATION FairSpec
INVARIANTS MutualExclusion
PROPERTIES FirstComeFirstServed EveryWaiterIsServed
