\* Three deliveries of one message at once: one may hold the claim, one take
\* it over, one be absorbed as a duplicate.
CONSTANTS
    Messages = {m1}
    Attempts = {a1, a2, a3}
    Nobody = Nobody
    NoClaim = NoClaim
    MaxDeliveryAttempts = 2
    HasDeliveryAttempt = TRUE
    HasHooks = TRUE
    HasBot = TRUE
    Lease = 4
    renew_interval = 0
    Lateness = 1
    Durable = TRUE
    MaxFaults = 2
SPECIFICATION FairSpec
INVARIANTS NoSilentLoss RecordedIsDone LongHandlerKeepsClaim
PROPERTIES EventuallyAcked
CHECK_DEADLOCK FALSE
