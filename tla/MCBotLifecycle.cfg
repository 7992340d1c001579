\* Both identities, USER derived from APP, so that the four shared tasks wait
\* for one another; one call, which may be cancelled and made again, and one
\* close() meet them.
CONSTANTS
    Ids = {"app", "user"}
    Calls = {c1}
    Closers = {x1}
    UserProvider = FALSE
    CloseBroken = TRUE
    AuthModeFails = FALSE
SPECIFICATION FairSpec
INVARIANTS SingleFlight ReturnedMeansClosed
PROPERTIES NoClientAfterClose EveryWaitEnds
