\* Three callbacks at different statements while run() closes.
CONSTANTS
    Callbacks = {m1, m2, m3}
    RunCancelled = TRUE
SPECIFICATION FairShutdown
INVARIANTS DrainedOnReturn NoFutureIsLeft
PROPERTIES RunEnds
CHECK_DEADLOCK FALSE
