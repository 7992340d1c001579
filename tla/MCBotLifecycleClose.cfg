\* Both identities with providers of their own; close() is never cancelled.
CONSTANTS
    Ids = {"app", "user"}
    Calls = {c1}
    Closers = {x1, x2}
    UserProvider = TRUE
    CloseBroken = FALSE
    AuthModeFails = TRUE
SPECIFICATION Spec
INVARIANTS CloseIsFinal
