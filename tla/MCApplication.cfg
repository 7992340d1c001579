CONSTANTS
    Routers <- MCRouters
    Root = "app"
    NoRouter = NoRouter
    Observers <- MCObservers
    Middlewares = {"locale", "trace"}
    Registrations <- MCRegistrations
    Stack <- MCStack
    Turns = {t1, t2}
    NoTurn = NoTurn
    NestedTurns = {t2}
    Feeders = {"any"}
    NoBot = NoBot
    DefaultBot = DefaultBot
    OtherBot = OtherBot
    RootKinds = {"slash_command", "workspace"}
    NestedKinds = {"message"}
    Filtered <- MCFiltered
    Callbacks <- MCCallbacks
    BaseKeys = {"bot", "preview_capabilities", "state"}
    MaxRetries = 1
    Strict = TRUE
    Resources <- MCResources
    MaxEntries = 1
    Includes <- MCIncludes
    LateHandlers <- MCLateHandlers
    LateMiddlewares <- MCLateMiddlewares
SPECIFICATION FairSpec
INVARIANTS OfferedInOrder CallerIsTold ContextIsolated ResourcesOutliveTurns
PROPERTIES ClosedInReverse TurnsEnd
CHECK_DEADLOCK FALSE
