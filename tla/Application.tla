------------------------------ MODULE Application ------------------------------
(***************************************************************************)
(* An application around a dispatcher: its lifespan is entered before the  *)
(* first event is fed and left when no event is being handled (the ASGI    *)
(* server sees to both), and the router tree may grow at any time.         *)
(***************************************************************************)
EXTENDS WorkspaceDispatching, LifespanResources

CONSTANTS
    Includes,           \* the <<router, child>> inclusions the program makes
    LateHandlers,       \* the <<router, observer, handler>> it registers late
    LateMiddlewares     \* the <<router, middleware>> it registers late

ASSUME ProgramAssumption ==
    /\ Includes \subseteq Routers \X Routers
    /\ LateHandlers \subseteq Routers \X Observers \X Handlers
    /\ LateMiddlewares \subseteq Routers \X Middlewares

vars == <<dispatchVars, lifeVars>>

Init ==
    /\ TreeInit
    /\ DispatchInit
    /\ LifeInit

Serving == phase = "inside"

Quiet == \A t \in Turns : ~Live(t)

\* Setup code and handlers change the tree between two steps of a turn.  A
\* handler that cannot be called is refused when it is registered.
Grow ==
    /\ AtAwait
    /\ \/ \E i \in Includes : IncludeRouter(i[1], i[2])
       \/ \E l \in LateHandlers :
             /\ l[3] \notin Range(handlers[l[1]][l[2]])
             /\ Registrable(Callbacks[l[3]])
             /\ Register(l[1], l[2], l[3])
       \/ \E m \in LateMiddlewares :
             /\ m[2] \notin Range(middleware[m[1]])
             /\ Use(m[1], m[2])
    /\ UNCHANGED <<turn, current, lifeVars>>

Fed(t) ==
    /\ Serving
    /\ \/ \E kind \in RootKinds \cap Kinds : Feed(t, kind, NoTurn, DefaultBot)
       \/ "workspace" \in RootKinds /\ FeedEvent(t)
       \/ \E p \in Turns, kind \in NestedKinds, bot \in {NoBot, OtherBot} : Feed(t, kind, p, bot)
    /\ UNCHANGED lifeVars

Proceed(t) ==
    /\ IF turn[t].kind = "workspace" THEN EventStep(t) ELSE Step(t)
    /\ UNCHANGED lifeVars

Cancelled(t) == (Cancel(t) \/ CancelNested(t)) /\ UNCHANGED lifeVars

Lifespan ==
    /\ \/ Enter \/ LifeStep
       \/ Quiet /\ \E raised \in BOOLEAN : Leave(raised)
    /\ UNCHANGED dispatchVars

Next ==
    \/ Grow \/ Lifespan
    \/ \E t \in Turns : Fed(t) \/ Proceed(t) \/ Cancelled(t)

Spec == Init /\ [][Next]_vars

HandlerReturns(t) == (\E out \in Outcomes : Body(t, out)) /\ UNCHANGED lifeVars

\* The event loop runs every task, and what the user wrote returns in the end:
\* a handler does not feed further events for ever.
FairSpec ==
    /\ Spec
    /\ \A t \in Turns : WF_vars(Proceed(t)) /\ SF_vars(HandlerReturns(t))

\* While a handler runs, everything the application started is open; whatever
\* fails while it starts or stops, nothing is left open in the end.  (A
\* resource is closed before those it was started after: ClosedInReverse.)
ResourcesOutliveTurns ==
    /\ \A t \in Turns : turn[t].pc = "body" => running = Resources
    /\ NothingLeftOpen

\* Every turn comes to its end, whatever routers and handlers are added while
\* it walks: the walk is finite and each frame is left again.
TurnsEnd == \A t \in Turns : Live(t) ~> ~Live(t)
===============================================================================
