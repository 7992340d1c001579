--------------------------- MODULE LifespanResources ---------------------------
(***************************************************************************)
(* Lifespan (dispatcher/lifespan.py): the resources of an application are  *)
(* started in order, closed in reverse, and rolled back when one of them   *)
(* fails to start.  start() and close() of each may raise anything,        *)
(* CancelledError as well.                                                 *)
(***************************************************************************)
EXTENDS Naturals, SequencesExt

CONSTANTS
    Resources,          \* Lifespan._resources, a sequence
    MaxEntries          \* bound: how often the context manager is entered

\* Each resource is an object of its own.
ASSUME ResourcesAssumption ==
    Resources \in Seq(Range(Resources)) /\ IsInjective(Resources)

VARIABLES
    phase,              \* where __aenter__ and __aexit__ are
    _started,           \* Lifespan._started
    _closed,            \* Lifespan._closed
    todo,               \* what the running loop has still to visit
    errors,             \* close_errors
    failing,            \* the body of the with statement raised
    running,            \* the resources that are started and not closed since
    entries

lifeVars == <<phase, _started, _closed, todo, errors, failing, running, entries>>

LifeInit ==
    /\ phase = "outside" /\ _started = <<>> /\ _closed = FALSE
    /\ todo = <<>> /\ errors = 0 /\ failing = FALSE
    /\ running = <<>> /\ entries = 0

Enter ==
    /\ phase \in {"outside", "failed"} /\ ~_closed
    /\ entries < MaxEntries
    /\ entries' = entries + 1
    /\ phase' = "starting" /\ todo' = Resources
    /\ UNCHANGED <<_started, _closed, errors, failing, running>>

Starts ==
    /\ phase = "starting" /\ todo # <<>>
    /\ _started' = Append(_started, Head(todo))
    /\ running' = Append(running, Head(todo))
    /\ todo' = Tail(todo)
    /\ UNCHANGED <<phase, _closed, errors, failing, entries>>

Entered ==
    /\ phase = "starting" /\ todo = <<>>
    /\ phase' = "inside"
    /\ UNCHANGED <<_started, _closed, todo, errors, failing, running, entries>>

\* Faulty: the resources that did start are left alone
StartFailsUnrolled ==
    /\ phase = "starting" /\ todo # <<>>
    /\ phase' = "rollback" /\ todo' = <<>>
    /\ UNCHANGED <<_started, _closed, errors, failing, running, entries>>

StartFails ==
    /\ phase = "starting" /\ todo # <<>>
    /\ phase' = "rollback" /\ todo' = Reverse(_started)
    /\ UNCHANGED <<_started, _closed, errors, failing, running, entries>>

\* A close is over for its resource whether it raises or not.
Gone(resource) == RemoveFirst(running, resource)

RollsBack ==
    /\ phase = "rollback" /\ todo # <<>>
    /\ running' = Gone(Head(todo)) /\ todo' = Tail(todo)
    /\ UNCHANGED <<phase, _started, _closed, errors, failing, entries>>

\* The error of the start is raised again; the lifespan may be entered anew.
RolledBack ==
    /\ phase = "rollback" /\ todo = <<>>
    /\ phase' = "failed" /\ _started' = <<>>
    /\ UNCHANGED <<_closed, todo, errors, failing, running, entries>>

\* Faulty: the resources are closed in the order they were started
LeaveForwards(raised) ==
    /\ phase = "inside"
    /\ phase' = "closing" /\ todo' = _started /\ failing' = raised
    /\ UNCHANGED <<_started, _closed, errors, running, entries>>

Leave(raised) ==
    /\ phase = "inside"
    /\ phase' = "closing" /\ todo' = Reverse(_started) /\ failing' = raised
    /\ UNCHANGED <<_started, _closed, errors, running, entries>>

Closes(fails) ==
    /\ phase = "closing" /\ todo # <<>>
    /\ running' = Gone(Head(todo)) /\ todo' = Tail(todo)
    /\ errors' = errors + (IF fails THEN 1 ELSE 0)
    /\ UNCHANGED <<phase, _started, _closed, failing, entries>>

\* The first failure to close is raised, unless the body raised already.
Left ==
    /\ phase = "closing" /\ todo = <<>>
    /\ _started' = <<>> /\ _closed' = TRUE
    /\ phase' = IF errors > 0 /\ ~failing THEN "close failed" ELSE "left"
    /\ UNCHANGED <<todo, errors, failing, running, entries>>

LifeStep ==
    \/ Starts \/ Entered \/ StartFails \/ RollsBack \/ RolledBack \/ Left
    \/ \E fails \in BOOLEAN : Closes(fails)

\* Nothing stays open behind a lifespan that was left or could not be entered,
\* whichever start or close failed on the way.
NothingLeftOpen == phase \in {"failed", "left", "close failed"} => running = <<>>

\* A resource is closed only when everything started after it is closed: what
\* it depends on is still there while it shuts down.  (lifespan.py:4-8)
ClosedInReverse ==
    [][Len(running') < Len(running) => running' = Front(running)]_lifeVars
===============================================================================
