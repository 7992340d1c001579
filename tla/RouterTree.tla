------------------------------ MODULE RouterTree ------------------------------
(***************************************************************************)
(* The router hierarchy of dispatcher/router.py (and its twin in           *)
(* workspace_events/runtime.py): routers with ordered children, handlers   *)
(* per observer and middlewares, and the walk a dispatcher takes through   *)
(* it.  Attaching and registering are legal at any time, during a walk as  *)
(* well.                                                                   *)
(***************************************************************************)
EXTENDS Naturals, FiniteSets, SequencesExt

CONSTANTS
    Routers, Root,      \* Root is the dispatcher
    NoRouter,
    Observers,
    Middlewares,
    Registrations,      \* initially: router -> observer -> handlers in order
    Stack               \* initially: router -> middlewares in order

ASSUME TreeAssumption ==
    /\ Root \in Routers
    /\ NoRouter \notin Routers
    /\ IsFiniteSet(Routers)
    /\ Stack \in [Routers -> Seq(Middlewares)]

VARIABLES
    parent,             \* Router._parent
    children,           \* Router._children
    handlers,           \* EventObserver._handlers of each router's observers
    middleware          \* MiddlewareManager._items

tree == <<parent, children, handlers, middleware>>

TreeInit ==
    /\ parent = [r \in Routers |-> NoRouter]
    /\ children = [r \in Routers |-> <<>>]
    /\ handlers = Registrations
    /\ middleware = Stack

\* Router._contains: r itself and everything below it, the routers in every
\* set that has r and, with a router, its children.
_contains(r, candidate) ==
    \A S \in SUBSET Routers :
        r \in S /\ (\A x \in S : Range(children[x]) \subseteq S) => candidate \in S

IncludeRouter(self, router) ==
    /\ router # self
    /\ router # Root
    /\ parent[router] = NoRouter
    /\ ~_contains(router, self)
    /\ parent' = [parent EXCEPT ![router] = self]
    /\ children' = [children EXCEPT ![self] = Append(@, router)]
    /\ UNCHANGED <<handlers, middleware>>

\* EventObserver.register
Register(router, observer, handler) ==
    /\ handlers' = [handlers EXCEPT ![router][observer] = Append(@, handler)]
    /\ UNCHANGED <<parent, children, middleware>>

\* MiddlewareManager.register
Use(router, item) ==
    /\ middleware' = [middleware EXCEPT ![router] = Append(@, item)]
    /\ UNCHANGED <<parent, children, handlers>>

(***************************************************************************)
(* Router._walk is a generator: what is left of it is a stack of routers,  *)
(* each with the middlewares it inherits.  A router's middlewares are read *)
(* when the walk reaches it, its children when the walk goes on.           *)
(***************************************************************************)
WalkStart == <<[router |-> Root, inherited |-> <<>>]>>

Around(entry) == entry.inherited \o middleware[entry.router]

\* Faulty: the routers included last come first
BelowReversed(router, items) ==
    Reverse([i \in 1..Len(children[router]) |->
                [router |-> children[router][i], inherited |-> items]])

Below(router, items) ==
    [i \in 1..Len(children[router]) |-> [router |-> children[router][i], inherited |-> items]]

(***************************************************************************)
(* The order the documentation gives: "pre-order depth-first: the current  *)
(* router, then descendants in inclusion order", and the handlers of an    *)
(* observer in the order of their registration.                            *)
(***************************************************************************)

\* The routers from r up to the root: those in every set of routers that has
\* r and, with a router, its parent.
Path(r) == {s \in Routers : \A S \in SUBSET Routers :
               r \in S /\ (\A x \in S : parent[x] \in Routers => parent[x] \in S) => s \in S}

\* r hangs below a child that was included earlier than the one s hangs below.
Beside(r, s) ==
    \E p \in Routers : \E i, j \in DOMAIN children[p] :
        i < j /\ children[p][i] \in Path(r) /\ children[p][j] \in Path(s)

Precedes(r, s) == (r \in Path(s) /\ r # s) \/ Beside(r, s)

\* x and y are <<router, handler>> pairs.
Before(x, y, observer) ==
    \/ Precedes(x[1], y[1])
    \/ /\ x[1] = y[1]
       /\ \E i, j \in DOMAIN handlers[x[1]][observer] :
             i < j /\ handlers[x[1]][observer][i] = x[2] /\ handlers[x[1]][observer][j] = y[2]

\* What is registered with one observer of the routers attached to the root.
Registered(observer) ==
    UNION {{r} \X Range(handlers[r][observer]) : r \in {s \in Routers : Root \in Path(s)}}
================================================================================
