------------------------------ MODULE Dispatching ------------------------------
(***************************************************************************)
(* Dispatcher.feed_update (dispatcher/dispatcher.py): one event is offered *)
(* to observer after observer, router after router, handler after handler, *)
(* through filters and middlewares, any of which may decline, stop, fail   *)
(* or be cancelled; failures are offered to the error observers.  A turn   *)
(* is one call of feed_update; a handler may feed another event itself.    *)
(*                                                                         *)
(* A step of a turn ends where the code awaits something of the user's, so *)
(* routers may be attached and handlers registered between two steps.      *)
(***************************************************************************)
EXTENDS RouterTree, HandlerPlans

CONSTANTS
    Turns,
    NoTurn,
    NestedTurns,        \* the turns that handlers feed
    Feeders,            \* the handlers that do
    NoBot,
    DefaultBot,         \* Dispatcher(bot=...)
    OtherBot,           \* feed_update(..., bot=...)
    RootKinds, NestedKinds,
    Filtered,           \* the <<router, observer>> with observer filters
    Callbacks,          \* the signature of each handler
    BaseKeys,           \* the keys of the context given to handlers
    MaxRetries,         \* how often a middleware may call next again
    Strict              \* strict_interactions

Handlers == DOMAIN Callbacks

NoHandler == "no handler"

ASSUME HandlersAssumption ==
    /\ NoHandler \notin Handlers
    /\ Registrations \in [Routers -> [Observers -> Seq(Handlers)]]

\* What is offered has observers to be offered to; a context has a bot.
ASSUME KindsAssumption ==
    /\ NestedKinds \subseteq Kinds
    /\ {"workspace_event", "error"} \subseteq Observers
    /\ \A kind \in (RootKinds \cap Kinds) \cup NestedKinds : Passes(kind) \in Seq(Observers)
    /\ "bot" \in BaseKeys

ASSUME TurnsAssumption == NoTurn \notin Turns

VARIABLES
    turn,               \* what each call of feed_update is doing
    current             \* the current bot of each task (a ContextVar)

dispatchVars == <<tree, turn, current>>

Idle ==
    [ pc |-> "idle", kind |-> "unknown", by |-> NoTurn, bot |-> NoBot, saved |-> NoBot,
      pass |-> "event", left |-> <<>>, todo |-> <<>>, at |-> Root, around |-> <<>>,
      candidates |-> <<>>, handler |-> NoHandler, depth |-> 0, seen |-> {}, data |-> {},
      out |-> "none", stage |-> "unknown", failure |-> "none", answer |-> NoHandler,
      raises |-> FALSE, retries |-> 0, roster |-> {}, offered |-> <<>>,
      declined |-> {}, done |-> {}, meddled |-> FALSE ]

DispatchInit ==
    /\ turn = [t \in Turns |-> Idle]
    /\ current = [t \in Turns |-> NoBot]

\* A change of a record takes the place of what it had.
Over(change, record) ==
    [f \in DOMAIN change \cup DOMAIN record |->
        IF f \in DOMAIN change THEN change[f] ELSE record[f]]

Become(t, change) ==
    /\ turn' = [turn EXCEPT ![t] = Over(change, @)]
    /\ UNCHANGED <<tree, current>>

\* The task a turn runs in: a nested turn runs in its parent's.
Task(t) == IF turn[t].by = NoTurn THEN t ELSE turn[t].by

Live(t) == turn[t].pc # "idle"

Waiting(t) == \E u \in Turns : turn[u].by = t /\ Live(u)

\* Between the awaits of a turn nothing else happens.
AtAwait == \A t \in Turns : turn[t].pc \notin {"select", "walk"}

Feed(t, kind, parent_, bot) ==
    /\ turn[t].pc = "idle"
    /\ AtAwait
    /\ IF parent_ = NoTurn
       THEN t \notin NestedTurns /\ kind \in RootKinds
       ELSE /\ t \in NestedTurns /\ kind \in NestedKinds
            /\ turn[parent_].pc = "body" /\ ~Waiting(parent_)
            /\ turn[parent_].handler \in Feeders
            /\ turn[parent_].by = NoTurn       \* a bound: turns nest once
    /\ LET task == IF parent_ = NoTurn THEN t ELSE parent_
           begun == [pc |-> "select", kind |-> kind, by |-> parent_, bot |-> bot,
                     saved |-> current[task], left |-> Passes(kind)]
       IN  /\ turn' = [turn EXCEPT ![t] = Over(begun, @)]
           /\ current' = [current EXCEPT ![task] = bot]
    /\ UNCHANGED tree

\* Faulty: a failing error handler is offered to the error observers again
FailedAgain(t, stage) ==
    [pc |-> "select", failure |-> stage, left |-> <<"error">>, answer |-> NoHandler]

\* An exception of the routing itself: to the error observers once, out of
\* feed_update from there.
Failed(t, stage) ==
    IF turn[t].failure = "none"
    THEN [pc |-> "select", failure |-> stage, left |-> <<"error">>, answer |-> NoHandler]
    ELSE [pc |-> "finally", raises |-> TRUE]

Stopped(t) == [pc |-> "finally", raises |-> turn[t].failure # "none"]

Select(t) ==
    /\ turn[t].pc = "select" /\ turn[t].left # <<>>
    /\ LET pass == Head(turn[t].left)
       IN  Become(t, [pc |-> "walk", pass |-> pass, left |-> Tail(turn[t].left),
                      todo |-> WalkStart, roster |-> Registered(pass),
                      offered |-> <<>>, declined |-> {}])

\* Faulty: an error nobody handles is dropped
UnmatchedSilently(t) ==
    /\ turn[t].pc = "select" /\ turn[t].left = <<>>
    /\ Become(t, IF turn[t].failure = "none" /\ Strict /\ turn[t].kind \in Actions \cup Commands
                 THEN Failed(t, "unknown") ELSE [pc |-> "finally"])

\* Nothing matched.  In strict mode that is an error for what users clicked or
\* typed; an unmatched error is raised again.
Unmatched(t) ==
    /\ turn[t].pc = "select" /\ turn[t].left = <<>>
    /\ Become(t,
          IF turn[t].failure # "none" THEN [pc |-> "finally", raises |-> TRUE]
          ELSE IF Strict /\ turn[t].kind \in Actions \cup Commands THEN Failed(t, "unknown")
          ELSE [pc |-> "finally"])

\* On to the next router that has handlers for this observer.
Walk(t) ==
    /\ turn[t].pc = "walk"
    /\ IF turn[t].todo = <<>>
       THEN Become(t, [pc |-> "select"])
       ELSE LET entry == Head(turn[t].todo)
                around == Around(entry)
                found == handlers[entry.router][turn[t].pass]
            IN  Become(t,
                  IF found = <<>>
                  THEN [todo |-> Below(entry.router, around) \o Tail(turn[t].todo)]
                  ELSE [pc |-> "filters", todo |-> Tail(turn[t].todo), at |-> entry.router,
                        around |-> around, candidates |-> found, data |-> {}])

\* No handler of this router took the event: the walk goes on below it.
Onward(t) ==
    [pc |-> "walk", todo |-> Below(turn[t].at, turn[t].around) \o turn[t].todo,
     handler |-> NoHandler, data |-> {}, seen |-> {}, candidates |-> <<>>]

\* What a chain of filters may do: decline, raise, or agree and add keys to the
\* context; a key that exists already is a ContextConflictError.
Filters(t, out, keys, known) ==
    /\ out \in {"no", "skip", "stop", "error", "yes"}
    /\ out = "yes" => keys \cap known = {}

ObserverFilters(t, out, keys) ==
    /\ turn[t].pc = "filters"
    /\ IF <<turn[t].at, turn[t].pass>> \in Filtered
       THEN Filters(t, out, keys, BaseKeys)
       ELSE out = "yes" /\ keys = {}
    /\ Become(t,
          CASE out = "yes" -> [pc |-> "candidates", seen |-> BaseKeys \cup keys]
            [] out \in {"no", "skip"} -> Over([declined |-> turn[t].declined \cup {turn[t].at}], Onward(t))
            [] out = "stop" -> Stopped(t)
            [] out = "error" -> Failed(t, "filter"))

NextCandidate(t) == [pc |-> "candidates", handler |-> NoHandler, data |-> {}, depth |-> 0,
                     out |-> "none", stage |-> "unknown"]

HandlerFilters(t, out, keys) ==
    /\ turn[t].pc = "candidates" /\ turn[t].candidates # <<>>
    /\ LET h == Head(turn[t].candidates)
           rest == [candidates |-> Tail(turn[t].candidates),
                    offered |-> Append(turn[t].offered, <<turn[t].at, h>>)]
       IN  /\ Filters(t, out, keys, turn[t].seen)
           /\ Become(t, Over(rest,
                CASE out = "yes" -> [pc |-> "frame", handler |-> h, depth |-> 1,
                                     data |-> turn[t].seen \cup keys, retries |-> 0]
                  [] out \in {"no", "skip"} -> NextCandidate(t)
                  [] out = "stop" -> Stopped(t)
                  [] out = "error" -> Failed(t, "filter")))

Exhausted(t) ==
    /\ turn[t].pc = "candidates" /\ turn[t].candidates = <<>>
    /\ Become(t, Onward(t))

(***************************************************************************)
(* Dispatcher._invoke and invoke_with_middleware: frame 1 is the outermost *)
(* middleware, the last frame resolves the handler's parameters and calls  *)
(* it.                                                                     *)
(***************************************************************************)
Frames(t) == Len(turn[t].around)

Outcomes == {"result", "skip", "stop", "error"}

\* A middleware adds its own key and calls next, or answers itself.
Middleware(t, out) ==
    /\ turn[t].pc = "frame" /\ turn[t].depth <= Frames(t)
    /\ Become(t,
          IF out = "next"
          THEN [depth |-> turn[t].depth + 1,
                data |-> turn[t].data \cup {turn[t].around[turn[t].depth]}]
          ELSE [pc |-> "unwind", depth |-> turn[t].depth - 1, out |-> out, stage |-> "unknown",
                meddled |-> TRUE])

\* The event that is routed: an ErrorEvent takes the place of the one that failed.
Routed(t) == IF turn[t].failure = "none" THEN turn[t].kind ELSE "error"

Resolve(t) ==
    /\ turn[t].pc = "frame" /\ turn[t].depth = Frames(t) + 1
    /\ Become(t,
          IF Resolved(Callbacks[turn[t].handler], Routed(t), turn[t].data)
          THEN [pc |-> "body"]
          ELSE [pc |-> "unwind", depth |-> Frames(t), out |-> "error",
                stage |-> "dependency_resolution"])

Body(t, out) ==
    /\ turn[t].pc = "body" /\ ~Waiting(t)
    /\ Become(t, [pc |-> "unwind", depth |-> Frames(t), out |-> out,
                  stage |-> IF out = "error" THEN "handler" ELSE "unknown",
                  done |-> IF out = "result" THEN turn[t].done \cup {turn[t].handler}
                           ELSE turn[t].done])

\* A middleware gets the outcome of next: it lets it through, calls next again
\* or decides otherwise.
Unwind(t, out) ==
    /\ turn[t].pc = "unwind" /\ turn[t].depth > 0
    /\ IF out = "next"
       THEN /\ turn[t].retries < MaxRetries
            /\ Become(t, [pc |-> "frame", depth |-> turn[t].depth + 1,
                          retries |-> turn[t].retries + 1, meddled |-> TRUE])
       ELSE IF out = turn[t].out
       THEN Become(t, [depth |-> turn[t].depth - 1])
       ELSE Become(t, [depth |-> turn[t].depth - 1, out |-> out, stage |-> "unknown",
                       meddled |-> TRUE])

\* The outcome reaches _route_pass.
Returned(t) ==
    /\ turn[t].pc = "unwind" /\ turn[t].depth = 0
    /\ Become(t,
          CASE turn[t].out = "result" -> [pc |-> "finally", answer |-> turn[t].handler]
            [] turn[t].out = "skip" -> NextCandidate(t)
            [] turn[t].out = "stop" -> Stopped(t)
            [] turn[t].out = "error" ->
                  Failed(t, IF turn[t].stage = "unknown" THEN "middleware" ELSE turn[t].stage))

\* The task is cancelled at an await: the innermost turn goes to its finally,
\* past the error observers; its exception then runs through the turn around.
Cancel(t) ==
    /\ Live(t) /\ ~Waiting(t) /\ turn[t].by = NoTurn
    /\ turn[t].pc \notin {"select", "walk", "finally"}
    /\ Become(t, [pc |-> "finally", raises |-> TRUE, answer |-> NoHandler, out |-> "cancel"])

CancelNested(t) ==
    /\ Live(t) /\ turn[t].by # NoTurn
    /\ turn[t].pc \notin {"select", "walk", "finally"}
    /\ LET gone == [pc |-> "finally", raises |-> TRUE, answer |-> NoHandler, out |-> "cancel"]
       IN  turn' = [turn EXCEPT ![t] = Over(gone, @), ![turn[t].by] = Over(gone, @)]
    /\ UNCHANGED <<tree, current>>

\* Faulty: no bot is current after any turn
RestoredNone(t) == NoBot

\* _reset_current_bot: by the token of the turn's own set.
Restored(t) == turn[t].saved

\* after_event, then the bot that was current before.
End(t) ==
    /\ turn[t].pc = "finally" /\ ~Waiting(t)
    /\ turn' = [turn EXCEPT ![t] = Idle]
    /\ current' = [current EXCEPT ![Task(t)] = Restored(t)]
    /\ UNCHANGED tree

\* Filters add a key of their own, or try to redefine the bot.
Added(owner) == {{}, {owner}, {"bot"}}

Step(t) ==
    \/ Select(t) \/ Unmatched(t) \/ Walk(t) \/ Exhausted(t) \/ Resolve(t) \/ Returned(t) \/ End(t)
    \/ \E out \in {"no", "skip", "stop", "error", "yes"} :
          \/ \E keys \in Added(turn[t].at) : ObserverFilters(t, out, keys)
          \/ /\ turn[t].candidates # <<>>
             /\ \E keys \in Added(Head(turn[t].candidates)) : HandlerFilters(t, out, keys)
    \/ \E out \in Outcomes \cup {"next"} : Middleware(t, out) \/ Unwind(t, out)
    \/ \E out \in Outcomes : Body(t, out)

(***************************************************************************)
(* Properties                                                              *)
(***************************************************************************)

\* In a pass, handlers are offered the event in the documented order and never
\* twice; of those registered when the pass began none is passed over, but for
\* the routers whose observer filters declined, and when the walk has nothing
\* left all of them had it.  Routers and handlers that come in during the pass
\* may be offered it or not, and change nothing about the rest.
\* (dispatcher.py:290-302, router.py:82-88)
OfferedInOrder ==
    \A t \in Turns :
        LET offered == turn[t].offered
            Missed(x) == x \notin Range(offered) /\ x[1] \notin turn[t].declined
        IN  /\ \A i, j \in DOMAIN offered :
                  i < j => Before(offered[i], offered[j], turn[t].pass)
            /\ \A i \in DOMAIN offered : offered[i][1] \notin turn[t].declined
            /\ \A x \in turn[t].roster : Missed(x) =>
                  \A i \in DOMAIN offered : Before(offered[i], x, turn[t].pass)
            /\ turn[t].pc = "walk" /\ turn[t].todo = <<>> =>
                  \A x \in turn[t].roster : ~Missed(x)

\* What the caller of feed_update learns is what happened: a failure is never
\* silent, it is raised unless an error handler answered for it; and unless a
\* middleware interfered, at most one handler completed, and its result is
\* the answer.  (dispatcher.py:206-224)
CallerIsTold ==
    \A t \in Turns : turn[t].pc = "finally" /\ turn[t].out # "cancel" =>
        /\ turn[t].failure # "none" => turn[t].raises \/ turn[t].answer # NoHandler
        /\ turn[t].raises => turn[t].answer = NoHandler
        /\ ~turn[t].meddled =>
              turn[t].done = (IF turn[t].answer = NoHandler THEN {} ELSE {turn[t].answer})

\* A handler runs with the context of its own filters, its router's and the
\* middlewares above it, whatever earlier candidates added to theirs, and with
\* the bot of its own turn, also after a turn that it fed itself has ended.
ContextIsolated ==
    \A t \in Turns : turn[t].pc = "body" =>
        /\ turn[t].data \subseteq
              BaseKeys \cup {"context", turn[t].at, turn[t].handler}
              \cup UNION {Range(middleware[r]) : r \in Path(turn[t].at)}
        /\ Range(turn[t].around) \subseteq turn[t].data
        /\ ~Waiting(t) => current[Task(t)] = turn[t].bot
===============================================================================
