-------------------------- MODULE WorkspaceDispatching -------------------------
(***************************************************************************)
(* EventsDispatcher.feed_event (workspace_events/runtime.py): the smaller  *)
(* dispatcher of Workspace Events.  It walks a tree of the same kind with  *)
(* one observer per router; it has no observer filters, no hooks and no    *)
(* error observers, so what a handler raises is the caller's.  The frames  *)
(* of middlewares and the handler's body are those of Dispatching.         *)
(***************************************************************************)
EXTENDS Dispatching

FeedEvent(t) ==
    /\ turn[t].pc = "idle" /\ t \notin NestedTurns
    /\ AtAwait
    /\ Become(t, [pc |-> "walk", kind |-> "workspace", pass |-> "workspace_event",
                  todo |-> WalkStart, roster |-> Registered("workspace_event"),
                  saved |-> current[t]])

WalkEvents(t) ==
    /\ turn[t].pc = "walk"
    /\ IF turn[t].todo = <<>>
       THEN Become(t, [pc |-> "finally"])
       ELSE LET entry == Head(turn[t].todo)
                around == Around(entry)
            IN  Become(t, [pc |-> "candidates", todo |-> Tail(turn[t].todo), at |-> entry.router,
                           around |-> around, seen |-> {"context"},
                           candidates |-> handlers[entry.router]["workspace_event"]])

EventFilters(t, out, keys) ==
    /\ turn[t].pc = "candidates" /\ turn[t].candidates # <<>>
    /\ LET h == Head(turn[t].candidates)
           rest == [candidates |-> Tail(turn[t].candidates),
                    offered |-> Append(turn[t].offered, <<turn[t].at, h>>)]
       IN  /\ Filters(t, out, keys, turn[t].seen)
           /\ Become(t, Over(rest,
                CASE out = "yes" -> [pc |-> "frame", handler |-> h, depth |-> 1,
                                     data |-> turn[t].seen \cup keys, retries |-> 0]
                  [] out \in {"no", "skip"} -> NextCandidate(t)
                  [] out = "stop" -> [pc |-> "finally"]
                  [] out = "error" -> [pc |-> "finally", raises |-> TRUE]))

ResolveEvent(t) ==
    /\ turn[t].pc = "frame" /\ turn[t].depth = Frames(t) + 1
    /\ Become(t,
          IF WorkspaceResolved(Callbacks[turn[t].handler], turn[t].data)
          THEN [pc |-> "body"]
          ELSE [pc |-> "unwind", depth |-> Frames(t), out |-> "error"])

EventReturned(t) ==
    /\ turn[t].pc = "unwind" /\ turn[t].depth = 0
    /\ Become(t,
          CASE turn[t].out = "result" -> [pc |-> "finally", answer |-> turn[t].handler]
            [] turn[t].out = "skip" -> NextCandidate(t)
            [] turn[t].out = "stop" -> [pc |-> "finally"]
            [] turn[t].out = "error" -> [pc |-> "finally", raises |-> TRUE])

EventStep(t) ==
    \/ WalkEvents(t) \/ Exhausted(t) \/ ResolveEvent(t) \/ EventReturned(t) \/ End(t)
    \/ \E out \in {"no", "skip", "stop", "error", "yes"} :
          /\ turn[t].candidates # <<>>
          /\ \E keys \in {{}, {Head(turn[t].candidates)}, {"context"}} : EventFilters(t, out, keys)
    \/ \E out \in Outcomes \cup {"next"} : Middleware(t, out) \/ Unwind(t, out)
    \/ \E out \in Outcomes : Body(t, out)
===============================================================================
