----------------------------- MODULE HandlerPlans -----------------------------
(***************************************************************************)
(* Which observers an event is offered to and how a handler's parameters   *)
(* are resolved: Dispatcher._specific_observer_names and                   *)
(* dispatcher/dependency.py, with the smaller plan of                      *)
(* workspace_events/runtime.py.  Handlers, keys and parameters go by their *)
(* names; an annotation is the set of event classes it mentions.           *)
(***************************************************************************)
EXTENDS Sequences

\* The event classes, an ActionEvent split by its dialog and a CommandEvent by
\* its kind, as the dispatcher does.
Specific ==
    [ message |-> <<"message">>,
      action |-> <<"action">>,
      dialog_submit |-> <<"dialog_submit">>,
      dialog_cancel |-> <<"dialog_cancel">>,
      message_action |-> <<"message_action", "command">>,
      slash_command |-> <<"slash_command", "command">>,
      quick_command |-> <<"quick_command", "command">>,
      unknown_command |-> <<>>,
      added_to_space |-> <<"added_to_space">>,
      removed_from_space |-> <<"removed_from_space">>,
      widget_updated |-> <<"widget_updated">>,
      app_home |-> <<"app_home">>,
      form_submit |-> <<"form_submit">>,
      unknown |-> <<"unknown_event">>,
      error |-> <<"error">> ]

Kinds == DOMAIN Specific

Commands == {"message_action", "slash_command", "quick_command", "unknown_command"}

Actions == {"action", "dialog_submit", "dialog_cancel"}

\* The observers asked one after the other: the catch-all "event" is last, and
\* an ErrorEvent is not offered to it.
Passes(kind) == Specific[kind] \o (IF kind = "error" THEN <<>> ELSE <<"event">>)

\* The parameter names that stand for the event itself.
Aliases(kind) ==
    {"event"} \cup
    CASE kind = "message" -> {"message"}
      [] kind \in Actions -> {"action"} \cup ({kind} \ {"action"})
      [] kind \in Commands -> {"command"}
      [] kind = "widget_updated" -> {"widget"}
      [] kind = "form_submit" -> {"form"}
      [] kind = "error" -> {"error", "error_event"}
      [] OTHER -> {kind}

AliasNames == UNION {Aliases(kind) : kind \in Kinds}

\* A parameter of a callback: its name, the event classes its annotation
\* mentions, whether the annotation is missing (or Any), its default.
ParameterPlan(parameter) ==
    [ name |-> parameter.name,
      types |-> parameter.types,
      alias |-> parameter.types = {} /\ parameter.bare /\ parameter.name \in AliasNames,
      default |-> parameter.default ]

\* Only async callbacks with named parameters can be registered.
Registrable(callback) ==
    /\ callback.async
    /\ \A p \in callback.parameters : p.kind \notin {"positional_only", "var_positional", "var_keyword"}

\* What HandlerPlan.invoke binds a parameter to; "unresolved" is a
\* DependencyResolutionError.
Binding(plan, kind, data) ==
    CASE plan.types # {} -> IF kind \in plan.types THEN "event" ELSE "unresolved"
      [] plan.types = {} /\ plan.alias /\ plan.name \in Aliases(kind) -> "event"
      [] plan.types = {} /\ ~(plan.alias /\ plan.name \in Aliases(kind)) ->
            IF plan.name \in data THEN "context"
            ELSE IF plan.default THEN "default" ELSE "unresolved"

Resolved(callback, kind, data) ==
    \A p \in callback.parameters : Binding(ParameterPlan(p), kind, data) # "unresolved"

\* The plan of a Workspace Events handler: there is one event class, and two
\* names stand for it.
WorkspaceAlias(parameter) ==
    parameter.types = {} /\ parameter.bare /\ parameter.name \in {"event", "workspace_event"}

WorkspaceResolved(callback, data) ==
    \A p \in callback.parameters :
        \/ p.types # {} /\ "workspace" \in p.types
        \/ p.types = {} /\ (WorkspaceAlias(p) \/ p.name \in data \/ p.default)
===============================================================================
