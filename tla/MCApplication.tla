---------------------------- MODULE MCApplication ----------------------------
EXTENDS Application

\* The dispatcher "app" and two routers that the program attaches while events
\* come in, to the dispatcher or to each other, in any order that is legal.
MCRouters == {"app", "a", "b"}

MCObservers ==
    UNION {Range(Passes(k)) : k \in Kinds} \cup {"workspace_event"}

MCRegistrations ==
    [r \in MCRouters |-> [o \in MCObservers |->
        CASE r = "app" /\ o = "event" -> <<"fallback">>
          [] r = "app" /\ o = "error" -> <<"report">>
          [] r = "a" /\ o = "slash_command" -> <<"greet", "help">>
          [] r = "b" /\ o = "command" -> <<"any">>
          [] r = "a" /\ o = "workspace_event" -> <<"changed">>
          [] r = "b" /\ o = "workspace_event" -> <<"logged">>
          [] OTHER -> <<>>]]

MCStack == [r \in MCRouters |-> IF r = "a" THEN <<"locale">> ELSE <<>>]

Parameter(name, types, bare) ==
    [name |-> name, kind |-> "named", types |-> types, bare |-> bare, default |-> FALSE]

\* "greet" wants what a middleware of its router provides, "any" wants a
\* command by its class, "report" the error by its name.
MCCallbacks ==
    [h \in {"fallback", "report", "greet", "help", "any", "changed", "logged", "late", "sync"} |->
        [async |-> h # "sync",
         parameters |->
            CASE h = "greet" -> {Parameter("command", {}, TRUE), Parameter("locale", {}, FALSE)}
              [] h = "any" -> {Parameter("c", {"slash_command"}, FALSE)}
              [] h = "report" -> {Parameter("error", {}, TRUE)}
              [] h = "help" -> {Parameter("missing", {}, FALSE)}
              [] h = "changed" -> {Parameter("workspace_event", {}, TRUE)}
              [] OTHER -> {Parameter("event", {}, TRUE)}]]

MCResources == <<"store", "bot">>

MCFiltered == {<<"a", "slash_command">>}

MCIncludes == {<<"app", "a">>, <<"app", "b">>, <<"a", "b">>}

MCLateHandlers == {<<"b", "command", "late">>, <<"b", "command", "sync">>}

MCLateMiddlewares == {<<"b", "trace">>}
===============================================================================
