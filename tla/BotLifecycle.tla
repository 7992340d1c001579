---------------------------- MODULE BotLifecycle ----------------------------
(***************************************************************************)
(* The life of a Bot's credentials and clients                             *)
(* (src/src/chattice/client/bot.py): for each identity one shared task     *)
(* resolves the credentials and one builds the client; API calls wait for  *)
(* them behind asyncio.shield, may be cancelled while they wait, and drop  *)
(* a failed task so that the next call starts another; close() waits for   *)
(* the tasks under way and closes the clients there are.                   *)
(*                                                                         *)
(* A slot is one of the attributes _credential_task, _user_credential_task,*)
(* _init_task and _user_init_task.  A task gives its slot to no other task *)
(* before it is done, so a slot and its latest task share a name.  The     *)
(* code between two awaits is one step; tasks made ready by one event are  *)
(* resumed in any order, and awaiting a task that is done already is a     *)
(* step of its own (the code does not even yield there).                   *)
(*                                                                         *)
(* The provider is external: it returns or raises.  It runs in a worker    *)
(* thread, but for the synchronous auth_mode, which calls it on the loop's *)
(* own thread and takes no notice of the shared task: nothing else on the  *)
(* loop runs meanwhile, but a worker thread may.                           *)
(* The two clients have transports of their own, as in production.         *)
(***************************************************************************)
EXTENDS Naturals

CONSTANTS Ids,          \* the identities used: APP, and USER if it is
          Calls,        \* API calls (OperationExecutor.execute, Bot.raw, warmup)
          Closers,      \* callers of close()
          UserProvider, \* the USER identity has a provider of its own; it is
                        \* derived from the APP credentials otherwise
          CloseBroken,  \* a call of close() may be cancelled, or fail to
                        \* close a transport
          AuthModeFails \* the provider may raise in auth_mode, too

ASSUME IdsAssumption == "app" \in Ids /\ Ids \subseteq {"app", "user"}
ASSUME DeploymentAssumption ==
    {UserProvider, CloseBroken, AuthModeFails} \subseteq BOOLEAN

cred(i) == <<"cred", i>>
init(i) == <<"init", i>>
Slots == {"cred", "init"} \X Ids
Waiters == Calls \cup Slots

(* How a task ends: with its value; with the ChatAPIError of a closed Bot; *)
(* with another exception.                                                 *)
Failures == {"closed", "failed"}
Results == {"ok"} \cup Failures

VARIABLES closed,   \* self._closed
          resolved, \* identities whose _resolved_set is true
          client,   \* the client of an identity and its transport
          filled,   \* slots that hold a task
          task,     \* per slot: where its latest task is, or how it ended
          awaits,   \* the slot a call or a task is waiting for
          got,      \* what that task has told it so far
          stale,    \* those whose awaited task is not in its slot any more
          pc,       \* per call: where it is
          target,   \* the identity whose client the call asks for next
          closer,   \* per caller of close(): where it is
          seen,     \* the tasks close() found, and how they ended
          inflight, \* per identity: provider calls that are running
          blocking  \* auth_mode is running the provider on the loop

vars == <<closed, resolved, client, filled, task, awaits, got, stale, pc,
          target, closer, seen, inflight, blocking>>
waiting == <<awaits, got, stale>>
calls == <<pc, target>>
closing == <<closer, seen>>
provided == <<resolved, inflight>>

TypeOK ==
    /\ closed \in BOOLEAN
    /\ resolved \subseteq Ids
    /\ client \in [Ids -> {"none", "open", "closed"}]
    /\ filled \subseteq Slots
    /\ task \in [Slots -> {"none", "ready", "provider", "waiting"} \cup Results]
    /\ awaits \in [Waiters -> Slots]
    /\ got \in [Waiters -> {"idle", "pending"} \cup Results]
    /\ stale \subseteq Waiters
    /\ pc \in [Calls -> {"idle", "cred", "init", "using"}]
    /\ target \in [Calls -> Ids]
    /\ closer \in [Closers -> {"idle", "awaiting", "closing", "returned",
                               "returned_at_once", "raised"}]
    /\ seen \in [Slots -> {"absent", "pending"} \cup Results]
    /\ inflight \in [Ids -> Nat]
    /\ blocking \in BOOLEAN

Init == /\ closed = FALSE
        /\ resolved = {}
        /\ client = [i \in Ids |-> "none"]
        /\ filled = {}
        /\ task = [s \in Slots |-> "none"]
        /\ awaits = [w \in Waiters |-> cred("app")]
        /\ got = [w \in Waiters |-> "idle"]
        /\ stale = {}
        /\ pc = [c \in Calls |-> "idle"]
        /\ target = [c \in Calls |-> "app"]
        /\ closer = [x \in Closers |-> "idle"]
        /\ seen = [s \in Slots |-> "absent"]
        /\ inflight = [i \in Ids |-> 0]
        /\ blocking = FALSE

-----------------------------------------------------------------------------
(* Waiting for a shared task. *)

(* w takes the task in slot s, or makes one, and waits for it.  own is what *)
(* the step does to w's own task, when w is one.                            *)
Await(w, s, own) ==
    /\ filled' = filled \cup {s}
    /\ task' = [own EXCEPT ![s] = IF s \in filled THEN @ ELSE "ready"]
    /\ awaits' = [awaits EXCEPT ![w] = s]
    /\ got' = [got EXCEPT ![w] =
                 IF s \in filled /\ task[s] \in Results THEN task[s] ELSE "pending"]
    /\ stale' = stale \ {w}

(* w is done with its wait. *)
Resumed(w) == awaits' = [awaits EXCEPT ![w] = cred("app")]

ToldOnSuccess(s, r) ==
    [w \in Waiters |-> IF awaits[w] = s /\ got[w] = "pending" /\ r = "ok"
                       THEN r ELSE got[w]]

(* What everybody waiting for slot s has when its task ends with r. *)
Told(s, r) == [w \in Waiters |->
                 IF awaits[w] = s /\ got[w] = "pending" THEN r ELSE got[w]]

Seen(s, r) == [seen EXCEPT ![s] = IF @ = "pending" THEN r ELSE @]

DropAlways(w) == {awaits[w]}

(* "if self._init_task is task": w drops the failed task from its slot,    *)
(* unless another waiter did.                                              *)
Dropped(w) == IF w \in stale THEN {} ELSE {awaits[w]}

(* Everybody else who was told the end of the task w drops. *)
Outdated(w) == {v \in Waiters : /\ awaits[v] = awaits[w] /\ got[v] \in Results}

(* The task in slot s ends with r. *)
Ends(s, r) == /\ task' = [task EXCEPT ![s] = r]
              /\ seen' = Seen(s, r)

-----------------------------------------------------------------------------
(* _resolve_credentials_once and _resolve_user_credentials_once *)

Provided(i) == i = "app" \/ UserProvider

ResolveStarts(i) ==
    /\ task[cred(i)] = "ready"
    /\ ~closed /\ i \notin resolved
    /\ IF Provided(i)
       THEN /\ task' = [task EXCEPT ![cred(i)] = "provider"]
            /\ inflight' = [inflight EXCEPT ![i] = @ + 1]
            /\ UNCHANGED <<filled, waiting>>
       ELSE /\ Await(cred(i), cred("app"), [task EXCEPT ![cred(i)] = "waiting"])
            /\ UNCHANGED inflight
    /\ UNCHANGED <<closed, resolved, client, calls, closing>>

(* The Bot is closed, or auth_mode has resolved the credentials.           *)
ResolveAnswers(i) ==
    /\ task[cred(i)] = "ready"
    /\ closed \/ i \in resolved
    /\ LET r == IF closed THEN "closed" ELSE "ok" IN
       Ends(cred(i), r) /\ got' = Told(cred(i), r)
    /\ UNCHANGED <<closed, client, filled, awaits, stale, calls, closer,
                   provided>>

ProviderEnds(i) ==
    /\ task[cred(i)] = "provider"
    /\ inflight' = [inflight EXCEPT ![i] = @ - 1]
    /\ \E r \in {"ok", "failed"} :
          /\ Ends(cred(i), r) /\ got' = Told(cred(i), r)
          /\ resolved' = IF r = "ok" THEN resolved \cup {i} ELSE resolved
    /\ UNCHANGED <<closed, client, filled, awaits, stale, calls, closer>>

(* The result of the task a task waits for, when that is a failure: drop   *)
(* it, and fail likewise.                                                  *)
Propagates(s) ==
    /\ task[s] = "waiting"
    /\ got[s] \in Failures
    /\ Ends(s, got[s])
    /\ filled' = filled \ Dropped(s)
    /\ stale' = (stale \cup (IF s \in stale THEN {} ELSE Outdated(s))) \ {s}
    /\ got' = [Told(s, got[s]) EXCEPT ![s] = "idle"]
    /\ Resumed(s)
    /\ UNCHANGED <<closed, client, calls, closer, provided>>

(* The USER credentials are the APP's, or None. *)
ResolveDerives(i) ==
    /\ task[cred(i)] = "waiting"
    /\ got[cred(i)] = "ok"
    /\ resolved' = resolved \cup {i}
    /\ Ends(cred(i), "ok")
    /\ got' = [Told(cred(i), "ok") EXCEPT ![cred(i)] = "idle"]
    /\ Resumed(cred(i))
    /\ UNCHANGED <<closed, client, filled, stale, calls, closer, inflight>>

(* The synchronous auth_mode property asks the provider on its own, also   *)
(* while the shared task's call of it is running ...                       *)
SyncAuthMode ==
    /\ ~blocking
    /\ "app" \notin resolved /\ ~closed
    /\ blocking' = TRUE
    /\ inflight' = [inflight EXCEPT !["app"] = @ + 1]
    /\ UNCHANGED <<closed, resolved, client, filled, task, waiting, calls,
                   closing>>

(* ... and keeps the loop to itself until it has an answer, or an error,   *)
(* which is not cached.                                                    *)
SyncAnswered ==
    /\ blocking
    /\ blocking' = FALSE
    /\ inflight' = [inflight EXCEPT !["app"] = @ - 1]
    /\ resolved' \in {resolved \cup {"app"}}
                      \cup (IF AuthModeFails THEN {resolved} ELSE {})
    /\ UNCHANGED <<closed, client, filled, task, waiting, calls, closing>>

-----------------------------------------------------------------------------
(* _initialize_client and _initialize_user_client *)

InitStarts(i) ==
    /\ task[init(i)] = "ready"
    /\ IF closed
       THEN /\ Ends(init(i), "closed") /\ got' = Told(init(i), "closed")
            /\ UNCHANGED <<filled, awaits, stale>>
       ELSE /\ Await(init(i), cred(i), [task EXCEPT ![init(i)] = "waiting"])
            /\ UNCHANGED seen
    /\ UNCHANGED <<closed, client, calls, closer, provided>>

InitEnds(i, r) ==
    /\ Ends(init(i), r)
    /\ got' = [Told(init(i), r) EXCEPT ![init(i)] = "idle"]
    /\ Resumed(init(i))
    /\ UNCHANGED <<closed, filled, stale, calls, closer, provided>>

BuildsUnchecked(i) ==
    /\ task[init(i)] = "waiting" /\ got[init(i)] = "ok"
    /\ client' = [client EXCEPT ![i] = "open"]
    /\ InitEnds(i, "ok")

(* _build_client publishes the client. *)
Builds(i) ==
    /\ task[init(i)] = "waiting" /\ got[init(i)] = "ok"
    /\ ~closed
    /\ client' = [client EXCEPT ![i] = "open"]
    /\ InitEnds(i, "ok")

(* close() began meanwhile, there are no credentials to build with, or the *)
(* SDK raises.                                                             *)
BuildFails(i) ==
    /\ task[init(i)] = "waiting" /\ got[init(i)] = "ok"
    /\ \E r \in Failures : InitEnds(i, r)
    /\ UNCHANGED client

-----------------------------------------------------------------------------
(* API calls *)

(* OperationExecutor.execute: the credentials are needed for the preflight. *)
Execute(c, i) ==
    /\ pc[c] = "idle"
    /\ Await(c, cred(i), task)
    /\ pc' = [pc EXCEPT ![c] = "cred"]
    /\ target' = [target EXCEPT ![c] = i]
    /\ UNCHANGED <<closed, client, closing, provided>>

(* _get_client_async: the cached client, closed or not, or the shared task. *)
GetClient(c, i) ==
    IF client[i] # "none"
    THEN /\ pc' = [pc EXCEPT ![c] = "using"]
         /\ got' = [got EXCEPT ![c] = "idle"]
         /\ Resumed(c)
         /\ UNCHANGED <<filled, task, stale>>
    ELSE /\ pc' = [pc EXCEPT ![c] = "init"]
         /\ Await(c, init(i), task)

(* Bot.raw and warmup ask for the client at once. *)
GetRaw(c, i) ==
    /\ pc[c] = "idle"
    /\ GetClient(c, i)
    /\ UNCHANGED <<closed, client, target, closing, provided>>

Preflighted(c) ==
    /\ pc[c] = "cred" /\ got[c] = "ok"
    /\ GetClient(c, target[c])
    /\ target' = [target EXCEPT ![c] = "app"]
    /\ UNCHANGED <<closed, client, closing, provided>>

HasClient(c) ==
    /\ pc[c] = "init" /\ got[c] = "ok"
    /\ pc' = [pc EXCEPT ![c] = "using"]
    /\ got' = [got EXCEPT ![c] = "idle"]
    /\ Resumed(c)
    /\ UNCHANGED <<closed, client, filled, task, stale, target, closing, provided>>

(* The call is over: the RPC ended, or the preflight refused. *)
CallEnds(c) ==
    /\ pc[c] = "using" \/ (pc[c] = "cred" /\ got[c] = "ok")
    /\ pc' = [pc EXCEPT ![c] = "idle"]
    /\ got' = [got EXCEPT ![c] = "idle"]
    /\ Resumed(c)
    /\ target' = [target EXCEPT ![c] = "app"]
    /\ UNCHANGED <<closed, client, filled, task, stale, closing, provided>>

(* "except Exception": drop the failed task and raise. *)
CallFails(c) ==
    /\ got[c] \in Failures
    /\ pc' = [pc EXCEPT ![c] = "idle"]
    /\ filled' = filled \ Dropped(c)
    /\ stale' = (stale \cup (IF c \in stale THEN {} ELSE Outdated(c))) \ {c}
    /\ got' = [got EXCEPT ![c] = "idle"]
    /\ Resumed(c)
    /\ target' = [target EXCEPT ![c] = "app"]
    /\ UNCHANGED <<closed, client, task, closing, provided>>

(* "except CancelledError: raise": the shared task goes on, and nothing is *)
(* dropped, whatever it ended with.                                        *)
CancelCall(c) ==
    /\ pc[c] \in {"cred", "init"}
    /\ pc' = [pc EXCEPT ![c] = "idle"]
    /\ stale' = stale \ {c}
    /\ got' = [got EXCEPT ![c] = "idle"]
    /\ Resumed(c)
    /\ target' = [target EXCEPT ![c] = "app"]
    /\ UNCHANGED <<closed, client, filled, task, closing, provided>>

-----------------------------------------------------------------------------
(* close() *)

(* Somebody else's call, or another try of a caller whose close() raised.  *)
CloseAgain(x) ==
    /\ closer[x] \in {"idle", "raised"}
    /\ closed
    /\ closer' = [closer EXCEPT ![x] = "returned_at_once"]
    /\ UNCHANGED <<closed, client, filled, task, waiting, calls, seen, provided>>

(* The tuple of tasks, as the attributes are now. *)
Close(x) ==
    /\ closer[x] = "idle"
    /\ ~closed
    /\ closed' = TRUE
    /\ closer' = [closer EXCEPT ![x] = "awaiting"]
    /\ seen' = [s \in Slots |-> CASE s \notin filled -> "absent"
                                  [] s \in filled /\ task[s] \in Results -> task[s]
                                  [] OTHER -> "pending"]
    /\ UNCHANGED <<client, filled, task, waiting, calls, provided>>

Over(s) == seen[s] \in {"absent", "ok", "closed"}

(* close() waits for no task any more. *)
NoneAwaited == [s \in Slots |-> "absent"]

(* The order in which close() awaits them. *)
Before(s) == CASE s = cred("app") -> {}
               [] s = cred("user") -> {cred("app")}
               [] s = init("app") -> {cred("app"), cred("user")}
               [] s = init("user") -> Slots \ {s}

Gathered(x) ==
    /\ closer[x] = "awaiting"
    /\ \A s \in Slots : Over(s)
    /\ closer' = [closer EXCEPT ![x] = "closing"]
    /\ seen' = NoneAwaited
    /\ UNCHANGED <<closed, client, filled, task, waiting, calls, provided>>

(* An exception that is no ChatAPIError comes out of close(). *)
CloseRaises(x) ==
    /\ closer[x] = "awaiting"
    /\ \E s \in Slots : seen[s] = "failed" /\ \A t \in Before(s) \cap Slots : Over(t)
    /\ closer' = [closer EXCEPT ![x] = "raised"]
    /\ seen' = NoneAwaited
    /\ UNCHANGED <<closed, client, filled, task, waiting, calls, provided>>

(* The APP client's transport is closed, then the USER client's. *)
CloseTransport(x, i) ==
    /\ closer[x] = "closing"
    /\ client[i] = "open"
    /\ i = "user" => client["app"] # "open"
    /\ client' = [client EXCEPT ![i] = "closed"]
    /\ UNCHANGED <<closed, filled, task, waiting, calls, closing, provided>>

CloseReturnsEarly(x) ==
    /\ closer[x] = "closing"
    /\ client["app"] # "open"
    /\ closer' = [closer EXCEPT ![x] = "returned"]
    /\ UNCHANGED <<closed, client, filled, task, waiting, calls, seen, provided>>

CloseReturns(x) ==
    /\ closer[x] = "closing"
    /\ \A i \in Ids : client[i] # "open"
    /\ closer' = [closer EXCEPT ![x] = "returned"]
    /\ UNCHANGED <<closed, client, filled, task, waiting, calls, seen, provided>>

(* The caller of close() is cancelled, or a transport fails to close. *)
CloseBreaks(x) ==
    /\ CloseBroken
    /\ closer[x] \in {"awaiting", "closing"}
    /\ closer' = [closer EXCEPT ![x] = "raised"]
    /\ seen' = NoneAwaited
    /\ UNCHANGED <<closed, client, filled, task, waiting, calls, provided>>

-----------------------------------------------------------------------------
Resolves(i) == \/ ResolveStarts(i) \/ ResolveAnswers(i) \/ ProviderEnds(i)
               \/ Propagates(cred(i)) \/ ResolveDerives(i)

Initializes(i) == \/ InitStarts(i) \/ Builds(i) \/ BuildFails(i)
                  \/ Propagates(init(i))

Resumes(c) == Preflighted(c) \/ HasClient(c) \/ CallEnds(c) \/ CallFails(c)

Closes(x) == \/ Gathered(x) \/ CloseRaises(x) \/ CloseReturns(x)
             \/ \E i \in Ids : CloseTransport(x, i)

(* What the loop's tasks and the callers do while the loop is free. *)
OnLoop(A) == ~blocking /\ UNCHANGED blocking /\ A

LoopStep == \/ \E i \in Ids : Resolves(i) \/ Initializes(i)
            \/ \E c \in Calls : \/ \E i \in Ids : Execute(c, i) \/ GetRaw(c, i)
                                \/ Resumes(c) \/ CancelCall(c)
            \/ \E x \in Closers : \/ CloseAgain(x) \/ Close(x)
                                  \/ Closes(x) \/ CloseBreaks(x)

Next == \/ OnLoop(LoopStep)
        \/ SyncAuthMode \/ SyncAnswered

Spec == Init /\ [][Next]_vars

(* Ready tasks run, and providers end (they return or raise). *)
FairSpec == /\ Spec
            /\ WF_vars(SyncAnswered)
            /\ \A i \in Ids : /\ WF_vars(OnLoop(Resolves(i)))
                              /\ WF_vars(OnLoop(Initializes(i)))
            /\ \A c \in Calls : WF_vars(OnLoop(Resumes(c)))
            /\ \A x \in Closers : WF_vars(OnLoop(Closes(x)))

-----------------------------------------------------------------------------
(* "single-flight": concurrent first calls share one resolution, also when *)
(* earlier ones fail and are dropped by several waiters one after another. *)
(* Two calls of a provider overlap only if one of them is auth_mode's,     *)
(* which does not look for the other.                                      *)
SingleFlight ==
    \A i \in Ids : inflight[i] <= IF blocking /\ i = "app" THEN 2 ELSE 1

(* "Once close begins, NO client may be published". *)
NoClientAfterClose ==
    [][closed => \A i \in Ids : client[i] = "none" => client'[i] = "none"]_vars

(* When the close() that does the work returns, no client is open, however *)
(* resolution and construction were interleaved with it.                   *)
ReturnedMeansClosed ==
    (\E x \in Closers : closer[x] = "returned") => \A i \in Ids : client[i] # "open"

(* "Safe to call multiple times": once nobody is closing any more and a    *)
(* close() returned, no client is open.  The code does not keep it.        *)
CloseIsFinal ==
    /\ \E x \in Closers : closer[x] \in {"returned", "returned_at_once"}
    /\ \A x \in Closers : closer[x] \notin {"awaiting", "closing"}
    => \A i \in Ids : client[i] # "open"

(* Whoever waits for a shared task hears from it, whatever other waiters   *)
(* do, and close() does not wait for ever.                                 *)
EveryWaitEnds ==
    /\ \A c \in Calls : pc[c] \in {"cred", "init"} ~> pc[c] \in {"idle", "using"}
    /\ \A x \in Closers : closer[x] = "awaiting" ~> closer[x] # "awaiting"
=============================================================================
