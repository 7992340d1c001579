# chattice: TLA+ models, model checking and proofs

chattice is an asyncio framework for Google Chat apps.  Events reach an
application over HTTP, Pub/Sub push or a Pub/Sub streaming pull; a dispatcher
routes them to handlers; answers go out through a Bot.  This directory holds
TLA+ modules for the parts of it whose correctness depends on the order of
things, TLC configurations that check them on small instances, and TLAPS proofs
of the properties that matter most.

`PROJECT.json` is the index: components, runs, the source lines each definition
models, faulty variants ("mutants") that every checked property rejects,
findings, hazards and theorems.

## Inventory

| component | state it keeps | operations | hard because |
|---|---|---|---|
| Idempotency storages (`idempotency.py`) | per delivery key: owner, lease end, completed | claim, complete, release, renew | leases lapse under their holders; Redis needs several commands per operation |
| Pull runner, delivery (`transports/pubsub_runner.py`) | claims (through a storage), a renewal task per attempt, ACK or NACK per delivery | `_handle`, `_renew_loop`, `_answer`, `_notify_poison` | duplicate deliveries at once, failures of every await, cancellation, crashes |
| Pull runner, update locks | `_locks`, `_waiters` by card | acquire, release | lock objects come and go; waiters are cancelled |
| Pull runner, start and shutdown | `_loop`, `_closed`, `_scheduled`, subscriber | run, close, `_schedule` | a worker thread against the event loop |
| Push endpoints (`integrations/fastapi/router.py`) | claims (through a storage) | claim, release, complete per request | no renewal; completion failures are only logged; cancelled requests |
| Synchronous HTTP endpoint (`integrations/fastapi/router.py`, `transports/http/`) | none | verify, parse, dispatch, serialize | what a handler may answer with is decided twice, in `resolve()` and in `_serialize()`; many (event, answer) pairs |
| Interaction parser (`adapters/google_chat/`, `events/`, `transports/pubsub.py`) | none | detect the envelope, parse the event, the inputs, the references | two envelope families over three transports must mean the same |
| Bot client lifecycle (`client/bot.py`) | cached credentials and clients, their tasks, `_closed` | resolve, initialize, close | single flight shared by cancellable waiters, close at any time |
| FSM storages (`fsm/`) | per conversation: state, data, revision, expiry | get, compare-and-set, update, finish | optimistic concurrency, lazy expiry |
| Dispatcher (`dispatcher/`) | routers, observers, middlewares, the current bot | feed_update, include_router, register | nested control flow: skip, stop, errors, filters, retries, cancellation; the tree grows while events are walked through it |
| Lifespan (`dispatcher/lifespan.py`) | started resources | enter, exit | partial start, failing close |
| Workspace events (`workspace_events/`) | routers, handlers | feed_event | a dispatcher of its own, with rules of its own |
| Persistent actions and forms (`actions.py`, `forms.py`) | none | encode, decode, filter | typed values through strings that Google carries |
| Capabilities (`capabilities/`) | tables | resolve, preflight | identity, credentials and scopes decide together |
| API resources, media, card images (`client/resources/`, `media/`, `cards/_assets.py`) | images already published | create, update, upload, find, page | several calls to make one message, each of which may fail |
| Card builders, magic filters, Workspace event parser, GCS publisher, authentication I/O, testing, AI helpers | immutable values | pure functions, single calls | data, not behaviour |

Components interact by calls on one event loop.  Both transports call the
idempotency storage around the dispatcher's `feed_update`; the pull runner then
answers through the Bot, holding the update lock of the card.  The webhook
verifies, parses and dispatches in one request and serializes what the handler
returned; a handler calls the Bot's resources, which end in one executor.  The
lifespan of the application surrounds all of it.  Shared state is
the storage (also between processes, with Redis), the registry of locks and the
Bot's cached clients.  The only other thread is the Pub/Sub subscriber's, which
calls `_schedule`.

What makes each part correct:

- storages: never two owners of a running lease; a completion inside the lease
  is on record; a completed record is not reopened; a Redis operation behaves as
  if it were one step.
- delivery: nothing is acknowledged that was not handled, rejected or poisoned;
  everything is acknowledged in the end; the record absorbing duplicates is
  never ahead of the work; two attempts do not work on a message while its
  holder renews, if renewals are due and done well within the lease.
- update locks: updates of a card exclude each other, in order, and every waiter
  is served; the registry holds what is in use and nothing else.
- push endpoints: a 2xx and a completed record mean that the handlers returned;
  a message is handled again only after a failure, a lapse or a lost completion.
- start and shutdown: `run()` returns with every attempt drained, the registry of
  futures keeps none longer than its attempt, and shutdown ends.
- Bot: a provider never runs twice at once (but for the call that the synchronous
  `auth_mode` makes on its own), no client is published once close
  began, none is open when close returned, nobody waits for ever.
- FSM record stores: a call stores what it made of the record it replaces, or is
  told of a conflict; no `update_data` is overwritten by another; the Redis store
  behaves as if each of its two operations were one step; retry loops end.
- dispatcher: the handlers of a turn are offered its event in the order of the
  tree, parents first; the caller of `feed_update` is told what became of it;
  the contexts and the current bot of nested and concurrent turns do not mix;
  every turn ends.
- lifespan: handlers run only while every resource does; whatever was started is
  closed in reverse, once, on shutdown and on rollback.
- endpoint: only Chat (or the subscription's account) is heard; an interaction
  means the same over every transport and family; what a handler is told it can
  answer with is what is served; typed data survives the round trip of a click.
- API resources: a private message stays private, a refused send has uploaded
  nothing, attachments are those asked for, replies stay in their thread.

The `hazards` list of `PROJECT.json` names what is hard to test in this code, at
its line, with the properties that cover it.

## Modules

```
ClaimRecords            documents and decisions on one document (pure)
 |-- IdempotencyContract    what a storage promises (abstract)
 |    |-- MemoryIdempotency     the memory store, one step per operation; implements it
 |    `-- PubSubPush            the push endpoints, composed with it
 `-- RedisIdempotency       one Redis command per step; refines IdempotencyContract
PubSubPull              the delivery state machine of the pull runner
KeyedLocks              _KeyedLockRegistry over asyncio.Lock
RunnerShutdown          run(), close() and _schedule of the pull runner
BotLifecycle            a Bot's credentials, clients and close()
FSMDocuments            records of one conversation (pure)
 `-- FSMRecords             the adapter over an atomic record store
      `-- RedisFSMRecords       ... over Redis commands; refines FSMRecords
HandlerPlans            observers of an event, parameters of a handler (pure)
RouterTree              routers, handlers and middlewares; attaching them
 `-- Dispatching            feed_update (with HandlerPlans)
      `-- WorkspaceDispatching  feed_event
LifespanResources       Lifespan: start, rollback, close
Application             a dispatcher within its lifespan (both of the above)
Optional                None and `or` (pure)
 |-- Envelopes              what is delivered: envelopes of three transports (pure)
 |    `-- Interactions          parse_interaction and the events (pure)
 |         |-- HttpAnswers          capabilities and serialization (pure)
 |         `-- TypedData            actions and forms (pure)
 `-- Operations             identities, scopes, preflight, names, errors (pure)
      `-- ChatCalls             messages.create and the other calls
Verification            bearer tokens (pure)
ChatEndpoint            one interaction from its delivery to its answer (all these)
*_proofs                theorems, see Proofs
MC*                     small instances for TLC
```

**ClaimRecords.** A key has `NoClaim` or a document `[owner, lease_until,
completed]`.  `Lapsed`/`Pruned` are `_prune_expired`, `Outcome` is what `claim`
answers, `Completed`, `Released`, `Renewed` what the other operations leave.
Names such as `LapsedEarly` are faulty variants used by the mutants only.

**IdempotencyContract.** The variables are the storage (`claims`), a clock, and
what each delivery attempt knows of itself (`phase`, `keyOf`, `until`: an owner
token is used by one attempt).  Every operation is atomic; it may also fail, or
take effect with its answer lost (`gone`, `unsure`).  A storage may drop lapsed
documents (`Lapse`) and, after its retention, completed ones (`Forget`).
`Holds(o)` is an attempt entitled to run its handler: it was told FIRST and the
lease it knows of is running.

**MemoryIdempotency.** `claim`, `complete`, `release` and `renew` hold the key's
`asyncio.Lock` and await nothing inside, so each is one action.  Documents are
pruned by the next claim only, as in the code.  The module EXTENDS the contract,
whose variables, clock and initial states it shares; `ImplementsContract` is the
contract's `Spec` of the same variables.

**RedisIdempotency.** Each attempt has two flows, `main` (claim, then complete
or release) and `renewal` (the runner's renewal task).  A flow steps through SET
NX, WATCH, GET, EXEC; `dirty` is what makes EXEC raise `WatchError` and the loop
start over.  Redis itself is external: SET NX is atomic, a watched key that is
written or expires fails the transaction, a key with a TTL disappears no earlier
than its time.  A command may fail before or after it was executed, and an
attempt may be cancelled with a command on its way (`MaxFaults` in all).  The
refinement mapping is `claims == [k |-> redis[k].claim]`: an operation takes
effect at its SET NX, its EXEC, or the GET that makes it return.

**KeyedLocks.** `locks` and `waiters` are the registry's dictionaries.
`asyncio.Lock` is modelled as CPython implements it: a FIFO of futures, release
wakes the first and leaves the lock open until that task runs, cancellation may
hit a waiting or an already woken task (which passes the wake-up on).  Lock
objects have identities (`LockIds`), because the question is whether two objects
can serve one name at a time.

**PubSubPull.** An attempt is one call of `_handle`; `pc` is the await it is
suspended in, the code between two awaits is one step.  `claims` is the storage
through its contract, with the ticks that each lease has left (`left`); owner
tokens are unique, so once an attempt is over its token is `Nobody`'s.  A renewal
task sleeps for `RenewInterval` (the code's `renew_interval or lease / 2`) from the
grant or its last renewal (`waited`), then renews once, and stops for good when it
is refused or fails; `Tick` lets time pass for all leases and tasks, and no due
renewal is more than `Lateness` ticks late: event loop, answer and command
together.  Pub/Sub
is external: it delivers a message again and again, also while an earlier
delivery is under way, until it was acked.  Parsing, dispatching and answering
may end in any way (`WorkFails`); storage calls may fail with or without effect;
an attempt may be cancelled at any await (`Cancelled`; the code nacks only
inside its try block) and the process may die (`Crash`).  `result` records how a
message ended; it is what `acked` is compared with.  Constants choose the
deployment: a Bot or none, hooks or none, a dead-letter policy (a number in
`delivery_attempt`) or none, a durable storage or a process-local one.

**PubSubPush.** A request of the endpoint steps through verify, claim, dispatch,
complete or release.  The module EXTENDS the contract: messages are its keys,
requests its owners, and every step that waits for the storage *is* the contract's
step of that owner (`ClaimFirst` contains `Grant`, `Completes` contains
`Complete`), so the storage's own properties are checked in the composition.  A
request may be cancelled at every await; the command it waited for may then
still take effect (`late_claim`, `late_complete`, `late_release`).  `Respond` is
the answer, which may be lost.  `spoiled` collects the runs that cannot absorb
duplicates, each for a reason the code's authors accepted (failed, cancelled, not
recorded, forgotten); `HandledOnce` says there is no other way to a second run.

**RunnerShutdown.** `_schedule` runs in the subscriber's threads, so each of its
statements is a step (`CheckLoop`, `Submit`, `Track`, `WatchFuture`); the loop's
code is one step between two awaits, except `list(self._scheduled)` and `.clear()`
in `close()`, which a thread can get between.  `worker` is where a callback is (a
member of `Callbacks` is one call of `_schedule`), `attempt` its `_handle` task,
`scheduled` the runner's set, `step` where `run` and another caller of `close` are.
`caught` is the set of callbacks that were past their look at `self._loop` when the
pull future ended: `run()` does not ask the subscriber to wait for them, and
`DrainedOnReturn` excepts them (a finding); one that finds the loop gone at its
second look raises into the subscriber (`SubmitTooLate`, another).  `NoFutureIsLeft`
speaks of all callbacks.  `RunCancelled` allows `run()`'s task to be cancelled.
`Undisturbed` limits the promises to runs that only `run()` closes.

**BotLifecycle.** Four slots hold the shared tasks (`_credential_task`,
`_user_credential_task`, `_init_task`, `_user_init_task`).  A waiter, which is an
API call or another of the tasks, takes the task of a slot or makes one (`Await`);
`got` is what it has been told, `stale` whose task was dropped by somebody else
meanwhile ("if self._init_task is task" is `Dropped`).  Calls are cancelled at any
await, providers fail.  The synchronous `auth_mode` calls the provider itself,
whether or not the shared task is at it in a worker thread (`SyncAuthMode` to
`SyncAnswered`), and keeps the event loop to itself meanwhile (`blocking`,
`OnLoop`); `inflight` counts both calls.  `close()` takes the tasks it finds, waits
for them in its order, and closes the transports one by one.

**FSMRecords.** One conversation, because keys share nothing.  A call of the
adapter (`BaseStorageFromRecord`), or of the application with a TTL ("put"),
reads the record, makes `offer` of it and stores that by compare-and-set;
`update_data` starts over on a conflict.  A call that stores a state or a field
stores itself, so that what is lost can be told.  `life` counts the records
created under the key: revisions restart with each.  `Prompt` is the memory
store, which looks at the clock inside its lock; without it a call may still find
an expired record, which is all the protocol `FSMRecordStorage` promises.

**RedisFSMRecords.** The same calls with one Redis command per step: GET, the
WATCH/GET/DEL loop of the lazy deletion, the WATCH/GET/SET loop of
compare-and-set.  Commands fail, answers are lost, calls are cancelled with a
transaction on its way, Redis expires the key.  The module EXTENDS `FSMRecords`;
`record` is the document under the key.  The refinement mapping replaces `pc` by
`Told` (a lost answer counts as an answer) and `Prompt` by FALSE: `get_record`
takes effect at the GET or DEL that ends it, `compare_and_set` at its SET or at
the GET that finds another revision.

**RouterTree, HandlerPlans.** `children`, `handlers` and `middleware` are the
lists of every router.  `IncludeRouter` attaches one (refused when it has a
parent or would close a cycle), `Register` and `Use` append; all are legal while
an event is walked through the tree, as in the code.  The cycle check and the
routers above another (`Path`) are written as least closed sets instead of
recursive operators, and the documented order (`Before`) is defined over these
paths, apart from the walk: what the walk does is compared with it.  `HandlerPlans` gives the
observers of an event (`Passes`) and resolves the parameters of a callback by
annotation, by name and by default (`Resolved`).

**Dispatching.** A turn is one call of `feed_update`.  `turn[t]` is what the
coroutine has on its stack: the observers it has still to try (`left`), the rest
of the walk (`todo`), the router it is at and the middlewares `around` its
handlers, the candidates left, the context (`seen`, `data`), the outcome under
way.  `roster` (what was registered below the root when the pass began),
`offered`, `declined`, `done` and `meddled` record what happened, for the
properties.  A step ends where the code awaits something of the user's
or goes on to the next middleware, observer or router; between the awaits of a
turn nothing else moves (`AtAwait`).  An observer's filters, a handler's
filters, a middleware and a handler may each agree, decline, raise `SkipHandler`
or `StopPropagation`, fail or be cancelled; a middleware may call the next one
again (`MaxRetries`) or answer itself; a failure of the routing goes to the
error observers once.  A handler in `Feeders` may feed another event and waits for
it (`NestedTurns`).  `current` is the context variable of the current bot, one for
each task.  A turn that was fed feeds no other.

**WorkspaceDispatching.** `feed_event`: its own walk and filters, one observer
per router, no error observers; what a handler raises is the caller's.

**LifespanResources, Application.** `running` is what the resources themselves
are, `_started` what the lifespan believes; `todo` is the rest of the loop under
way.  A start or a close may raise anything, `CancelledError` too.  `Application`
puts turns between the end of `__aenter__` and the beginning of `__aexit__`, which
the ASGI server sees to, while the tree grows.

**Envelopes, Interactions.** A JSON mapping is a function from field names;
`None` is null or a missing field, `Malformed` a value of the wrong type; where the
models have a default and take no null, it is refused (`NoNull`).
`normalize_envelope` merges the families, `parse_interaction` is the parser with
its refusals, `parse_form_inputs` the variants of inputs.  A refusal or a crash is
a value (`Refused`), so that two deliveries of one interaction can be compared.
What a delivery says is defined apart from the parser: the places where it
describes its event (`Tellings`), the values they give to a field (`Said`),
whether they agree (`Sensible`) and whether they describe a given event
(`Carries`).  Widgets are parsed in the order of the payload, which a function does
not have: where one crashes the parser and another is refused, either may come
first (`MayCrash`, `MustCrash`).

**HttpAnswers, TypedData, Verification, Operations.** Decision tables of the code,
each translated as the guards stand: which answers an event is told it may have and
which `_serialize` accepts; how typed fields become strings and come back, for any
readings of numbers and any members of Enum, `StrEnum` and `IntEnum` classes
(`IntTexts`, `FloatTexts`, `Members`); which token speaks for whom; which operation
which identity, credential and scope may call, and what a resource's name or an API
error becomes.

**ChatCalls.** One call of a resource at a time.  `messages.create` steps through
its local guards, the attachments (uploaded one by one), the images of a card
(published one by one) and its request, with failures at each; a message may be
created although its answer is lost.  `world` is what Google and the image
store hold.  Other calls are their guard and their request, with the identity
that makes it.

**ChatEndpoint.** Delivers one of `Requests`, over HTTP, push or pull, and takes
it through verification, parsing, the handler's filter, its call of the Chat API
and the serialization of `Payload`.  The claims around it are `PubSubPush`'s and
`PubSubPull`'s, the tree is `Dispatching`'s: here there is one handler.  The
advertised capabilities are compared with what is served (`AsAdvertised`); a reply
carries the event that it answers (`by`), and `RepliesStayInThread` speaks of
replies to a thread with a name for which the program chose no option of its own.
`ThreadRef.send` takes the space of the thread, or the one that the thread's name
has (`ParentSpace`); the explicit `space=` and `thread=` of contextual sends are
left out, since they only replace one name by another.

## Runs

| run | question | bounds and why they suffice |
|---|---|---|
| `memory_storage` | does the memory store keep it? | 2 keys, 3 attempts, leases of 2 ticks can lapse twice in 5 |
| `redis` | ... and the Redis store, command by command, when renewals race completion and takeover? do the loops end? | 1 key (keys share nothing), 2 attempts with 2 flows each, one tick for a lapse and a renewal, one fault |
| `keyed_locks` | exclusion, order, no lost wake-up | 3 updates (a holder and two waiters), 2 cards, 3 lock objects |
| `pull` | at-least-once, absorption, claims of long handlers, termination | 1 message (messages share nothing), 3 overlapping deliveries, 2 faults, poison at the 2nd delivery; a lease of 4 ticks, so that renewals are due after 2 and a tick late, with a tick to spare |
| `push` | is what is acknowledged or recorded handled, and handled once? does the composition keep the contract? | a valid, an invalid and an unkeyed message; 3 requests (a holder, one that takes over, one late), lease of 1 tick in 2 |
| `shutdown` | is everything drained, at whatever statement the threads are? does `run()` end? | 3 callbacks: one before, one between and one after the two halves of the snapshot |
| `bot` | single flight; close against calls and against tasks that wait for one another; failures, cancellation, retries | both identities (4 tasks, USER derived from APP), 1 call that is cancelled and starts again, 1 `close()`: with the tasks themselves there is always a second waiter |
| `bot_close` | is a Bot closed for good once a `close()` returned? (no) | 2 identities with providers of their own, 2 callers of `close()` |
| `fsm` | is a concurrent modification ever lost silently? is an update ever overwritten? | 3 calls (a reader, one that changes the record, one that updates or creates it again), a TTL of 1 tick in 1 |
| `fsm_redis` | does the Redis record store behave as an atomic one? do the retry loops end? | 2 calls, a TTL of 1 tick in 2, so that a record expires, is created again and expires |
| `dispatch` | is every handler offered the event in order, is the caller told, do contexts mix, does every turn end, do resources outlive turns? | 3 routers, two of them attached late and in any order, so that they nest or stand side by side; 2 turns, one fed by a handler of the other or both concurrent in the growing tree; 1 retry; 2 resources, so that one can be running when the other fails; 1 entry |
| `http` | is only Chat heard, does every delivery mean the same, is what is advertised served, do private messages, uploads and replies go where they should? | every event type with its damaged variants in 6 deliveries each, bad tokens, contradicting envelopes; 10 Bots (both identities, one, indistinguishable, none, wrong scopes), 2 attachments, 2 images, every payload; one API call per interaction, because calls share only what they published |

The contract has no run of its own: `push` checks its invariants over it, and the
refinements check it as a property of both stores.

Deadlock is not checked where the system may really stop: the storages' clocks,
attempts and requests are used up, the pull runner stops when everything is
acked, and `run()` is over once.

The violated run, a finding in `PROJECT.json`:

- `CloseIsFinal`: a provider's exception leaves `close()` before any transport is
  closed, and every later `close()` returns at once.

Further findings have no run of their own.  Four of them are stated as
definitions, which a configuration with that property alone violates:
`PubSubPull!FailuresSettle` (with no `delivery_attempt` the failure branch raises
and settles nothing), `PubSubPull!NeverBoth` (cancellation during the
`delivery_acked` hook nacks an acked delivery), `PubSubPull!AckedIsRecorded` (an
attempt that lost its claim is acknowledged although its `complete` recorded
nothing) and `KeyedLocks!CleanWhenIdle` (a waiter cancelled after the holder's
release leaves the lock registered).  `NoSilentLoss` and `RecordedIsDone` hold all
the same: what the pull runner's findings cause are duplicates, not losses.  The
others appear in the models as the code has them:

- `run()` passes no `await_callbacks_on_shutdown`, so the pull future may end
  while a callback has submitted its attempt and not yet added its future, and
  nobody drains that attempt (`caught` of `RunnerShutdown`);
- `_schedule` reads `self._loop` twice: reset in between, its call raises an
  `AttributeError` that the clause for a loop "already gone during shutdown" does
  not catch (`SubmitTooLate`);
- the pull runner makes a semaphore of `max_concurrency` and never acquires it: only
  the subscriber's flow control bounds how many attempts run (no guard of
  `PubSubPull` stands for it);
- the synchronous `auth_mode` runs the provider beside the shared task's call of it,
  although it is said to be called exactly once (`SyncAuthMode`);
- revisions restart at 1 when an FSM record expires, so a writer that read the
  former record overwrites the new one (`seen[c] = life` of `AppliedToCurrent`);
- the push endpoint answers 2xx although `complete` raised;
- a failed task of the Bot whose waiters were all cancelled stays cached;
- a pushed `MessageEvent` has the Pub/Sub envelope as its raw payload, so its
  views (attachments, mentions, ...) are empty (the exception in `OneMeaning`);
  so are those of a message that only the direct one of two descriptions has
  (`MessageInside`);
- a common object beside a direct and a wrapped event is not compared with theirs
  (`Envelopes`);
- an epoch that is a negative or a non-ASCII number is refused or crashes, and an
  Enum with an `int` mixin does not decode to what was encoded (`Interactions`,
  `TypedData`);
- `collect(limit=0)` returns an item (`ChatCalls`);
- the identity guards of `messages.create` take the primary identity for that of
  the call (`EffectiveMode`);
- `SYNC_RESPONSE` is advertised for an event that can be answered with nothing
  (`Unserializable`);
- a reply option is dropped for a thread without a name (`HasThread`).

### Fairness

`RedisIdempotency!FairSpec`: a flow whose command can be executed is resumed (the
event loop schedules ready tasks; Redis answers).  `KeyedLocks!FairSpec`: a ready
task runs, and a holder releases, because the update call has a timeout.
`PubSubPull!FairSpec`: an attempt's await ends, with whatever result; a due renewal
is done; time passes, so an unrenewed lease lapses; Pub/Sub redelivers what was not
acked. `RunnerShutdown!FairShutdown`: ready tasks and threads run and attempts end
(renewal and handler timeouts bound them); nothing makes anybody stop the runner.
`BotLifecycle!FairSpec`: each ready task and each waiter that was told runs while
the loop is free, and a provider returns or raises.  In the `bot` run the provider
does not raise in `auth_mode` (`AuthModeFails` is FALSE): a program that asks again
and again and fails each time keeps the loop for itself, and nothing else of the
code depends on such a failure, which changes nothing.  The theorems hold with it.
`RedisFSMRecords!FairRedis`: the store answers; a retry loop ends because every
conflict is some other call's success, and calls are finitely many.  No fairness is
put on handlers succeeding: a handler that always fails is acknowledged as poison.
`Application!FairSpec`: what a turn awaits ends, and a handler that could return
infinitely often does in the end: it does not feed events for ever (strong fairness,
because each nested event disables the return meanwhile).  `http` has safety
properties only.

## Proofs

TLAPS checks the theorems for all values of the constants that satisfy the
modules' assumptions.  The eight proof modules, by the components they are about:

### Idempotency storages

`IdempotencyContract_proofs` (the contract, `MemoryIdempotency`, `PubSubPush`):

- The contract's inductive invariant is `TypeOK` with `HolderRecorded`: what a
  holder believes is on record.  `OneLiveOwner` alone is not inductive: from two
  attempts with equal beliefs nothing follows about the next claim, while a
  recorded holder makes `claim` refuse until its lease is over.  From it follow
  `OneLiveOwner` and `CompletionRecorded`; `CompletedIsFinal` needs no invariant
  but types.
- Every step of the memory store is a step of the contract
  (`MemoryImplementsContract`).  A claim over a lapsed document is one `Grant`,
  because the contract grants whatever `Outcome` calls free.  Renewals must not
  shorten the lease: the extra invariant `LeasesAreCurrent` bounds every recorded
  lease by `now + Lease`.  The contract's theorems are inherited.
- Every step of the push endpoint is a step of the contract
  (`PushKeepsContract`), so its theorems hold of the composition.
  `AckedMeansHandled`, `RecordedMeansHandled` and `HandledOnce` follow from
  `HolderRecorded` with what each `pc` says of the request (`AwaitMeans`) and the
  fact that a run which still absorbs duplicates does so by its own document
  (`AbsorbsByRecord`).

`RedisIdempotency_proofs`: each Redis command is a step of the contract or
invisible (`RedisImplementsContract`), for any number of attempts with two flows
each, however commands interleave, expire, fail or lose their answers.  The
store decides on what it read commands ago; that the transaction still does what
the contract does in one step is `Fits`: if nobody broke it the document is the
one that was read, and what was `Decided` of that document holds for good, as
time passes.  That Redis may drop a document at the end of its TTL is `Sound`
(the TTL covers the lease), which is also `ExpiryCoversLease`.  The instance
`Proved` then brings the contract's theorems over (`RedisNeverTwoOwners`,
`RedisKeepsCompletions`); the variables of the other two components of the
imported module are instantiated with constants, since nothing is cited of them.

### Pull runner

`PubSubPull_proofs` (`PubSubPull`, `RunnerShutdown`):

- `NoSilentLoss` and `RecordedIsDone` need each other (a duplicate is acked on
  the strength of the record) and what each `pc` says of `result`.
  `LongHandlerKeepsClaim` needs that a working attempt with a running renewal owns
  an uncompleted claim whose lease has run down by what its task has waited and no
  more (`Kept`).  It is proved of every lease, interval and lateness with
  `RenewInterval + Lateness < Lease`, which is a condition of the theorem and not
  of the module: the constructor does not compare a given `renew_interval` with the
  lease, and a handler that blocks the event loop for longer than the lateness is
  outside of it.  Then a redelivery may start the handler again, which is a duplicate
  and no loss.
- `DrainedOnReturn` and `NoFutureIsLeft` hold for any number of callbacks at
  any of their statements.  A future that is in `_scheduled` has its attempt under
  way, or its thread has yet to watch it (`FuturesFollow`); then `discard` runs at
  once if the attempt is over.  `close()` waits for a snapshot of `_scheduled`; that
  this is enough takes three facts together (`NothingLeft`): an attempt in flight
  is in the set unless its thread is still on its way there, the threads on their
  way when the stream ended were `caught`, and none gets that far afterwards.  The
  last needs the order in which an undisturbed `run()` does things (`RunOrder`) on
  top of how far it is, disturbed or not (`RunPhases`).

`KeyedLocks_proofs`: exclusion is about names, while `asyncio.Lock` excludes on
objects, so the invariant ties them: whoever is busy with a name uses the object
registered for it (`Registered`), no object serves two names (`Distinct`), and the
object stays registered because the count of waiters counts the busy tasks
(`Counted`, a cardinality).  For the lock itself it takes that a queue holds each
task that awaits it once (`Queued`), that a holder has closed its lock, alone
(`Held`, `OneHolder`), and that a woken task heads the queue of an open lock
(`WokenFirst`), which is also what `FirstComeFirstServed` follows from.

### FSM record stores

`FSMRecords_proofs` (`FSMRecords`, `RedisFSMRecords`):

- `AppliedToCurrent` needs to know of every call about to compare what its offer
  was made of (`OfferMeans`): an offer of this life is not younger than the
  record, and if it has the record's revision it was made of this very record,
  which is inductive because every store raises the revision.  `UpdatesSurvive`
  then needs that there was nothing before the first life.
- `RedisImplementsRecords`: every Redis command is a step of `FSMRecords` or
  invisible.  The invariant says which commands a call can be at (`CommandFits`;
  a lookup on its way to delete read a document that is expired, for good) and
  what an unbroken transaction may rely on (`TransactionSound`): the document to
  delete is the one read, the revision expected is one that may be found.
  The first two theorems hold for any `Prompt`, hence also for the mapped
  variables; that corollary over `RedisSpec` is not stated as a theorem.

### Dispatcher and lifespan

`Application_proofs` (`LifespanResources`, `Application`, `Dispatching`):

- What runs is a prefix of the resources while they start (`ToStart`), and what
  is still to be closed is what runs, reversed, while they close (`ToClose`); a
  turn is under way only inside, since a turn begins there and the lifespan is
  left when none is.  From this follow `ResourcesOutliveTurns` and
  `ClosedInReverse`, assuming that no resource is listed twice.
- `CallerIsTold` and `ContextIsolated` speak of turns that end and of handlers
  that run.  What makes them inductive is what a turn carries in between (`Fits`):
  a result on its way out belongs to the handler that completed (`Honest`); a walk
  hands each router only the middlewares above it, and the frames entered so far
  have left their keys (`Scoped`).  The tree may grow meanwhile, but a router is
  only ever among the children of its parent (`TreeInv`).  Bots need more than one turn: a fed turn
  runs alone inside the turn whose handler fed it and waits (`Nested`), and every
  turn remembers the bot to restore (`Bots`).
- `OfferedInOrder` compares a turn with the documented order of the whole tree,
  which is defined by paths (`Precedes`): a router comes before what hangs below
  it and before what hangs below a later sibling.  That this is an order is a
  theorem of its own (`DocumentedOrderIsStrict`: irreflexive, transitive, and
  total among attached routers), and it holds because no router is ever above
  itself and each hangs in its parent's list once (`RoutersStayATree`), the work
  of the guards of `include_router`.  What makes `OfferedInOrder` inductive is
  where the walk stands (`Lined`): what it has dealt with comes before the router
  it is at, that one before every entry left in `todo`, the entries lie beside
  one another in order, the candidates left are the end of the router's list, and
  every handler of the roster that was neither offered nor declined hangs below
  an entry, below the router at hand or among its candidates (`Complete`).  A step
  of a turn reads the tree and does not change it, so these lemmas take the order
  as a constant (`Ordering`); `LinedStays` then says that they survive growth,
  because a path gets longer only at the top and lists only at the end (`Grows`).

### Bot

`BotLifecycle_proofs`: a task under way is in its slot (`Kept`), so nobody starts
another; that cleaning up after a failed task never empties the slot of its
successor needs to know of every waiter that the task it was told of is the one
still there, or that it is `stale` (`Heard`).  `inflight` counts exactly the tasks
at their provider (`Counted`), and the one of `auth_mode` beside them, which gives
`SingleFlight`.  `ReturnedMeansClosed`
and `NoClientAfterClose` need where each call of `close()` is in its order
(`Shut`).

### Endpoint and API calls

`ChatEndpoint_proofs` (`ChatEndpoint`, `ChatCalls`):

- A turn keeps three promises (`TurnInv`): what runs was verified (`Heard`), it
  was told what its event may be answered with (`Told`), it calls nothing before
  it runs (`Silent`).  From these follow `OnlyChatIsHeard` and
  `AdvertisedIsServed`, the latter by comparing the two decision tables case by
  case, for any event and payload.
- Of the call under way (`CallsInv`): everything a send can be refused for was
  ruled out before its first upload (`Sendable` from then on), the attachments so
  far are the first items of the list, in this space, by the user that sends
  (`AttachedSoFar`), and every message that exists was sent so (`WellSent`).  From
  these follow `RefusedUploadsNothing`, `AttachmentsFit`, `PrivateStaysPrivate` and
  `RepliesStayInThread`.
- `OneMeaning` compares the sequential merging of `normalize_envelope` with what a
  delivery says as a set of values (`Said`).  A delivery whose descriptions agree
  is neither unsupported nor conflicting (`SensibleIsSupported`), and normalizing
  keeps what it says field by field (`NormalizedSays`).  The parser looks at an
  event through `Get` and `Sub` only, so two mappings with the same fields
  (`Alike`) are accepted alike and become the same event, but for `raw` and
  `source` (`AlikeModelAccepted`, `AlikeTypeAccepted`, `AlikeTypeFields`); null and
  missing fields of the event are the same to it.  Conversely, what describes no event is
  refused (`SenselessIsRefused`).  The invariant (`Meant`) is that the event of a
  turn is what its delivery parses to, and that a 400 says the delivery is refused.
- `ClicksRoundTrip` adds that what a value is written as reads as that value and no
  other (`CodecRoundTrips`, from which `ParametersRoundTrip`), and that the
  parameters of a click reach its event unchanged (`ClickParameters`); `Meant` also
  says that the handler's data is what its filter made of the event.

### Assumptions

Assumptions on constants are stated in the modules (`ASSUME`) and evaluated by
TLC on the runs' instances.  Most say that a placeholder is none of the real
values, that a bound is a number or that a table has entries of its type
(`HandlersAssumption`, `TreeAssumption`, `ProgramAssumption`).  The others say
what the code does about such values: an event has observers to be offered to
and a handler's context has a bot (`KindsAssumption`); there are three transports
(`RequestsAssumption`); the operations that have a method of their own are not
called by name (`InvocationsAssumption`); what is sent has all the arguments of
`create`, and a viewer that names a user has a resource name
(`ArgumentsAssumption`); no reply option and no card action is `None`
(`OutcomesAssumption`, `CardActionsAssumption`); no resource is registered twice
(`ResourcesAssumption`).

Those about what is delivered say what its `meaning` and `clicked` stand for.  A
delivery describes the event that it means, or, when it means none, describes no
event (`DeliveriesAssumption`).  A common object beside two descriptions is in the
wrapped one or in `commonEventObject`, because that of the direct one is passed
over.  A click carries the parameters that its button was made with
(`ClicksAssumption`), by a data model whose optional fields have a default (`None`
is left out, so a field without one cannot be decoded) and which has no Enum with an
`int` mixin.  `int` and `float` read their own texts back (`NumbersAssumption`); no
two members of an Enum have values that read alike, and `str()` of an `IntEnum`
member is its value (`MembersAssumption`).

`TypeOK` of a module is proved with its other invariants where the module has
theorems; it is a definition, not a property of the runs.

### Only model-checked

Every invariant and every action property of the passing runs is also a theorem.
What stays with TLC is everything under fairness (`OperationsReturn`,
`EveryWaiterIsServed`, `EventuallyAcked`, `RunEnds`, `EveryWaitEnds`, `CallsEnd`,
`TurnsEnd`), which is out of the prover's reach.

## Plan

What could follow, in this order:

1. Corollaries over the refinements: `AppliedToCurrent` and `UpdatesSurvive` of
   `RedisFSMRecords`, as `RedisIdempotency` has those of its contract.
2. The hazards that no property covers yet: a cancellation inside a hook after the
   ACK, a subscription without delivery attempts, `close()` while `run()` awaits
   its credentials.
3. The plain `MemoryStorage` and `RedisStorage` of the FSM package, whose
   `update_data` is not a compare-and-set.
4. The Workspace event parser and the magic filters, as further decision tables
   of `http` and `dispatch`.

## Not modelled

- Card builders: they validate fields and produce JSON; `ChatCalls` has what a
  card does over time, the publication of its images.
- Magic filters and the Workspace event parser: pure, and for `Dispatching` and
  `PubSubPush` whatever they may return.
- The Google Cloud Storage publisher and the calls into `google.auth`: one external
  call each, of which the models have every result.
- The testing toolkit and the experimental AI helpers: they are for the users of
  the library, or a thin client of another API.
- Observability hooks of the dispatcher, whose failures are swallowed; the hooks
  of the pull runner are modelled, because cancellation reaches them.
- Within modelled code: log lines, durations, the stale-interaction warning (a
  diagnostic), `aclose` of an owned Redis client, and the bodies of requests and
  answers beyond what the properties tell apart.
