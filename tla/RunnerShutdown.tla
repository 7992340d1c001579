--------------------------- MODULE RunnerShutdown ---------------------------
(***************************************************************************)
(* Start and end of PubSubPullRunner                                       *)
(* (src/src/chattice/transports/pubsub_runner.py): run() waits for the     *)
(* stop event or the end of the stream, then cancels the pull future and   *)
(* closes; close() stops scheduling, closes the subscriber and drains the  *)
(* attempts it finds.  The subscriber calls _schedule in worker threads,   *)
(* so its statements interleave with everything the event loop runs; the   *)
(* loop's own code is one step between two awaits.                         *)
(*                                                                         *)
(* google-cloud-pubsub is external: the stream may end by itself, it ends  *)
(* once the pull future was cancelled, and then no new callbacks start.    *)
(* The pull future does not wait for the callbacks under way (the argument *)
(* for that is await_callbacks_on_shutdown, which run() does not pass), so *)
(* the code has no hold on those: caught.                                  *)
(***************************************************************************)
CONSTANTS Callbacks,    \* calls of _schedule, one for each message delivered
          RunCancelled  \* the task of run() may be cancelled

ASSUME CancellationAssumption == RunCancelled \in BOOLEAN

VARIABLES loop,       \* self._loop is set
          closed,     \* self._closed
          stream,     \* the streaming pull: absent, open or over
          stop,       \* the stop event
          step,       \* per caller of close(): where it is
          outcome,    \* how run() ends once close() is over
          worker,     \* per callback: where its callback thread is
          attempt,    \* per callback: its _handle task
          scheduled,  \* self._scheduled: the futures, by callback
          draining,   \* per caller of close(): the futures it gathers
          caught      \* callbacks UnderWay when the pull future ended

shutdownVars == <<loop, closed, stream, stop, step, outcome, worker, attempt,
                  scheduled, draining, caught>>
threads == <<worker, attempt, scheduled>>
drains == <<draining, caught>>

Callers == {"run", "user"}

ShutdownTypeOK ==
    /\ {loop, closed, stop} \subseteq BOOLEAN
    /\ stream \in {"absent", "open", "over"}
    /\ step \in [Callers -> {"init", "starting", "streaming", "joining",
                             "closing", "snapshot", "draining", "over"}]
    /\ outcome \in {"none", "returned", "raised", "cancelled", "not_closed"}
    /\ worker \in [Callbacks -> {"none", "called", "checked", "submitted",
                                "tracked", "finished", "raised"}]
    /\ attempt \in [Callbacks -> {"none", "in_flight", "finished"}]
    /\ scheduled \subseteq Callbacks
    /\ draining \in [Callers -> SUBSET Callbacks]
    /\ caught \subseteq Callbacks

ShutdownInit ==
    /\ loop = FALSE /\ closed = FALSE /\ stream = "absent" /\ stop = FALSE
    /\ step = [c \in Callers |-> "init"]
    /\ outcome = "none"
    /\ worker = [m \in Callbacks |-> "none"]
    /\ attempt = [m \in Callbacks |-> "none"]
    /\ scheduled = {}
    /\ draining = [c \in Callers |-> {}]
    /\ caught = {}

-----------------------------------------------------------------------------
(* The worker threads: _schedule, one statement per step. *)

(* The subscriber hands a message to a worker thread. *)
Callback(m) ==
    /\ stream = "open"
    /\ worker[m] = "none"
    /\ worker' = [worker EXCEPT ![m] = "called"]
    /\ UNCHANGED <<loop, closed, stream, stop, step, outcome, attempt, scheduled, drains>>

(* "if self._loop is None: return" *)
CheckLoop(m) ==
    /\ worker[m] = "called"
    /\ worker' = [worker EXCEPT ![m] = IF loop THEN "checked" ELSE "finished"]
    /\ UNCHANGED <<loop, closed, stream, stop, step, outcome, attempt, scheduled, drains>>

(* run_coroutine_threadsafe(..., self._loop) reads the attribute again: None *)
(* has no call_soon_threadsafe, and that is no RuntimeError: it escapes into *)
(* the subscriber.                                                         *)
Submit(m) ==
    /\ worker[m] = "checked"
    /\ worker' = [worker EXCEPT ![m] = IF loop THEN "submitted" ELSE "raised"]
    /\ attempt' = [attempt EXCEPT ![m] = IF loop THEN "in_flight" ELSE @]
    /\ UNCHANGED <<loop, closed, stream, stop, step, outcome, scheduled, drains>>

(* "except RuntimeError: return": run() was cancelled and left self._loop  *)
(* set, but that loop is closed by now.                                    *)
SubmitTooLate(m) ==
    /\ worker[m] = "checked"
    /\ loop /\ step["run"] = "over"
    /\ worker' = [worker EXCEPT ![m] = "finished"]
    /\ UNCHANGED <<loop, closed, stream, stop, step, outcome, attempt, scheduled, drains>>

(* self._scheduled.add(future) *)
Track(m) ==
    /\ worker[m] = "submitted"
    /\ worker' = [worker EXCEPT ![m] = "tracked"]
    /\ scheduled' = scheduled \cup {m}
    /\ UNCHANGED <<loop, closed, stream, stop, step, outcome, attempt, drains>>

WatchFutureFirst(m) ==
    /\ worker[m] = "tracked"
    /\ worker' = [worker EXCEPT ![m] = "finished"]
    /\ UNCHANGED <<loop, closed, stream, stop, step, outcome, attempt, scheduled, drains>>

(* add_done_callback: a future that is done calls back at once. *)
WatchFuture(m) ==
    /\ worker[m] = "tracked"
    /\ worker' = [worker EXCEPT ![m] = "finished"]
    /\ scheduled' = IF attempt[m] = "finished" THEN scheduled \ {m} ELSE scheduled
    /\ UNCHANGED <<loop, closed, stream, stop, step, outcome, attempt, drains>>

(* The attempt ends, but not between two lines of close(); its future calls *)
(* scheduled.discard if it was told to.                                     *)
AttemptEnds(m) ==
    /\ attempt[m] = "in_flight"
    /\ \A c \in Callers : step[c] # "snapshot"
    /\ attempt' = [attempt EXCEPT ![m] = "finished"]
    /\ scheduled' = IF worker[m] = "finished" THEN scheduled \ {m} ELSE scheduled
    /\ UNCHANGED <<loop, closed, stream, stop, step, outcome, worker, drains>>

-----------------------------------------------------------------------------
(* run() *)

(* run() is called and asks for credentials.                               *)
StartRun ==
    /\ step["run"] = "init"
    /\ loop' = TRUE
    /\ step' = [step EXCEPT !["run"] = "starting"]
    /\ UNCHANGED <<closed, stream, stop, outcome, threads, drains>>

(* The subscriber is made and streaming.  Nobody asks whether close() was  *)
(* called in the meantime.                                                 *)
Subscribed ==
    /\ step["run"] = "starting"
    /\ stream' = "open"
    /\ step' = [step EXCEPT !["run"] = "streaming"]
    /\ UNCHANGED <<loop, closed, stop, outcome, threads, drains>>

(* Credentials or the client could not be had: nothing was opened.         *)
StartFails ==
    /\ step["run"] = "starting"
    /\ step' = [step EXCEPT !["run"] = "over"]
    /\ outcome' = "raised"
    /\ UNCHANGED <<loop, closed, stream, stop, threads, drains>>

Stop == /\ ~stop
        /\ stop' = TRUE
        /\ UNCHANGED <<loop, closed, stream, step, outcome, threads, drains>>

StreamEnds == /\ stream = "open"
              /\ stream' = "over"
              /\ UNCHANGED <<loop, closed, stop, step, outcome, threads, drains>>

WakeUpOnStream ==
    /\ step["run"] = "streaming"
    /\ stream = "over"
    /\ outcome' = IF stop THEN "returned" ELSE "raised"
    /\ step' = [step EXCEPT !["run"] = "joining"]
    /\ UNCHANGED <<loop, closed, stream, stop, threads, drains>>

(* asyncio.wait returns: the stop event decides, whatever became of the    *)
(* stream.  The finally clause cancels the pull future.                    *)
WakeUp ==
    /\ step["run"] = "streaming"
    /\ stop \/ stream = "over"
    /\ outcome' = IF stop THEN "returned" ELSE "raised"
    /\ step' = [step EXCEPT !["run"] = "joining"]
    /\ UNCHANGED <<loop, closed, stream, stop, threads, drains>>

(* The pull future was cancelled; its stream ends.                         *)
CancelTakesEffect == step["run"] = "joining" /\ StreamEnds

(* close() up to its first await, of the subscriber if there is one (with  *)
(* none there was no callback either).  A second caller returns at once.   *)
EnterClose(c) ==
    IF closed
    THEN /\ step' = [step EXCEPT ![c] = "over"]
         /\ UNCHANGED <<loop, closed>>
    ELSE /\ closed' = TRUE
         /\ loop' = FALSE
         /\ step' = [step EXCEPT ![c] = IF stream = "absent" THEN "draining"
                                                             ELSE "closing"]

(* Callbacks that found self._loop set and have not come to their end.     *)
UnderWay == {m \in Callbacks : worker[m] \in {"checked", "submitted", "tracked"}}

(* to_thread(self._pull_future.result) is over. *)
Joined ==
    /\ step["run"] = "joining"
    /\ stream = "over"
    /\ caught' = UnderWay
    /\ EnterClose("run")
    /\ UNCHANGED <<stream, stop, outcome, threads, draining>>

(* Somebody else calls the runner's close(), at any time. *)
UserClose ==
    /\ step["user"] = "init"
    /\ EnterClose("user")
    /\ UNCHANGED <<stream, stop, outcome, threads, drains>>

ClearedBeforeSnapshot(c) ==
    /\ step[c] = "closing"
    /\ scheduled' = {}
    /\ stream' = "over"
    /\ step' = [step EXCEPT ![c] = "snapshot"]
    /\ UNCHANGED <<loop, closed, stop, outcome, worker, attempt, drains>>

(* The subscriber is closed, its stream with it: scheduled =               *)
(* list(self._scheduled).                                                  *)
SubscriberClosed(c) ==
    /\ step[c] = "closing"
    /\ draining' = [draining EXCEPT ![c] = scheduled]
    /\ stream' = "over"
    /\ step' = [step EXCEPT ![c] = "snapshot"]
    /\ UNCHANGED <<loop, closed, stop, outcome, threads, caught>>

(* self._scheduled.clear(), and whatever a thread added since is forgotten. *)
Cleared(c) ==
    /\ step[c] = "snapshot"
    /\ scheduled' = {}
    /\ step' = [step EXCEPT ![c] = "draining"]
    /\ UNCHANGED <<loop, closed, stream, stop, outcome, worker, attempt, drains>>

(* Closing the subscriber fails: close() ends there, and is done for good. *)
CloseFails(c) ==
    /\ step[c] = "closing"
    /\ step' = [step EXCEPT ![c] = "over"]
    /\ outcome' = IF c = "run" THEN "not_closed" ELSE outcome
    /\ UNCHANGED <<loop, closed, stream, stop, threads, drains>>

(* asyncio.gather is over. *)
Drained(c) ==
    /\ step[c] = "draining"
    /\ \A m \in draining[c] : attempt[m] = "finished"
    /\ step' = [step EXCEPT ![c] = "over"]
    /\ UNCHANGED <<loop, closed, stream, stop, outcome, threads, drains>>

(* run()'s task is cancelled.  While it waits for the stream that is one   *)
(* more way to the finally clause; later it leaves close() undone (only    *)
(* Exceptions of the pull future are passed over), or the gather cancels   *)
(* the attempts.                                                           *)
CancelRun ==
    /\ RunCancelled
    /\ step["run"] \notin {"init", "snapshot", "over"}
    /\ outcome' = "cancelled"
    /\ step' = [step EXCEPT !["run"] =
                   IF step["run"] = "streaming" THEN "joining" ELSE "over"]
    /\ UNCHANGED <<loop, closed, stream, stop, threads, drains>>

-----------------------------------------------------------------------------
Thread(m) == \/ CheckLoop(m) \/ Submit(m) \/ SubmitTooLate(m) \/ Track(m)
             \/ WatchFuture(m) \/ AttemptEnds(m)

Closing == \/ WakeUp \/ CancelTakesEffect \/ Joined
           \/ \E c \in Callers : \/ SubscriberClosed(c) \/ CloseFails(c)
                                 \/ Cleared(c) \/ Drained(c)

ShutdownNext ==
    \/ StartRun \/ Subscribed \/ StartFails \/ Stop \/ StreamEnds
    \/ CancelRun \/ UserClose
    \/ Closing
    \/ \E m \in Callbacks : Callback(m) \/ Thread(m)

ShutdownSpec == ShutdownInit /\ [][ShutdownNext]_shutdownVars

(* Ready tasks and threads run, and handlers end.  Nothing makes anybody   *)
(* stop the runner or the stream end.                                      *)
FairShutdown == /\ ShutdownSpec
                /\ WF_shutdownVars(Closing)
                /\ \A m \in Callbacks : WF_shutdownVars(Thread(m))

-----------------------------------------------------------------------------
(* Nobody but run() closes the runner, run() is not cancelled, and its     *)
(* close() did not fail.                                                   *)
Undisturbed == /\ step["user"] = "init"
               /\ outcome \notin {"cancelled", "not_closed"}

(* "Returns after the subscriber is closed and scheduled attempts are      *)
(* drained": when run() is over no attempt is in flight, and none starts   *)
(* afterwards - but for the callbacks that were under way when the pull    *)
(* future ended, whose attempts close() may miss.                          *)
DrainedOnReturn ==
    Undisturbed /\ step["run"] = "over"
        => \A m \in Callbacks \ caught : attempt[m] # "in_flight"

(* "futures are tracked the moment _schedule runs": and no longer than     *)
(* that.  A future leaves _scheduled with its attempt, also one that was   *)
(* done before its thread came to add it or to watch it, and also when     *)
(* close() emptied the set in between; only a thread between the two       *)
(* statements may still have a finished one there.                         *)
NoFutureIsLeft ==
    \A m \in scheduled : attempt[m] = "in_flight" \/ worker[m] = "tracked"

(* Shutdown ends: run() does not wait for ever for a stream, a callback or *)
(* an attempt that nobody will finish.                                     *)
RunEnds == (step["run"] = "streaming" /\ stop) ~> step["run"] = "over"
=============================================================================
