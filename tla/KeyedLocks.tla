----------------------------- MODULE KeyedLocks -----------------------------
(***************************************************************************)
(* _KeyedLockRegistry of src/src/chattice/transports/pubsub_runner.py: the *)
(* runner holds the lock of a card's message.name around messages.update,  *)
(* so that updates of one card never overlap.  Lock objects are created on *)
(* first use of a name and dropped from the registry when it is idle, so   *)
(* the same name may be served by different objects over time.             *)
(*                                                                         *)
(* asyncio.Lock is external, modelled as CPython implements it: a FIFO     *)
(* queue of futures; release wakes the first one and leaves the lock open  *)
(* until that task runs; a task may be cancelled while it waits, or in     *)
(* the gap between being woken and running.  All code between two awaits   *)
(* is one step of the event loop.                                          *)
(***************************************************************************)
EXTENDS Naturals, FiniteSets, SequencesExt

CONSTANTS Tasks,     \* delivery attempts that answer with a card update
          Names,     \* message resource names
          LockIds,   \* identities of lock objects
          NoLock

ASSUME NoLockAssumption == NoLock \notin LockIds

VARIABLES locks,     \* self._locks: the registered lock of a name
          waiters,   \* self._waiters: 0 stands for an absent entry
          locked,    \* the _locked flag of each lock object
          queue,     \* the futures waiting for each lock object, by task
          pc, name, lock   \* where each task is, for which name and object

vars == <<locks, waiters, locked, queue, pc, name, lock>>
taskOf == <<name, lock>>

(* A task is out of acquire/release; waiting in the queue; woken by a      *)
(* release but not run yet; cancelled in the queue; cancelled after it was *)
(* woken; or holding the lock, its update call in flight.                  *)
States == {"out", "waiting", "woken", "cancelled", "lateCancelled", "holding"}

TypeOK == /\ locks \in [Names -> LockIds \cup {NoLock}]
          /\ waiters \in [Names -> Nat]
          /\ locked \in [LockIds -> BOOLEAN]
          /\ queue \in [LockIds -> Seq(Tasks)]
          /\ pc \in [Tasks -> States]
          /\ name \in [Tasks -> Names]
          /\ lock \in [Tasks -> LockIds]

Init == /\ locks = [n \in Names |-> NoLock]
        /\ waiters = [n \in Names |-> 0]
        /\ locked = [l \in LockIds |-> FALSE]
        /\ queue = [l \in LockIds |-> <<>>]
        /\ pc = [t \in Tasks |-> "out"]
        /\ name \in [Tasks -> Names]
        /\ lock \in [Tasks -> LockIds]

Busy(t) == pc[t] # "out"

(* Objects nothing refers to: a new lock may take their identity. *)
Unreferenced(l) == /\ \A n \in Names : locks[n] # l
                   /\ \A t \in Tasks : Busy(t) => lock[t] # l

(* _drop_waiter *)
Dropped(count) == IF count <= 1 THEN 0 ELSE count - 1

(* _wake_up_first: the head of the queue, unless its future is done. *)
WakeFirst(states, q) ==
    IF q # <<>> /\ states[Head(q)] = "waiting"
    THEN [states EXCEPT ![Head(q)] = "woken"]
    ELSE states

-----------------------------------------------------------------------------
AcquireBarging(t, n) ==
    /\ pc[t] = "out"
    /\ \E l \in LockIds :
          /\ IF locks[n] = NoLock THEN Unreferenced(l) ELSE l = locks[n]
          /\ locks' = [locks EXCEPT ![n] = l]
          /\ lock' = [lock EXCEPT ![t] = l]
          /\ IF ~locked[l]
             THEN /\ locked' = [locked EXCEPT ![l] = TRUE]
                  /\ pc' = [pc EXCEPT ![t] = "holding"]
                  /\ UNCHANGED queue
             ELSE /\ queue' = [queue EXCEPT ![l] = Append(@, t)]
                  /\ pc' = [pc EXCEPT ![t] = "waiting"]
                  /\ UNCHANGED locked
    /\ name' = [name EXCEPT ![t] = n]
    /\ waiters' = [waiters EXCEPT ![n] = @ + 1]

(* acquire() up to its await.  The lock is taken at once when it is open   *)
(* and every future in its queue was cancelled.                            *)
Acquire(t, n) ==
    /\ pc[t] = "out"
    /\ \E l \in LockIds :
          /\ IF locks[n] = NoLock THEN Unreferenced(l) ELSE l = locks[n]
          /\ locks' = [locks EXCEPT ![n] = l]
          /\ lock' = [lock EXCEPT ![t] = l]
          /\ IF ~locked[l] /\ \A u \in ToSet(queue[l]) : pc[u] = "cancelled"
             THEN /\ locked' = [locked EXCEPT ![l] = TRUE]
                  /\ pc' = [pc EXCEPT ![t] = "holding"]
                  /\ UNCHANGED queue
             ELSE /\ queue' = [queue EXCEPT ![l] = Append(@, t)]
                  /\ pc' = [pc EXCEPT ![t] = "waiting"]
                  /\ UNCHANGED locked
    /\ name' = [name EXCEPT ![t] = n]
    /\ waiters' = [waiters EXCEPT ![n] = @ + 1]

(* The woken task runs: it leaves the queue and closes the lock. *)
Resume(t) ==
    /\ pc[t] = "woken"
    /\ queue' = [queue EXCEPT ![lock[t]] = RemoveFirst(@, t)]
    /\ locked' = [locked EXCEPT ![lock[t]] = TRUE]
    /\ pc' = [pc EXCEPT ![t] = "holding"]
    /\ UNCHANGED <<locks, waiters, taskOf>>

(* task.cancel(): close() or the loop's shutdown cancels the attempt. *)
Cancel(t) ==
    /\ \/ pc[t] = "waiting" /\ pc' = [pc EXCEPT ![t] = "cancelled"]
       \/ pc[t] = "woken" /\ pc' = [pc EXCEPT ![t] = "lateCancelled"]
    /\ UNCHANGED <<locks, waiters, locked, queue, taskOf>>

CancelledWakesNobody(t) ==
    /\ pc[t] \in {"cancelled", "lateCancelled"}
    /\ queue' = [queue EXCEPT ![lock[t]] = RemoveFirst(@, t)]
    /\ pc' = [pc EXCEPT ![t] = "out"]
    /\ waiters' = [waiters EXCEPT ![name[t]] = Dropped(@)]
    /\ UNCHANGED <<locks, locked, taskOf>>

(* The cancelled task runs: asyncio.Lock passes the wake-up on when the    *)
(* lock is open, and acquire's except clause drops the waiter.             *)
ResumeCancelled(t) ==
    LET l == lock[t]
        rest == RemoveFirst(queue[l], t)
        gone == [pc EXCEPT ![t] = "out"] IN
    /\ pc[t] \in {"cancelled", "lateCancelled"}
    /\ queue' = [queue EXCEPT ![l] = rest]
    /\ pc' = IF locked[l] THEN gone ELSE WakeFirst(gone, rest)
    /\ waiters' = [waiters EXCEPT ![name[t]] = Dropped(@)]
    /\ UNCHANGED <<locks, locked, taskOf>>

ReleasePopsAlways(t) ==
    LET n == name[t]
        l == locks[n] IN
    /\ pc[t] = "holding"
    /\ l # NoLock
    /\ waiters' = [waiters EXCEPT ![n] = Dropped(@)]
    /\ locked' = [locked EXCEPT ![l] = FALSE]
    /\ pc' = WakeFirst([pc EXCEPT ![t] = "out"], queue[l])
    /\ locks' = [locks EXCEPT ![n] = NoLock]
    /\ UNCHANGED <<queue, taskOf>>

(* release(), in the finally clause: the update returned, failed or was    *)
(* cancelled.                                                              *)
Release(t) ==
    LET n == name[t]
        l == locks[n]
        count == Dropped(waiters[n]) IN
    /\ pc[t] = "holding"
    /\ l # NoLock
    /\ waiters' = [waiters EXCEPT ![n] = count]
    /\ locked' = [locked EXCEPT ![l] = FALSE]
    /\ pc' = WakeFirst([pc EXCEPT ![t] = "out"], queue[l])
    /\ locks' = [locks EXCEPT ![n] = IF count = 0 THEN NoLock ELSE @]
    /\ UNCHANGED <<queue, taskOf>>

Runs(t) == Resume(t) \/ ResumeCancelled(t) \/ Release(t)

Next == \E t \in Tasks : \/ \E n \in Names : Acquire(t, n)
                         \/ Cancel(t)
                         \/ Runs(t)

Spec == Init /\ [][Next]_vars

(* The event loop runs every ready task, and every update call ends (the   *)
(* client's requests have a timeout).  Nothing forces new updates.         *)
FairSpec == Spec /\ \A t \in Tasks : WF_vars(Runs(t))

-----------------------------------------------------------------------------
(* "Serializes outbound card updates per message.name": two updates of one *)
(* card never overlap, although lock objects come and go, wake-ups are     *)
(* handed over, and waiting tasks are cancelled at any point.              *)
MutualExclusion ==
    \A t, u \in Tasks :
        pc[t] = "holding" /\ pc[u] = "holding" /\ name[t] = name[u] => t = u

(* The registered object is the one everybody busy with the name uses, and *)
(* the count that keeps it registered is the number of these tasks: an     *)
(* object is never dropped or replaced under a waiter, nor is a count left *)
(* behind by a cancelled one.                                              *)
RegistryMatchesTasks ==
    \A n \in Names :
        LET busy == {t \in Tasks : Busy(t) /\ name[t] = n} IN
        /\ waiters[n] = Cardinality(busy)
        /\ \A t \in busy : lock[t] = locks[n]

(* "Fair": a task gets the lock only when every other task waiting for the *)
(* name queued up behind it.                                               *)
FirstComeFirstServed ==
    [][\A t \in Tasks :
          pc[t] # "holding" /\ pc'[t] = "holding" =>
              \A u \in Tasks \ {t} :
                  pc[u] \in {"waiting", "woken"} /\ name[u] = name'[t] =>
                      \E i, j \in DOMAIN queue[lock[u]] :
                          /\ i < j
                          /\ queue[lock[u]][i] = t
                          /\ queue[lock[u]][j] = u]_vars

(* No wake-up is lost: whoever waits for a card gets its turn or is        *)
(* cancelled.                                                              *)
EveryWaiterIsServed ==
    \A t \in Tasks : pc[t] = "waiting" ~> pc[t] # "waiting"

(* "cleaned up when idle": with nobody busy with a name the registry has   *)
(* no lock for it.  The code does not keep it: a waiter cancelled after    *)
(* the holder's release leaves the lock behind.                            *)
CleanWhenIdle ==
    \A n \in Names :
        (\A t \in Tasks : Busy(t) => name[t] # n) => locks[n] = NoLock
=============================================================================
