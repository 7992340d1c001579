--------------------------- MODULE Application_proofs ---------------------------
(***************************************************************************)
(* Proofs about Application, for any tree of routers and whatever grows in *)
(* it, any handlers, middlewares, filters and turns, and whatever fails,   *)
(* raises or is cancelled:                                                 *)
(*   - handlers run between the start and the close of all resources,      *)
(*     which are closed in reverse;                                        *)
(*   - the caller of feed_update is told what happened;                    *)
(*   - a handler sees its own context and the bot of its own turn;         *)
(*   - handlers are offered an event in the documented order, and none of  *)
(*     those that were there is passed over.                               *)
(*                                                                         *)
(* CallerIsTold and ContextIsolated speak of turns that end and of         *)
(* handlers that run.  What makes them inductive is what a turn carries in *)
(* between (Fits): a result on its way out belongs to the handler that     *)
(* completed (Honest); a walk hands every router only the middlewares      *)
(* above it, and the frames entered so far have left their keys (Scoped).  *)
(* The bots need more than one turn: a turn fed by a handler runs alone    *)
(* inside that handler's turn, which waits for it (Nested), and every turn *)
(* remembers the bot to restore (Bots).                                    *)
(*                                                                         *)
(* OfferedInOrder speaks of what was offered.  It is inductive with where  *)
(* the walk stands (Lined): what it has dealt with comes before the router *)
(* it is at, that before every entry it has left, and these lie apart, one *)
(* after the other; and every handler of the roster it has not dealt with  *)
(* hangs below one of them.  The order is read off the tree once, as a     *)
(* constant of each step (Ordering); a lemma says that what comes first in *)
(* a tree does in any tree it grows into, because a path gets longer only  *)
(* at the top and a list only at its end (Grows), which is where the cycle *)
(* check of include_router is needed (Linked).                             *)
(***************************************************************************)
EXTENDS Application, SequenceTheorems, TLAPS

Phases == {"outside", "starting", "rollback", "failed", "inside", "closing", "left", "close failed"}

(* What is still to be closed is what runs, last one first; what is still  *)
(* to be started continues it.                                             *)
ToStart == /\ _started = running
           /\ Len(running) + Len(todo) = Len(Resources)
           /\ \A i \in 1..Len(running) : running[i] = Resources[i]
           /\ \A i \in 1..Len(todo) : todo[i] = Resources[Len(running) + i]
ToClose == /\ Len(todo) = Len(running)
           /\ \A i \in 1..Len(todo) : todo[i] = running[Len(running) + 1 - i]
           /\ \A i, j \in 1..Len(running) : running[i] = running[j] => i = j

LifeInv ==
    /\ phase \in Phases
    /\ running \in Seq(Range(Resources))
    /\ _started \in Seq(Range(Resources))
    /\ todo \in Seq(Range(Resources))
    /\ phase \in {"outside", "failed"} => running = <<>> /\ _started = <<>>
    /\ phase \in {"left", "close failed"} => running = <<>>
    /\ phase = "starting" => ToStart
    /\ phase = "inside" => running = Resources /\ _started = running
    /\ phase \in {"rollback", "closing"} => ToClose

(* A turn is under way only while the lifespan is inside.                  *)
IInv == LifeInv /\ ((\E t \in Turns : Live(t)) => phase = "inside")

-----------------------------------------------------------------------------
(* Closing the resource that was started last takes it off the end.        *)
LEMMA LastGone ==
    ASSUME NEW S, NEW s \in Seq(S), s # <<>>,
           \A i, j \in 1..Len(s) : s[i] = s[j] => i = j
    PROVE  RemoveFirst(s, s[Len(s)]) = SubSeq(s, 1, Len(s) - 1)
<1> DEFINE n == Len(s)
           I == {j \in 1..n : s[j] = s[n]}
<1>1. n \in Nat /\ n > 0
    BY DEF n
<1>2. I = {n}
    BY <1>1
<1>3. Min(I) = n
    BY <1>1, <1>2 DEF Min
<1>4. RemoveFirst(s, s[n]) = SubSeq(s, 1, n - 1) \o SubSeq(s, n + 1, n)
    BY <1>1, <1>2, <1>3 DEF RemoveFirst, RemoveAt, SelectInSeq
<1>5. SubSeq(s, n + 1, n) = <<>> /\ SubSeq(s, 1, n - 1) \in Seq(S)
    BY <1>1
<1> QED
    BY <1>4, <1>5

(* The next resource to be closed is the last one that runs.               *)
LEMMA NextToClose ==
    ASSUME LifeInv, ToClose, todo # <<>>
    PROVE  /\ running # <<>> /\ Gone(Head(todo)) = Front(running)
           /\ Len(Front(running)) = Len(running) - 1
           /\ Front(running) \in Seq(Range(Resources))
           /\ \A i \in 1..(Len(running) - 1) : Front(running)[i] = running[i]
<1> DEFINE S == Range(Resources)
<1>1. running \in Seq(S) /\ todo \in Seq(S) /\ Len(todo) = Len(running)
    BY DEF LifeInv, ToClose
<1> HIDE DEF S
<1>2. running # <<>> /\ Head(todo) = running[Len(running)]
    BY <1>1 DEF ToClose
<1>3. Gone(Head(todo)) = SubSeq(running, 1, Len(running) - 1)
    BY <1>1, <1>2, LastGone DEF Gone, ToClose
<1>4. /\ Len(SubSeq(running, 1, Len(running) - 1)) = Len(running) - 1
      /\ SubSeq(running, 1, Len(running) - 1) \in Seq(S)
      /\ \A i \in 1..(Len(running) - 1) :
            SubSeq(running, 1, Len(running) - 1)[i] = running[i]
    BY <1>1, <1>2
<1> QED
    BY <1>2, <1>3, <1>4 DEF Front, S

LEMMA ClosesOne ==
    ASSUME LifeInv, ToClose, todo # <<>>, running' = Gone(Head(todo)), todo' = Tail(todo)
    PROVE  /\ running' \in Seq(Range(Resources)) /\ todo' \in Seq(Range(Resources))
           /\ ToClose' /\ running' = Front(running)
<1> DEFINE S == Range(Resources)
           n == Len(running)
<1>1. /\ running \in Seq(S) /\ todo \in Seq(S) /\ Len(todo) = n
      /\ \A i \in 1..Len(todo) : todo[i] = running[n + 1 - i]
      /\ \A i, j \in 1..n : running[i] = running[j] => i = j
    BY DEF LifeInv, ToClose
<1>2. /\ running' = Front(running) /\ Len(running') = n - 1 /\ running' \in Seq(S)
      /\ \A i \in 1..(n - 1) : running'[i] = running[i]
    BY NextToClose
<1> HIDE DEF S, n
<1>3. n \in Nat /\ n > 0
    BY <1>1 DEF n
<1>4. todo' \in Seq(S) /\ Len(todo') = n - 1 /\ \A i \in 1..(n - 1) : todo'[i] = todo[i + 1]
    BY <1>1, <1>3
<1>5. ASSUME NEW i \in 1..(n - 1)
      PROVE  todo'[i] = running'[n - i]
  <2>1. i + 1 \in 1..n /\ n - i \in 1..(n - 1) /\ n + 1 - (i + 1) = n - i
      BY <1>3
  <2>2. todo'[i] = running[n + 1 - (i + 1)]
      BY <2>1, <1>1, <1>4
  <2>3. running'[n - i] = running[n - i]
      BY <2>1, <1>2
  <2> QED
      BY <2>1, <2>2, <2>3
<1>6. ToClose'
  <2>1. Len(todo') = Len(running')
      BY <1>2, <1>4
  <2>2. ASSUME NEW i \in 1..Len(todo') PROVE todo'[i] = running'[Len(running') + 1 - i]
    <3>1. i \in 1..(n - 1) /\ Len(running') + 1 - i = n - i
        BY <2>2, <1>2, <1>3, <1>4
    <3> QED
        BY <3>1, <1>5
  <2>3. ASSUME NEW i \in 1..Len(running'), NEW j \in 1..Len(running'), running'[i] = running'[j]
        PROVE  i = j
    <3>1. i \in 1..(n - 1) /\ j \in 1..(n - 1)
        BY <2>3, <1>2
    <3>2. i \in 1..n /\ j \in 1..n /\ running[i] = running[j]
        BY <3>1, <2>3, <1>2, <1>3
    <3> QED
        BY <3>2, <1>1
  <2> QED
      BY <2>1, <2>2, <2>3 DEF ToClose
<1> QED
    BY <1>2, <1>4, <1>6 DEF S

(* What was started, in reverse, is what has to be closed.                 *)
LEMMA Reversed ==
    ASSUME LifeInv, \A i \in 1..Len(running) : running[i] = Resources[i],
           Len(running) <= Len(Resources)
    PROVE  /\ Reverse(running) \in Seq(Range(Resources))
           /\ Len(Reverse(running)) = Len(running)
           /\ \A i \in 1..Len(running) : Reverse(running)[i] = running[Len(running) + 1 - i]
           /\ \A i, j \in 1..Len(running) : running[i] = running[j] => i = j
<1> DEFINE S == Range(Resources)
<1>1. running \in Seq(S) /\ Resources \in Seq(S)
    BY ResourcesAssumption DEF LifeInv
<1>2. \A i, j \in 1..Len(Resources) : Resources[i] = Resources[j] => i = j
    BY <1>1, ResourcesAssumption DEF IsInjective
<1> HIDE DEF S
<1>3. /\ Reverse(running) \in Seq(S)
      /\ Len(Reverse(running)) = Len(running)
      /\ \A i \in 1..Len(running) : Reverse(running)[i] = running[Len(running) + 1 - i]
    BY <1>1 DEF Reverse
<1>4. \A i, j \in 1..Len(running) : running[i] = running[j] => i = j
    BY <1>1, <1>2
<1> QED
    BY <1>3, <1>4 DEF S

LEMMA LifeStepKeepsLifeInv ==
    ASSUME LifeInv, Enter \/ LifeStep \/ \E raised \in BOOLEAN : Leave(raised)
    PROVE  LifeInv' /\ (Len(running') < Len(running) => running' = Front(running))
<1> DEFINE S == Range(Resources)
           Ok == LifeInv' /\ (Len(running') < Len(running) => running' = Front(running))
<1>0. /\ running \in Seq(S) /\ todo \in Seq(S) /\ _started \in Seq(S)
      /\ Resources \in Seq(S) /\ Len(Resources) \in Nat
  <2>1. Resources \in Seq(S)
      BY ResourcesAssumption
  <2>2. Len(Resources) \in Nat
    <3> HIDE DEF S
    <3> QED
        BY <2>1
  <2> QED
      BY <2>1, <2>2 DEF LifeInv
<1>e. <<>> \in Seq(S) /\ Len(<<>>) = 0
    OBVIOUS
<1>s. running' = running => (Len(running') < Len(running) => running' = Front(running))
    BY <1>0
<1>1. CASE Enter
  <2>1. running' = <<>> /\ _started' = <<>> /\ todo' = Resources
      BY <1>1 DEF Enter, LifeInv
  <2>2. ToStart'
    <3> HIDE DEF S
    <3>1. Len(running') + Len(todo') = Len(Resources)
        BY <2>1, <1>0, <1>e
    <3>2. \A i \in 1..Len(todo') : todo'[i] = Resources[Len(running') + i]
        BY <2>1, <1>0, <1>e
    <3>3. \A i \in 1..Len(running') : running'[i] = Resources[i]
        BY <2>1, <1>e
    <3> QED
        BY <2>1, <3>1, <3>2, <3>3 DEF ToStart
  <2> QED
      BY <2>1, <2>2, <1>1, <1>0, <1>e, <1>s DEF Enter, LifeInv, Phases
<1>2. CASE Starts
  <2>1. /\ Append(running, Head(todo)) \in Seq(S)
        /\ Len(Append(running, Head(todo))) = Len(running) + 1
        /\ \A i \in 1..Len(running) : Append(running, Head(todo))[i] = running[i]
        /\ Append(running, Head(todo))[Len(running) + 1] = todo[1]
        /\ Tail(todo) \in Seq(S) /\ Len(Tail(todo)) = Len(todo) - 1
        /\ \A i \in 1..(Len(todo) - 1) : Tail(todo)[i] = todo[i + 1]
        /\ Len(todo) >= 1
      BY <1>2, <1>0 DEF Starts
  <2>2. /\ ToStart /\ phase' = "starting" /\ todo' = Tail(todo)
        /\ running' = Append(running, Head(todo)) /\ _started' = Append(running, Head(todo))
      BY <1>2 DEF Starts, LifeInv, ToStart
  <2> HIDE DEF S
  <2>3. /\ Len(running') = Len(running) + 1 /\ Len(todo') = Len(todo) - 1
        /\ Len(running) \in Nat /\ Len(todo) \in Nat
      BY <2>1, <2>2, <1>0
  <2>4. ASSUME NEW i \in 1..Len(running') PROVE running'[i] = Resources[i]
    <3>1. CASE i \in 1..Len(running)
        BY <3>1, <2>1, <2>2 DEF ToStart
    <3>2. CASE i = Len(running) + 1
      <4>1. 1 \in 1..Len(todo)
          BY <2>1, <2>3
      <4>2. todo[1] = Resources[Len(running) + 1]
          BY <4>1, <2>2 DEF ToStart
      <4> QED
          BY <4>2, <3>2, <2>1, <2>2
    <3> QED
        BY <3>1, <3>2, <2>3
  <2>5. ASSUME NEW i \in 1..Len(todo') PROVE todo'[i] = Resources[Len(running') + i]
    <3>1. i \in 1..(Len(todo) - 1) /\ i + 1 \in 1..Len(todo)
          /\ Len(running) + (i + 1) = Len(running') + i
        BY <2>3
    <3>2. todo'[i] = todo[i + 1]
        BY <3>1, <2>1, <2>2
    <3> QED
        BY <3>1, <3>2, <2>2 DEF ToStart
  <2>6. ToStart'
    <3>1. Len(running) + Len(todo) = Len(Resources)
        BY <2>2 DEF ToStart
    <3>2. Len(running') + Len(todo') = Len(Resources)
        BY <3>1, <2>3
    <3> QED
        BY <3>2, <2>2, <2>4, <2>5 DEF ToStart
  <2>7. ~(Len(running') < Len(running))
      BY <2>3
  <2>8. running' \in Seq(S) /\ _started' \in Seq(S) /\ todo' \in Seq(S)
      BY <2>1, <2>2
  <2> QED
      BY <2>2, <2>6, <2>7, <2>8 DEF LifeInv, Phases, S
<1>3. CASE Entered
  <2>1. running = Resources
    <3>1. /\ Len(running) = Len(Resources)
          /\ \A i \in 1..Len(running) : running[i] = Resources[i]
        BY <1>3, <1>0 DEF Entered, LifeInv, ToStart
    <3> QED
        BY <3>1, <1>0, SeqEqual
  <2> QED
      BY <2>1, <1>3, <1>0, <1>e, <1>s DEF Entered, LifeInv, ToStart, Phases
<1>4. CASE StartFails
  <2>1. /\ ToStart /\ running' = running /\ phase' = "rollback" /\ todo' = Reverse(running)
        /\ _started' = _started
      BY <1>4 DEF StartFails, LifeInv, ToStart
  <2>2. Len(running) <= Len(Resources)
      BY <2>1, <1>0 DEF ToStart
  <2>3. todo' \in Seq(S) /\ ToClose'
      BY <2>1, <2>2, Reversed DEF ToStart, ToClose
  <2> QED
      BY <2>1, <2>3, <1>0, <1>e, <1>s DEF LifeInv, Phases
<1>5. CASE RollsBack
  <2>1. /\ phase' = "rollback" /\ ToClose /\ todo # <<>> /\ _started' = _started
        /\ running' = Gone(Head(todo)) /\ todo' = Tail(todo)
      BY <1>5 DEF RollsBack, LifeInv
  <2>2. running' \in Seq(S) /\ todo' \in Seq(S) /\ ToClose' /\ running' = Front(running)
      BY <2>1, ClosesOne
  <2> QED
      BY <2>1, <2>2, <1>0 DEF LifeInv, Phases
<1>6. CASE RolledBack
  <2>1. /\ phase' = "failed" /\ running' = running /\ _started' = <<>> /\ todo' = todo
        /\ running = <<>>
    <3>1. ToClose /\ todo = <<>>
        BY <1>6 DEF RolledBack, LifeInv
    <3>2. Len(running) = 0
        BY <3>1, <1>e DEF ToClose
    <3>3. running = <<>>
        BY <3>2, <1>0
    <3> QED
        BY <3>3, <1>6 DEF RolledBack
  <2> QED
      BY <2>1, <1>0, <1>e, <1>s DEF LifeInv, Phases
<1>7. CASE Left
  <2>1. /\ phase' \in {"close failed", "left"} /\ running' = running /\ _started' = <<>>
        /\ todo' = todo /\ running = <<>>
    <3>1. ToClose /\ todo = <<>>
        BY <1>7 DEF Left, LifeInv
    <3>2. Len(running) = 0
        BY <3>1, <1>e DEF ToClose
    <3>3. running = <<>>
        BY <3>2, <1>0
    <3> QED
        BY <3>3, <1>7 DEF Left
  <2> QED
      BY <2>1, <1>0, <1>e, <1>s DEF LifeInv, Phases
<1>8. ASSUME NEW fails \in BOOLEAN, Closes(fails) PROVE Ok
  <2>1. /\ phase' = "closing" /\ ToClose /\ todo # <<>> /\ _started' = _started
        /\ running' = Gone(Head(todo)) /\ todo' = Tail(todo)
      BY <1>8 DEF Closes, LifeInv
  <2>2. running' \in Seq(S) /\ todo' \in Seq(S) /\ ToClose' /\ running' = Front(running)
      BY <2>1, ClosesOne
  <2> QED
      BY <2>1, <2>2, <1>0 DEF LifeInv, Phases
<1>9. ASSUME NEW raised \in BOOLEAN, Leave(raised) PROVE Ok
  <2>1. /\ running = Resources /\ running' = running /\ phase' = "closing"
        /\ todo' = Reverse(running) /\ _started' = _started
      BY <1>9 DEF Leave, LifeInv
  <2>2. todo' \in Seq(S) /\ ToClose'
    <3>1. Len(running) <= Len(Resources)
        BY <2>1, <1>0
    <3>2. \A i \in 1..Len(running) : running[i] = Resources[i]
        BY <2>1
    <3>3. /\ Reverse(running) \in Seq(S)
          /\ Len(Reverse(running)) = Len(running)
          /\ \A i \in 1..Len(running) : Reverse(running)[i] = running[Len(running) + 1 - i]
          /\ \A i, j \in 1..Len(running) : running[i] = running[j] => i = j
        BY <3>1, <3>2, Reversed
    <3> QED
        BY <3>3, <2>1 DEF ToClose
  <2> QED
      BY <2>1, <2>2, <1>0, <1>e, <1>s DEF LifeInv, Phases
<1> QED
    BY <1>1, <1>2, <1>3, <1>4, <1>5, <1>6, <1>7, <1>8, <1>9 DEF LifeStep

-----------------------------------------------------------------------------
(* Only a turn that is live takes a step, and no step of one makes another *)
(* live.                                                                   *)
LEMMA StepsAreOfLiveTurns ==
    ASSUME NEW t \in Turns, Step(t) \/ EventStep(t) \/ Cancel(t) \/ CancelNested(t)
    PROVE  Live(t)
<1>1. CASE Cancel(t) \/ CancelNested(t)
    BY <1>1 DEF Cancel, CancelNested
<1>2. CASE Step(t)
    BY <1>2 DEF Step, Select, Unmatched, Walk, Exhausted, Resolve, Returned, End,
       ObserverFilters, HandlerFilters, Middleware, Unwind, Body, Live
<1>3. CASE EventStep(t)
    BY <1>3 DEF EventStep, WalkEvents, Exhausted, ResolveEvent, EventReturned, End,
       EventFilters, Middleware, Unwind, Body, Live
<1> QED
    BY <1>1, <1>2, <1>3

LEMMA InitIInv == Init => IInv
<1> SUFFICES ASSUME Init PROVE IInv
    OBVIOUS
<1>1. \A t \in Turns : ~Live(t)
    BY DEF Init, DispatchInit, Live, Idle
<1>2. LifeInv
    BY DEF Init, LifeInit, LifeInv, Phases
<1> QED
    BY <1>1, <1>2 DEF IInv

LEMMA NextIInv ==
    IInv /\ [Next]_vars =>
        IInv' /\ (Len(running') < Len(running) => running' = Front(running))
<1> DEFINE Ok == IInv' /\ (Len(running') < Len(running) => running' = Front(running))
<1> SUFFICES ASSUME IInv, [Next]_vars PROVE Ok
    OBVIOUS
<1>1. ASSUME UNCHANGED lifeVars
      PROVE  LifeInv' /\ phase' = phase /\ ~(Len(running') < Len(running))
  <2>1. running \in Seq(Range(Resources))
      BY DEF IInv, LifeInv
  <2>2. Len(running) \in Nat
      BY <2>1, LenProperties
  <2>3. /\ phase' = phase /\ running' = running /\ _started' = _started /\ todo' = todo
      BY <1>1 DEF lifeVars
  <2>4. ToStart' = ToStart /\ ToClose' = ToClose
      BY <2>3 DEF ToStart, ToClose
  <2>5. LifeInv'
      BY <2>3, <2>4 DEF IInv, LifeInv
  <2> QED
      BY <2>2, <2>3, <2>5
<1>2. ASSUME UNCHANGED lifeVars, UNCHANGED turn PROVE Ok
    BY <1>1, <1>2 DEF IInv, Live
<1>3. ASSUME UNCHANGED lifeVars, phase = "inside" PROVE Ok
    BY <1>1, <1>3 DEF IInv
<1>4. CASE UNCHANGED vars
    BY <1>2, <1>4 DEF vars, dispatchVars
<1>5. CASE Grow
    BY <1>2, <1>5 DEF Grow
<1>6. CASE Lifespan
  <2>1. LifeInv' /\ (Len(running') < Len(running) => running' = Front(running))
      BY <1>6, LifeStepKeepsLifeInv DEF IInv, Lifespan
  <2>2. turn' = turn
      BY <1>6 DEF Lifespan, dispatchVars
  <2>3. CASE Quiet
      BY <2>1, <2>2, <2>3 DEF IInv, Quiet, Live
  <2>4. CASE Enter \/ LifeStep
    <3>1. phase # "inside"
        BY <2>4 DEF Enter, LifeStep, Starts, Entered, StartFails, RollsBack, RolledBack, Left, Closes
    <3>2. \A t \in Turns : ~Live(t)
        BY <3>1 DEF IInv
    <3> QED
        BY <3>2, <2>1, <2>2 DEF IInv, Live
  <2> QED
      BY <1>6, <2>3, <2>4 DEF Lifespan
<1>7. ASSUME NEW t \in Turns, Fed(t) PROVE Ok
    BY <1>3, <1>7 DEF Fed, Serving
<1>8. ASSUME NEW t \in Turns, Proceed(t) \/ Cancelled(t) PROVE Ok
  <2>1. phase = "inside"
      BY <1>8, StepsAreOfLiveTurns DEF Proceed, Cancelled, IInv
  <2> QED
      BY <2>1, <1>3, <1>8 DEF Proceed, Cancelled
<1> QED
    BY <1>4, <1>5, <1>6, <1>7, <1>8 DEF Next

(* While a handler runs, every resource of the application is open, and     *)
(* nothing is left open when the lifespan is over or could not be entered.  *)
THEOREM ResourcesOutliveEveryTurn == Spec => []ResourcesOutliveTurns
<1>1. IInv => ResourcesOutliveTurns
  <2> SUFFICES ASSUME IInv PROVE ResourcesOutliveTurns
      OBVIOUS
  <2>1. NothingLeftOpen
      BY DEF IInv, LifeInv, NothingLeftOpen
  <2>2. \A t \in Turns : turn[t].pc = "body" => Live(t)
      BY DEF Live
  <2>3. (\E t \in Turns : turn[t].pc = "body") => running = Resources
      BY <2>2 DEF IInv, LifeInv
  <2> QED
      BY <2>1, <2>3 DEF ResourcesOutliveTurns
<1> QED
    BY <1>1, InitIInv, NextIInv, PTL DEF Spec

(* A resource is closed only when all that were started after it are.      *)
THEOREM ResourcesAreClosedInReverse == Spec => ClosedInReverse
<1> DEFINE TakesLast == Len(running') < Len(running) => running' = Front(running)
<1>1. IInv /\ [Next]_vars => [TakesLast]_lifeVars
    BY NextIInv
<1>2. Spec => [][TakesLast]_lifeVars
    BY <1>1, InitIInv, NextIInv, PTL DEF Spec
<1> QED
    BY <1>2 DEF ClosedInReverse

-----------------------------------------------------------------------------
(* The dispatchers: what holds of a turn, of the tree, and between turns.  *)

Entries == [router : Routers, inherited : Seq(Middlewares)]

(* What a turn holds, whatever it is doing. *)
Typed(T) ==
    /\ DOMAIN T = DOMAIN Idle
    /\ T.left \in Seq(Observers)
    /\ T.at \in Routers
    /\ T.around \in Seq(Middlewares)
    /\ T.candidates \in Seq(Handlers)
    /\ T.pc \notin {"idle", "select", "finally"} => T.pass \in Observers
    /\ T.pc \in {"frame", "body", "unwind"} => T.handler \in Handlers
    /\ T.pc = "frame" => T.depth \in 1..(Len(T.around) + 1)
    /\ T.pc = "unwind" => T.depth \in 0..Len(T.around)
    /\ T.kind = "workspace" => T.failure = "none"
    /\ T.pc = "unwind" => T.out \in Outcomes
    /\ T.raises \in BOOLEAN /\ T.meddled \in BOOLEAN

(* What it has told its caller, or will. *)
Honest(T) ==
    /\ T.pc = "idle" => T = Idle
    /\ T.pc # "finally" =>
          /\ T.raises = FALSE /\ T.answer = NoHandler
          /\ T.meddled = TRUE \/ T.done = IF T.pc = "unwind" /\ T.out = "result"
                                   THEN {T.handler} ELSE {}
    /\ T.pc = "finally" /\ T.out # "cancel" =>
          /\ T.failure # "none" => T.raises = TRUE \/ T.answer # NoHandler
          /\ T.raises = TRUE => T.answer = NoHandler
          /\ T.meddled = TRUE \/ T.done = IF T.answer = NoHandler THEN {} ELSE {T.answer}

(* The middlewares from r up to the root. *)
Above == [r \in Routers |-> UNION {Range(middleware[s]) : s \in Path(r)}]

(* What is left of a walk: each router inherits only what is above it.     *)
Sound(todo_) == /\ todo_ \in Seq(Entries)
                /\ \A i \in 1..Len(todo_) :
                      Range(todo_[i].inherited) \subseteq Above[todo_[i].router]

(* What its context holds. *)
Scoped(T) ==
    /\ Sound(T.todo)
    /\ Range(T.around) \subseteq Above[T.at]
    /\ T.pc \in {"candidates", "frame", "body", "unwind"} =>
          T.seen \subseteq BaseKeys \cup {"context", T.at}
    /\ T.pc \in {"frame", "body", "unwind"} =>
          T.data \subseteq BaseKeys \cup {"context", T.at, T.handler} \cup Range(T.around)
    /\ T.pc = "frame" => \A i \in 1..(T.depth - 1) : T.around[i] \in T.data
    /\ T.pc = "unwind" => \A i \in 1..T.depth : T.around[i] \in T.data
    /\ T.pc = "body" => Range(T.around) \subseteq T.data

Fits(T) == Typed(T) /\ Honest(T) /\ Scoped(T)

(* A router is among the children of its parent only. *)
TreeInv ==
    /\ parent \in [Routers -> Routers \cup {NoRouter}]
    /\ children \in [Routers -> Seq(Routers)]
    /\ handlers \in [Routers -> [Observers -> Seq(Handlers)]]
    /\ middleware \in [Routers -> Seq(Middlewares)]
    /\ \A r \in Routers : \A i \in 1..Len(children[r]) : parent[children[r][i]] = r

TurnsInv == DOMAIN turn = Turns /\ \A t \in Turns : Fits(turn[t])

(* The fields that the invariants read. *)
Read == {"pc", "kind", "pass", "left", "todo", "at", "around", "candidates", "handler", "depth",
         "seen", "data", "out", "failure", "answer", "raises", "done", "meddled"}

(* U differs from T in what `change` has. *)
Differs(T, U, change) ==
    /\ DOMAIN U = DOMAIN Idle
    /\ \A f \in DOMAIN Idle : U[f] = IF f \in DOMAIN change THEN change[f] ELSE T[f]

(* U is as T in what is read, F aside. *)
SameBut(T, U, F) == DOMAIN U = DOMAIN Idle /\ \A f \in Read \ F : U[f] = T[f]

LEMMA Changed ==
    ASSUME NEW T, NEW change, DOMAIN T = DOMAIN Idle, DOMAIN change \subseteq DOMAIN Idle
    PROVE  Differs(T, Over(change, T), change)
BY DEF Over, Differs

LEMMA Becoming ==
    ASSUME TurnsInv, NEW t \in Turns, NEW change, DOMAIN change \subseteq DOMAIN Idle,
           Become(t, change)
    PROVE  /\ Differs(turn[t], turn'[t], change)
           /\ DOMAIN turn' = Turns
           /\ \A u \in Turns : u # t => turn'[u] = turn[u]
           /\ UNCHANGED <<tree, current>>
<1>1. DOMAIN turn[t] = DOMAIN Idle
    BY DEF TurnsInv, Fits, Typed
<1>2. turn'[t] = Over(change, turn[t])
    BY DEF Become, TurnsInv
<1> QED
    BY <1>1, <1>2, Changed DEF Become, TurnsInv

(* What a change says, and what it leaves alone.                            *)
LEMMA Given ==
    ASSUME NEW T, NEW U, NEW c, Differs(T, U, c), DOMAIN c \subseteq DOMAIN Idle
    PROVE  /\ \A f \in DOMAIN c : U[f] = c[f]
           /\ \A F : Read \cap DOMAIN c \subseteq F => SameBut(T, U, F)
<1>1. Read \subseteq DOMAIN Idle
    BY DEF Read, Idle
<1> QED
    BY <1>1 DEF Differs, SameBut

-----------------------------------------------------------------------------
(* Middlewares above a router. *)

LEMMA OwnAbove == ASSUME NEW r \in Routers PROVE Range(middleware[r]) \subseteq Above[r]
BY DEF Above, Path

LEMMA ParentAbove ==
    ASSUME NEW r \in Routers, NEW p \in Routers, parent[r] = p
    PROVE  Above[p] \subseteq Above[r]
<1>1. Path(p) \subseteq Path(r)
    BY DEF Path
<1> QED
    BY <1>1 DEF Above

LEMMA BothRanges ==
    ASSUME NEW S, NEW a \in Seq(S), NEW b \in Seq(S)
    PROVE  /\ a \o b \in Seq(S) /\ Len(a \o b) = Len(a) + Len(b)
           /\ Range(a \o b) = Range(a) \cup Range(b)
<1>1. a \o b \in Seq(S) /\ Len(a \o b) = Len(a) + Len(b)
    OBVIOUS
<1>2. \A i \in 1..Len(a) : (a \o b)[i] = a[i]
    OBVIOUS
<1>3. \A i \in 1..Len(b) : (a \o b)[Len(a) + i] = b[i]
    OBVIOUS
<1>4. \A i \in 1..(Len(a) + Len(b)) : i \in 1..Len(a) \/ \E j \in 1..Len(b) : i = Len(a) + j
  <2> SUFFICES ASSUME NEW i \in 1..(Len(a) + Len(b)), i \notin 1..Len(a)
               PROVE  \E j \in 1..Len(b) : i = Len(a) + j
      OBVIOUS
  <2>1. i - Len(a) \in 1..Len(b) /\ i = Len(a) + (i - Len(a))
      OBVIOUS
  <2> QED
      BY <2>1
<1>5. \A j \in 1..Len(b) : Len(a) + j \in 1..(Len(a) + Len(b))
    OBVIOUS
<1>6. /\ DOMAIN a = 1..Len(a) /\ DOMAIN b = 1..Len(b)
      /\ DOMAIN (a \o b) = 1..(Len(a) + Len(b))
    BY <1>1
<1>7. \A i \in 1..Len(a) : i \in 1..(Len(a) + Len(b))
    OBVIOUS
<1> HIDE DEF Range
<1> DEFINE c == a \o b
<1>8. Range(c) = Range(a) \cup Range(b)
  <2> HIDE DEF c
  <2>1. /\ \A i \in 1..Len(a) : c[i] = a[i]
        /\ \A i \in 1..Len(b) : c[Len(a) + i] = b[i]
        /\ DOMAIN c = 1..(Len(a) + Len(b))
      BY <1>2, <1>3, <1>6 DEF c
  <2>2. ASSUME NEW x \in Range(c) PROVE x \in Range(a) \cup Range(b)
    <3>1. PICK i \in 1..(Len(a) + Len(b)) : x = c[i]
        BY <2>1, <2>2 DEF Range
    <3>2. CASE i \in 1..Len(a)
        BY <3>1, <3>2, <2>1, <1>6 DEF Range
    <3>3. ASSUME NEW j \in 1..Len(b), i = Len(a) + j PROVE x \in Range(b)
        BY <3>1, <3>3, <2>1, <1>6 DEF Range
    <3> QED
        BY <3>2, <3>3, <1>4
  <2>3. ASSUME NEW x \in Range(a) PROVE x \in Range(c)
      BY <2>1, <2>3, <1>6, <1>7 DEF Range
  <2>4. ASSUME NEW x \in Range(b) PROVE x \in Range(c)
      BY <2>1, <2>4, <1>5, <1>6 DEF Range
  <2> QED
      BY <2>2, <2>3, <2>4
<1> QED
    BY <1>1, <1>8 DEF c

(* What the walk finds below a router is sound if the router's is.          *)
LEMMA BelowSound ==
    ASSUME TreeInv, NEW r \in Routers, NEW items \in Seq(Middlewares),
           Range(items) \subseteq Above[r], NEW rest, Sound(rest)
    PROVE  Sound(Below(r, items) \o rest)
<1> DEFINE b == Below(r, items)
<1>1. children[r] \in Seq(Routers)
    BY DEF TreeInv
<1>2. Len(children[r]) \in Nat /\ \A i \in 1..Len(children[r]) : children[r][i] \in Routers
    BY <1>1
<1>3. b = [i \in 1..Len(children[r]) |-> [router |-> children[r][i], inherited |-> items]]
    BY DEF Below
<1>4. \A i \in 1..Len(children[r]) : b[i] \in Entries
    BY <1>2, <1>3 DEF Entries
<1>5. b \in Seq(Entries) /\ Len(b) = Len(children[r])
  <2> HIDE DEF b
  <2>1. b \in [1..Len(children[r]) -> Entries]
      BY <1>3, <1>4
  <2> QED
      BY <2>1, <1>2
<1>6. \A i \in 1..Len(b) : Range(b[i].inherited) \subseteq Above[b[i].router]
  <2> SUFFICES ASSUME NEW i \in 1..Len(b) PROVE Range(b[i].inherited) \subseteq Above[b[i].router]
      OBVIOUS
  <2>1. b[i].inherited = items /\ b[i].router = children[r][i]
      BY <1>3, <1>5
  <2>2. children[r][i] \in Routers /\ parent[children[r][i]] = r
      BY <1>2, <1>5 DEF TreeInv
  <2>3. Above[r] \subseteq Above[children[r][i]]
      BY <2>2, ParentAbove
  <2> QED
      BY <2>1, <2>3
<1> HIDE DEF b
<1>7. rest \in Seq(Entries)
    BY DEF Sound
<1> DEFINE c == b \o rest
<1>8. c \in Seq(Entries) /\ Len(c) = Len(b) + Len(rest)
    BY <1>5, <1>7
<1>9. \A i \in 1..Len(c) : c[i] = IF i <= Len(b) THEN b[i] ELSE rest[i - Len(b)]
    BY <1>5, <1>7
<1>10. ASSUME NEW i \in 1..Len(c) PROVE Range(c[i].inherited) \subseteq Above[c[i].router]
  <2> HIDE DEF c
  <2>1. CASE i <= Len(b)
    <3>1. i \in 1..Len(b) /\ c[i] = b[i]
        BY <2>1, <1>5, <1>9
    <3> QED
        BY <3>1, <1>6
  <2>2. CASE ~(i <= Len(b))
    <3>1. i - Len(b) \in 1..Len(rest) /\ c[i] = rest[i - Len(b)]
        BY <2>2, <1>5, <1>7, <1>8, <1>9
    <3> QED
        BY <3>1 DEF Sound
  <2> QED
      BY <2>1, <2>2
<1> QED
    BY <1>8, <1>10 DEF Sound, c, b

LEMMA StartSound == Sound(WalkStart)
<1>1. Root \in Routers
    BY TreeAssumption
<1>2. WalkStart \in Seq(Entries) /\ Len(WalkStart) = 1 /\ WalkStart[1].inherited = <<>>
    BY <1>1 DEF WalkStart, Entries
<1>3. \A i \in 1..1 : i = 1
    OBVIOUS
<1>4. Range(<<>>) = {}
    BY DEF Range
<1> QED
    BY <1>2, <1>3, <1>4 DEF Sound

(* The next entry of the walk, with the middlewares around its handlers.   *)
LEMMA HeadSound ==
    ASSUME TreeInv, NEW todo_, Sound(todo_), todo_ # <<>>
    PROVE  /\ Head(todo_).router \in Routers
           /\ Around(Head(todo_)) \in Seq(Middlewares)
           /\ Range(Around(Head(todo_))) \subseteq Above[Head(todo_).router]
           /\ Sound(Tail(todo_))
<1> DEFINE e == Head(todo_)
<1>1. e \in Entries /\ Len(todo_) \in Nat /\ Len(todo_) > 0 /\ e = todo_[1]
    BY DEF Sound
<1>2. e.router \in Routers /\ e.inherited \in Seq(Middlewares)
    BY <1>1 DEF Entries
<1>3. Range(e.inherited) \subseteq Above[e.router]
    BY <1>1 DEF Sound
<1>4. middleware[e.router] \in Seq(Middlewares)
    BY <1>2 DEF TreeInv
<1>5. Sound(Tail(todo_))
  <2>1. Tail(todo_) \in Seq(Entries) /\ Len(Tail(todo_)) = Len(todo_) - 1
      BY <1>1 DEF Sound
  <2>2. \A i \in 1..Len(Tail(todo_)) : Tail(todo_)[i] = todo_[i + 1] /\ i + 1 \in 1..Len(todo_)
      BY <2>1, <1>1 DEF Sound
  <2> QED
      BY <2>1, <2>2 DEF Sound
<1> HIDE DEF e
<1>6. /\ Around(e) \in Seq(Middlewares)
      /\ Range(Around(e)) = Range(e.inherited) \cup Range(middleware[e.router])
    BY <1>2, <1>4, BothRanges DEF Around
<1>7. Range(Around(e)) \subseteq Above[e.router]
    BY <1>2, <1>3, <1>6, OwnAbove
<1> QED
    BY <1>2, <1>5, <1>6, <1>7 DEF e

-----------------------------------------------------------------------------
(* What the invariants of one turn are worth after a change of its record. *)

UnderWay == {"select", "walk", "filters", "candidates", "frame", "body", "unwind"}

(* No handler's result is on its way to the caller. *)
Open(T) == T.pc \in UnderWay /\ ~(T.pc = "unwind" /\ T.out = "result")

(* Out of the dispatcher without an answer. *)
LEMMA EndsFit ==
    ASSUME NEW T, NEW U, Fits(T), Open(T),
           SameBut(T, U, {"pc", "raises", "candidates"}), U.pc = "finally",
           U.candidates \in Seq(Handlers), T.failure # "none" => U.raises = TRUE,
           U.raises \in BOOLEAN
    PROVE  Fits(U)
<1> USE DEF Fits, SameBut, Read, UnderWay, Open
<1>1. Typed(U)
    BY DEF Typed
<1>2. Honest(U)
    BY DEF Honest
<1>3. Scoped(U)
    BY DEF Scoped
<1> QED
    BY <1>1, <1>2, <1>3

(* To the error observers. *)
LEMMA ErrorsFit ==
    ASSUME NEW T, NEW U, Fits(T), Open(T), T.kind # "workspace",
           SameBut(T, U, {"pc", "failure", "left", "answer", "candidates"}), U.pc = "select",
           U.left = <<"error">>, U.answer = NoHandler, U.candidates \in Seq(Handlers)
    PROVE  Fits(U)
<1> USE DEF Fits, SameBut, Read, UnderWay, Open
<1>1. Typed(U)
  <2>1. <<"error">> \in Seq(Observers)
      BY KindsAssumption
  <2> QED
      BY <2>1 DEF Typed
<1>2. Honest(U)
    BY DEF Honest
<1>3. Scoped(U)
    BY DEF Scoped
<1> QED
    BY <1>1, <1>2, <1>3

(* On with the walk, or to the next observer. *)
LEMMA WalksFit ==
    ASSUME NEW T, NEW U, Fits(T), Open(T),
           SameBut(T, U, {"pc", "todo", "handler", "data", "seen", "candidates"}),
           U.pc = "select" \/ (U.pc = "walk" /\ U.pass \in Observers),
           Sound(U.todo), U.candidates \in Seq(Handlers)
    PROVE  Fits(U)
<1> USE DEF Fits, SameBut, Read, UnderWay, Open
<1>1. Typed(U)
    BY DEF Typed
<1>2. Honest(U)
    BY DEF Honest
<1>3. Scoped(U)
    BY DEF Scoped
<1> QED
    BY <1>1, <1>2, <1>3

(* At a router that has handlers. *)
LEMMA ReachesFit ==
    ASSUME NEW T, NEW U, Fits(T), Open(T), T.pc = "walk",
           SameBut(T, U, {"pc", "todo", "at", "around", "candidates", "data", "seen"}),
           \/ U.pc = "filters"
           \/ U.pc = "candidates" /\ U.seen \subseteq BaseKeys \cup {"context", U.at},
           Sound(U.todo), U.candidates \in Seq(Handlers), U.at \in Routers,
           U.around \in Seq(Middlewares), Range(U.around) \subseteq Above[U.at]
    PROVE  Fits(U)
<1> USE DEF Fits, SameBut, Read, UnderWay, Open
<1>1. Typed(U)
    BY DEF Typed
<1>2. Honest(U)
    BY DEF Honest
<1>3. Scoped(U)
    BY DEF Scoped
<1> QED
    BY <1>1, <1>2, <1>3

(* Past the filters of the router, or back for another candidate. *)
LEMMA CandidatesFit ==
    ASSUME NEW T, NEW U, Fits(T), Open(T), T.pc \notin {"select", "walk"},
           SameBut(T, U, {"pc", "seen", "candidates", "handler", "data", "depth", "out"}),
           U.pc = "candidates", U.candidates \in Seq(Handlers),
           U.seen \subseteq BaseKeys \cup {"context", T.at}
    PROVE  Fits(U)
<1> USE DEF Fits, SameBut, Read, UnderWay, Open
<1>1. Typed(U)
    BY DEF Typed
<1>2. Honest(U)
    BY DEF Honest
<1>3. Scoped(U)
    BY DEF Scoped
<1> QED
    BY <1>1, <1>2, <1>3

(* A candidate whose filters agreed: into the outermost frame. *)
LEMMA ChosenFits ==
    ASSUME NEW T, NEW U, Fits(T), T.pc = "candidates",
           SameBut(T, U, {"pc", "candidates", "handler", "depth", "data"}),
           U.pc = "frame", U.candidates \in Seq(Handlers), U.handler \in Handlers,
           U.depth = 1, U.data \subseteq T.seen \cup BaseKeys \cup {"context", U.handler}
    PROVE  Fits(U)
<1> USE DEF Fits, SameBut, Read, UnderWay, Open
<1>0. T.around \in Seq(Middlewares) /\ U.around = T.around /\ Len(T.around) \in Nat
    BY DEF Typed
<1>1. Typed(U)
    BY <1>0 DEF Typed
<1>2. Honest(U)
    BY DEF Honest
<1>3. Scoped(U)
    BY <1>0 DEF Scoped
<1> QED
    BY <1>1, <1>2, <1>3

(* Between the frames: a frame was entered, or is left with an outcome. *)
LEMMA FramesFit ==
    ASSUME NEW T, NEW U, Fits(T), T.pc \in {"frame", "body", "unwind"},
           SameBut(T, U, {"pc", "depth", "data", "out", "done", "meddled"}),
           T.data \subseteq U.data, U.data \subseteq T.data \cup Range(T.around),
           \/ /\ U.pc = "frame" /\ U.depth \in 1..(Len(T.around) + 1)
              /\ \A i \in 1..(U.depth - 1) : T.around[i] \in U.data
           \/ /\ U.pc = "unwind" /\ U.out \in Outcomes /\ U.depth \in 0..Len(T.around)
              /\ \A i \in 1..U.depth : T.around[i] \in U.data
           \/ U.pc = "body" /\ Range(T.around) \subseteq U.data,
           U.meddled = TRUE \/ (U.meddled = T.meddled /\
              U.done = IF U.pc = "unwind" /\ U.out = "result" THEN {U.handler} ELSE {})
    PROVE  Fits(U)
<1> USE DEF Fits, SameBut, Read, UnderWay, Open
<1>1. Typed(U)
    BY DEF Typed
<1>2. Honest(U)
    BY DEF Honest
<1>3. Scoped(U)
    BY DEF Scoped
<1> QED
    BY <1>1, <1>2, <1>3

(* A turn that ends with the result of a handler. *)
LEMMA AnswersFit ==
    ASSUME NEW T, NEW U, Fits(T), T.pc = "unwind", T.out = "result",
           SameBut(T, U, {"pc", "answer"}), U.pc = "finally", U.answer = T.handler
    PROVE  Fits(U)
<1> USE DEF Fits, SameBut, Read, UnderWay, Open
<1>0. T.handler \in Handlers /\ T.handler # NoHandler
    BY HandlersAssumption DEF Typed
<1>1. Typed(U)
    BY DEF Typed
<1>2. Honest(U)
    BY <1>0 DEF Honest
<1>3. Scoped(U)
    BY DEF Scoped
<1> QED
    BY <1>1, <1>2, <1>3

LEMMA IdleFits == Fits(Idle)
<1>1. Typed(Idle)
    BY TreeAssumption DEF Idle, Typed
<1>2. Honest(Idle)
    BY DEF Idle, Honest
<1>3. Scoped(Idle)
  <2>1. Range(<<>>) = {} /\ <<>> \in Seq(Entries) /\ Len(<<>>) = 0
      BY DEF Range
  <2>2. \A i \in 1..0 : FALSE
      OBVIOUS
  <2> QED
      BY <2>1, <2>2 DEF Idle, Scoped, Sound
<1> QED
    BY <1>1, <1>2, <1>3 DEF Fits

-----------------------------------------------------------------------------
(* The steps. *)

(* A change made of two. *)
LEMMA Twice ==
    ASSUME NEW T, NEW U, NEW a, NEW b, Differs(T, U, Over(a, b))
    PROVE  \A f \in DOMAIN Idle : U[f] = IF f \in DOMAIN a THEN a[f]
                                         ELSE IF f \in DOMAIN b THEN b[f] ELSE T[f]
BY DEF Differs, Over

(* What a turn becomes when an event has been offered to one more handler. *)
Offering(T, U, rest, c) ==
    /\ DOMAIN U = DOMAIN Idle
    /\ U.candidates = rest
    /\ \A f \in Read \ {"candidates"} : U[f] = IF f \in DOMAIN c THEN c[f] ELSE T[f]

(* An exception of the routing, with or without a change of what is left   *)
(* to be asked.                                                            *)
LEMMA FailedFits ==
    ASSUME NEW t \in Turns, NEW U, NEW stage, Fits(turn[t]), Open(turn[t]),
           turn[t].kind # "workspace", NEW rest \in Seq(Handlers),
           Offering(turn[t], U, rest, Failed(t, stage))
    PROVE  Fits(U)
<1> DEFINE T == turn[t]
<1>1. CASE T.failure = "none"
  <2>1. Failed(t, stage) = [pc |-> "select", failure |-> stage, left |-> <<"error">>,
                            answer |-> NoHandler]
      BY <1>1 DEF Failed
  <2>2. /\ SameBut(T, U, {"pc", "failure", "left", "answer", "candidates"}) /\ U.pc = "select"
        /\ U.left = <<"error">> /\ U.answer = NoHandler /\ U.candidates = rest
      BY <2>1 DEF Offering, SameBut, Read
  <2> QED
      BY <2>2, ErrorsFit
<1>2. CASE T.failure # "none"
  <2>1. Failed(t, stage) = [pc |-> "finally", raises |-> TRUE]
      BY <1>2 DEF Failed
  <2>2. /\ SameBut(T, U, {"pc", "raises", "candidates"}) /\ U.pc = "finally"
        /\ U.raises = TRUE /\ U.candidates = rest
      BY <2>1 DEF Offering, SameBut, Read
  <2> QED
      BY <2>2, EndsFit
<1> QED
    BY <1>1, <1>2

LEMMA StoppedFits ==
    ASSUME NEW t \in Turns, NEW U, Fits(turn[t]), Open(turn[t]), NEW rest \in Seq(Handlers),
           Offering(turn[t], U, rest, Stopped(t))
    PROVE  Fits(U)
<1> DEFINE T == turn[t]
<1>1. Stopped(t) = [pc |-> "finally", raises |-> turn[t].failure # "none"]
    BY DEF Stopped
<1>2. /\ SameBut(T, U, {"pc", "raises", "candidates"}) /\ U.pc = "finally"
      /\ U.raises = (T.failure # "none") /\ U.candidates = rest
    BY <1>1 DEF Offering, SameBut, Read
<1> QED
    BY <1>2, EndsFit

LEMMA NextCandidateFits ==
    ASSUME NEW t \in Turns, NEW U, Fits(turn[t]), Open(turn[t]), NEW rest \in Seq(Handlers),
           turn[t].pc \in {"candidates", "unwind"}, Offering(turn[t], U, rest, NextCandidate(t))
    PROVE  Fits(U)
<1> DEFINE T == turn[t]
<1>1. NextCandidate(t) = [pc |-> "candidates", handler |-> NoHandler, data |-> {}, depth |-> 0,
                          out |-> "none", stage |-> "unknown"]
    BY DEF NextCandidate
<1>2. /\ SameBut(T, U, {"pc", "seen", "candidates", "handler", "data", "depth", "out"})
      /\ U.pc = "candidates" /\ U.candidates = rest /\ U.seen = T.seen
    BY <1>1 DEF Offering, SameBut, Read
<1>3. T.seen \subseteq BaseKeys \cup {"context", T.at}
    BY DEF Fits, Scoped
<1> QED
    BY <1>2, <1>3, CandidatesFit

LEMMA OnwardFits ==
    ASSUME NEW t \in Turns, NEW U, TreeInv, Fits(turn[t]),
           turn[t].pc \in {"filters", "candidates"},
           NEW rest, Offering(turn[t], U, rest, Onward(t)), rest = <<>>
    PROVE  Fits(U)
<1> DEFINE T == turn[t]
           below == Below(T.at, T.around) \o T.todo
<1>1. Onward(t) = [pc |-> "walk", todo |-> below, handler |-> NoHandler, data |-> {},
                   seen |-> {}, candidates |-> <<>>]
    BY DEF Onward
<1>2. Sound(below)
    BY BelowSound DEF Fits, Typed, Scoped
<1> HIDE DEF below
<1>3. /\ SameBut(T, U, {"pc", "todo", "handler", "data", "seen", "candidates"})
      /\ U.pc = "walk" /\ U.todo = below /\ U.candidates = <<>> /\ U.pass = T.pass
    BY <1>1 DEF Offering, SameBut, Read
<1>4. T.pass \in Observers /\ <<>> \in Seq(Handlers) /\ Open(T)
    BY DEF Fits, Typed, Open, UnderWay
<1> QED
    BY <1>2, <1>3, <1>4, WalksFit

LEMMA Offered ==
    ASSUME NEW T, NEW U, NEW c, DOMAIN U = DOMAIN Idle
    PROVE  /\ Differs(T, U, c) /\ "candidates" \notin DOMAIN c
                => Offering(T, U, T.candidates, c)
           /\ Differs(T, U, c) /\ "candidates" \in DOMAIN c
                => Offering(T, U, c.candidates, c)
           /\ \A rest, offered :
                 Differs(T, U, Over([candidates |-> rest, offered |-> offered], c))
                     => Offering(T, U, rest, c)
<1>1. Read \subseteq DOMAIN Idle /\ "candidates" \in DOMAIN Idle
    BY DEF Read, Idle
<1>2. Differs(T, U, c) /\ "candidates" \notin DOMAIN c => Offering(T, U, T.candidates, c)
    BY <1>1 DEF Differs, Offering
<1>3. Differs(T, U, c) /\ "candidates" \in DOMAIN c => Offering(T, U, c.candidates, c)
    BY <1>1 DEF Differs, Offering
<1>4. ASSUME NEW rest, NEW offered,
             Differs(T, U, Over([candidates |-> rest, offered |-> offered], c))
      PROVE  Offering(T, U, rest, c)
  <2> DEFINE a == [candidates |-> rest, offered |-> offered]
  <2>1. \A f \in DOMAIN Idle : U[f] = IF f \in DOMAIN a THEN a[f]
                                      ELSE IF f \in DOMAIN c THEN c[f] ELSE T[f]
      BY <1>4, Twice
  <2>2. U.candidates = rest
      BY <2>1, <1>1
  <2>3. "offered" \notin Read
      BY DEF Read
  <2>4. \A f \in Read \ {"candidates"} : U[f] = IF f \in DOMAIN c THEN c[f] ELSE T[f]
      BY <2>1, <2>3, <1>1
  <2> QED
      BY <2>2, <2>4 DEF Offering
<1> QED
    BY <1>2, <1>3, <1>4

-----------------------------------------------------------------------------
(* The steps of a turn, one by one. *)

LEMMA SelectFits ==
    ASSUME TurnsInv, NEW t \in Turns, Select(t)
    PROVE  Fits(turn'[t])
<1> DEFINE T == turn[t]
           U == turn'[t]
           pass == Head(T.left)
           change == [pc |-> "walk", pass |-> pass, left |-> Tail(T.left),
                      todo |-> WalkStart, roster |-> Registered(pass),
                      offered |-> <<>>, declined |-> {}]
<1>1. T.pc = "select" /\ T.left # <<>> /\ Become(t, change) /\ Fits(T)
    BY DEF Select, TurnsInv
<1>2. pass \in Observers /\ Tail(T.left) \in Seq(Observers)
    BY <1>1 DEF Fits, Typed
<1> HIDE DEF pass
<1>3. Differs(T, U, change)
    BY <1>1, Becoming DEF Idle
<1>4. /\ SameBut(T, U, {"pc", "pass", "left", "todo"}) /\ U.pc = "walk" /\ U.pass = pass
      /\ U.left = Tail(T.left) /\ U.todo = WalkStart
  <2>1. DOMAIN change \subseteq DOMAIN Idle
      BY DEF Idle
  <2>2. Read \cap DOMAIN change \subseteq {"pc", "pass", "left", "todo"}
      BY DEF Read
  <2>3. /\ {"pc", "pass", "left", "todo"} \subseteq DOMAIN change
        /\ change.pc = "walk" /\ change.pass = pass /\ change.left = Tail(T.left)
        /\ change.todo = WalkStart
      OBVIOUS
  <2> HIDE DEF change
  <2>4. SameBut(T, U, {"pc", "pass", "left", "todo"})
      BY <1>3, <2>1, <2>2, Given
  <2>5. \A f \in DOMAIN change : U[f] = change[f]
      BY <1>3, <2>1, Given
  <2> QED
      BY <2>3, <2>4, <2>5
<1> HIDE DEF T, U
<1>5. Typed(U) /\ Honest(U) /\ Scoped(U)
  <2> USE <1>1, <1>2, <1>4 DEF Fits, SameBut, Read
  <2>1. Typed(U)
      BY DEF Typed
  <2>2. Honest(U)
      BY DEF Honest
  <2>3. Scoped(U)
      BY StartSound DEF Scoped
  <2> QED
      BY <2>1, <2>2, <2>3
<1> QED
    BY <1>5 DEF Fits, U

LEMMA UnmatchedFits ==
    ASSUME TurnsInv, NEW t \in Turns, Unmatched(t), turn[t].kind # "workspace"
    PROVE  Fits(turn'[t])
<1> DEFINE T == turn[t]
           U == turn'[t]
<1>1. T.pc = "select" /\ Fits(T) /\ Open(T) /\ T.candidates \in Seq(Handlers)
    BY DEF Unmatched, TurnsInv, Open, UnderWay, Fits, Typed
<1>2. CASE T.failure # "none"
  <2>1. Become(t, [pc |-> "finally", raises |-> TRUE])
      BY <1>2 DEF Unmatched
  <2>2. Differs(T, U, [pc |-> "finally", raises |-> TRUE])
      BY <2>1, Becoming DEF Idle
  <2>3. /\ SameBut(T, U, {"pc", "raises", "candidates"}) /\ U.pc = "finally"
        /\ U.raises = TRUE /\ U.candidates = T.candidates
      BY <2>2 DEF Differs, SameBut, Read, Idle
  <2> QED
      BY <2>3, <1>1, EndsFit
<1>3. CASE T.failure = "none" /\ Become(t, Failed(t, "unknown"))
  <2>1. DOMAIN Failed(t, "unknown") \subseteq DOMAIN Idle
        /\ "candidates" \notin DOMAIN Failed(t, "unknown")
      BY DEF Failed, Idle
  <2>2. Differs(T, U, Failed(t, "unknown"))
      BY <1>3, <2>1, Becoming
  <2>3. Offering(T, U, T.candidates, Failed(t, "unknown"))
      BY <2>1, <2>2, Offered DEF Differs
  <2> QED
      BY <2>3, <1>1, FailedFits
<1>4. CASE T.failure = "none" /\ Become(t, [pc |-> "finally"])
  <2>2. Differs(T, U, [pc |-> "finally"])
      BY <1>4, Becoming DEF Idle
  <2>3. SameBut(T, U, {"pc", "raises", "candidates"}) /\ U.pc = "finally" /\ U.candidates = T.candidates
        /\ U.raises = T.raises
      BY <2>2 DEF Differs, SameBut, Read, Idle
  <2>4. T.raises \in BOOLEAN
      BY <1>1 DEF Fits, Typed
  <2> QED
      BY <2>3, <2>4, <1>1, <1>4, EndsFit
<1> QED
    BY <1>2, <1>3, <1>4 DEF Unmatched

LEMMA WalkFits ==
    ASSUME TreeInv, TurnsInv, NEW t \in Turns, Walk(t)
    PROVE  Fits(turn'[t])
<1> DEFINE T == turn[t]
           U == turn'[t]
           entry == Head(T.todo)
           around == Around(entry)
           found == handlers[entry.router][T.pass]
           below == Below(entry.router, around) \o Tail(T.todo)
<1>1. T.pc = "walk" /\ Fits(T) /\ Open(T) /\ T.candidates \in Seq(Handlers) /\ Sound(T.todo)
      /\ T.pass \in Observers
    BY DEF Walk, TurnsInv, Open, UnderWay, Fits, Typed, Scoped
<1>2. CASE T.todo = <<>>
  <2>1. Become(t, [pc |-> "select"])
      BY <1>2 DEF Walk
  <2>2. Differs(T, U, [pc |-> "select"])
      BY <2>1, Becoming DEF Idle
  <2>3. SameBut(T, U, {"pc"}) /\ U.pc = "select"
      BY <2>2 DEF Differs, SameBut, Read, Idle
  <2>4. /\ SameBut(T, U, {"pc", "todo", "handler", "data", "seen", "candidates"})
        /\ U.todo = T.todo /\ U.candidates = T.candidates
      BY <2>3 DEF SameBut, Read
  <2> QED
      BY <2>3, <2>4, <1>1, WalksFit
<1>3. CASE T.todo # <<>>
  <2>1. /\ entry.router \in Routers /\ around \in Seq(Middlewares)
        /\ Range(around) \subseteq Above[entry.router] /\ Sound(Tail(T.todo))
      BY <1>1, <1>3, HeadSound
  <2>2. found \in Seq(Handlers)
      BY <1>1, <2>1 DEF TreeInv
  <2>3. Sound(below)
      BY <2>1, BelowSound
  <2> DEFINE change == [pc |-> "filters", todo |-> Tail(T.todo), at |-> entry.router,
                        around |-> around, candidates |-> found, data |-> {}]
  <2>4. \/ found = <<>> /\ Become(t, [todo |-> below])
        \/ Become(t, change)
      BY <1>3 DEF Walk
  <2> HIDE DEF entry, around, found, below
  <2>5. CASE Become(t, [todo |-> below])
    <3>1. Differs(T, U, [todo |-> below])
        BY <2>5, Becoming DEF Idle
    <3>2. SameBut(T, U, {"todo"}) /\ U.todo = below
        BY <3>1 DEF Differs, SameBut, Read, Idle
    <3>3. /\ SameBut(T, U, {"pc", "todo", "handler", "data", "seen", "candidates"})
          /\ U.candidates = T.candidates /\ U.pc = T.pc /\ U.pass = T.pass
        BY <3>2 DEF SameBut, Read
    <3> QED
        BY <3>2, <3>3, <1>1, <2>3, WalksFit
  <2>6. CASE Become(t, change)
    <3>1. Differs(T, U, change)
        BY <2>6, Becoming DEF Idle
    <3>2. /\ SameBut(T, U, {"pc", "todo", "at", "around", "candidates", "data", "seen"})
          /\ U.pc = "filters" /\ U.todo = Tail(T.todo) /\ U.at = entry.router
          /\ U.around = around /\ U.candidates = found
      <4>1. DOMAIN change \subseteq DOMAIN Idle
          BY DEF Idle
      <4>2. Read \cap DOMAIN change
              \subseteq {"pc", "todo", "at", "around", "candidates", "data", "seen"}
          BY DEF Read
      <4>3. /\ {"pc", "todo", "at", "around", "candidates"} \subseteq DOMAIN change
            /\ change.pc = "filters" /\ change.todo = Tail(T.todo) /\ change.at = entry.router
            /\ change.around = around /\ change.candidates = found
          OBVIOUS
      <4> HIDE DEF change
      <4>4. SameBut(T, U, {"pc", "todo", "at", "around", "candidates", "data", "seen"})
          BY <3>1, <4>1, <4>2, Given
      <4>5. \A f \in DOMAIN change : U[f] = change[f]
          BY <3>1, <4>1, Given
      <4> QED
          BY <4>3, <4>4, <4>5
    <3> QED
        BY <3>2, <1>1, <2>1, <2>2, ReachesFit
  <2> QED
      BY <2>4, <2>5, <2>6
<1> QED
    BY <1>2, <1>3

LEMMA ExhaustedFits ==
    ASSUME TreeInv, TurnsInv, NEW t \in Turns, Exhausted(t)
    PROVE  Fits(turn'[t])
<1>1. Become(t, Onward(t)) /\ turn[t].pc = "candidates" /\ Fits(turn[t])
    BY DEF Exhausted, TurnsInv
<1>2. DOMAIN Onward(t) \subseteq DOMAIN Idle /\ Onward(t).candidates = <<>>
      /\ "candidates" \in DOMAIN Onward(t)
    BY DEF Onward, Idle
<1>3. Differs(turn[t], turn'[t], Onward(t))
    BY <1>1, <1>2, Becoming
<1>4. Offering(turn[t], turn'[t], <<>>, Onward(t))
    BY <1>2, <1>3, Offered DEF Differs
<1> QED
    BY <1>1, <1>4, OnwardFits

LEMMA ObserverFiltersFit ==
    ASSUME TreeInv, TurnsInv, NEW t \in Turns, NEW out,
           NEW keys \in Added(turn[t].at), ObserverFilters(t, out, keys),
           turn[t].kind # "workspace"
    PROVE  Fits(turn'[t])
<1> DEFINE T == turn[t]
           U == turn'[t]
<1>1. T.pc = "filters" /\ Fits(T) /\ Open(T) /\ T.candidates \in Seq(Handlers)
    BY DEF ObserverFilters, TurnsInv, Open, UnderWay, Fits, Typed
<1>2. out \in {"no", "skip", "stop", "error", "yes"}
    BY DEF ObserverFilters, Filters
<1>3. CASE out = "yes"
  <2> DEFINE change == [pc |-> "candidates", seen |-> BaseKeys \cup keys]
  <2>1. Become(t, change)
      BY <1>3 DEF ObserverFilters
  <2>2. keys \subseteq {"bot", T.at} /\ "bot" \in BaseKeys
      BY KindsAssumption DEF Added
  <2>3. Differs(T, U, change)
      BY <2>1, Becoming DEF Idle
  <2>4. /\ SameBut(T, U, {"pc", "seen", "candidates", "handler", "data", "depth", "out"})
        /\ U.pc = "candidates" /\ U.candidates = T.candidates /\ U.seen = BaseKeys \cup keys
      BY <2>3 DEF Differs, SameBut, Read, Idle
  <2>5. U.seen \subseteq BaseKeys \cup {"context", T.at}
      BY <2>2, <2>4
  <2> QED
      BY <1>1, <2>4, <2>5, CandidatesFit
<1>4. CASE out \in {"no", "skip"}
  <2> DEFINE mark == [declined |-> T.declined \cup {T.at}]
  <2>1. Become(t, Over(mark, Onward(t)))
      BY <1>4 DEF ObserverFilters
  <2>2. DOMAIN Over(mark, Onward(t)) \subseteq DOMAIN Idle
      BY DEF Over, Onward, Idle
  <2>3. Differs(T, U, Over(mark, Onward(t)))
      BY <2>1, <2>2, Becoming
  <2>4. \A f \in DOMAIN Idle : U[f] = IF f \in DOMAIN mark THEN mark[f]
                                      ELSE IF f \in DOMAIN Onward(t) THEN Onward(t)[f] ELSE T[f]
      BY <2>3, Twice
  <2>5. /\ Onward(t).candidates = <<>> /\ "candidates" \in DOMAIN Onward(t)
        /\ "candidates" \in DOMAIN Idle /\ Read \subseteq DOMAIN Idle
        /\ \A f \in Read : f # "declined"
      BY DEF Onward, Idle, Read
  <2>6. \A f \in Read : f \notin DOMAIN mark
      BY <2>5
  <2> HIDE DEF mark
  <2>7. Offering(T, U, <<>>, Onward(t))
      BY <2>3, <2>4, <2>5, <2>6 DEF Offering, Differs, Read
  <2> QED
      BY <1>1, <2>7, OnwardFits
<1>5. CASE out = "stop"
  <2>1. Become(t, Stopped(t))
      BY <1>5 DEF ObserverFilters
  <2>2. DOMAIN Stopped(t) \subseteq DOMAIN Idle /\ "candidates" \notin DOMAIN Stopped(t)
      BY DEF Stopped, Idle
  <2>3. Offering(T, U, T.candidates, Stopped(t))
      BY <2>1, <2>2, Becoming, Offered DEF Differs
  <2> QED
      BY <1>1, <2>3, StoppedFits
<1>6. CASE out = "error"
  <2>1. Become(t, Failed(t, "filter"))
      BY <1>6 DEF ObserverFilters
  <2>2. /\ DOMAIN Failed(t, "filter") \subseteq DOMAIN Idle
        /\ "candidates" \notin DOMAIN Failed(t, "filter")
      BY DEF Failed, Idle
  <2>3. Offering(T, U, T.candidates, Failed(t, "filter"))
      BY <2>1, <2>2, Becoming, Offered DEF Differs
  <2> QED
      BY <1>1, <2>3, FailedFits
<1> QED
    BY <1>2, <1>3, <1>4, <1>5, <1>6

(* What both dispatchers do about a candidate once its filters have run.   *)
LEMMA CandidateFits ==
    ASSUME TurnsInv, NEW t \in Turns, NEW c, NEW offered, turn[t].pc = "candidates",
           turn[t].candidates # <<>>,
           Become(t, Over([candidates |-> Tail(turn[t].candidates), offered |-> offered], c)),
           \/ \E keys : /\ c = [pc |-> "frame", handler |-> Head(turn[t].candidates),
                                depth |-> 1, data |-> turn[t].seen \cup keys, retries |-> 0]
                        /\ keys \subseteq BaseKeys \cup {"context", Head(turn[t].candidates)}
           \/ c = NextCandidate(t)
           \/ c = Stopped(t)
           \/ turn[t].kind # "workspace" /\ c = Failed(t, "filter")
           \/ /\ turn[t].kind = "workspace"
              /\ c = [pc |-> "finally"] \/ c = [pc |-> "finally", raises |-> TRUE]
    PROVE  Fits(turn'[t])
<1> DEFINE T == turn[t]
           U == turn'[t]
           h == Head(T.candidates)
           rest == Tail(T.candidates)
           asked == [candidates |-> rest, offered |-> offered]
<1>1. /\ Fits(T) /\ Open(T) /\ T.candidates \in Seq(Handlers)
      /\ h \in Handlers /\ rest \in Seq(Handlers)
    BY DEF TurnsInv, Open, UnderWay, Fits, Typed
<1>2. Become(t, Over(asked, c))
    OBVIOUS
<1> HIDE DEF h, rest
<1>3. DOMAIN c \subseteq DOMAIN Idle => Offering(T, U, rest, c)
  <2> SUFFICES ASSUME DOMAIN c \subseteq DOMAIN Idle PROVE Offering(T, U, rest, c)
      OBVIOUS
  <2>1. DOMAIN Over(asked, c) = DOMAIN asked \cup DOMAIN c
      BY DEF Over
  <2>2. DOMAIN asked \subseteq DOMAIN Idle
      BY DEF Idle
  <2>3. Differs(T, U, Over(asked, c))
      BY <1>2, <2>1, <2>2, Becoming
  <2> QED
      BY <2>3, Offered DEF Differs
<1>4. ASSUME NEW keys, keys \subseteq BaseKeys \cup {"context", h},
             c = [pc |-> "frame", handler |-> h, depth |-> 1,
                  data |-> T.seen \cup keys, retries |-> 0]
      PROVE  Fits(U)
  <2>1. Offering(T, U, rest, c)
      BY <1>3, <1>4 DEF Idle
  <2>2. /\ SameBut(T, U, {"pc", "candidates", "handler", "depth", "data"})
        /\ U.pc = "frame" /\ U.candidates = rest /\ U.handler = h /\ U.depth = 1
        /\ U.data = T.seen \cup keys
      BY <2>1, <1>4 DEF Offering, SameBut, Read
  <2> QED
      BY <1>1, <1>4, <2>2, ChosenFits
<1>5. CASE c = NextCandidate(t)
  <2>1. Offering(T, U, rest, c)
      BY <1>3, <1>5 DEF NextCandidate, Idle
  <2> QED
      BY <1>1, <1>5, <2>1, NextCandidateFits
<1>6. CASE c = Stopped(t)
  <2>1. Offering(T, U, rest, c)
      BY <1>3, <1>6 DEF Stopped, Idle
  <2> QED
      BY <1>1, <1>6, <2>1, StoppedFits
<1>7. CASE T.kind # "workspace" /\ c = Failed(t, "filter")
  <2>1. Offering(T, U, rest, c)
      BY <1>3, <1>7 DEF Failed, Idle
  <2> QED
      BY <1>1, <1>7, <2>1, FailedFits
<1>8. CASE T.kind = "workspace" /\ (c = [pc |-> "finally"] \/ c = [pc |-> "finally", raises |-> TRUE])
  <2>1. Offering(T, U, rest, c)
      BY <1>3, <1>8 DEF Idle
  <2>2. /\ SameBut(T, U, {"pc", "raises", "candidates"}) /\ U.pc = "finally"
        /\ U.candidates = rest /\ (U.raises = T.raises \/ U.raises = TRUE)
      BY <2>1, <1>8 DEF Offering, SameBut, Read
  <2>3. T.failure = "none" /\ T.raises \in BOOLEAN
      BY <1>1, <1>8 DEF Fits, Typed
  <2> QED
      BY <1>1, <2>2, <2>3, EndsFit
<1> QED
    BY <1>4, <1>5, <1>6, <1>7, <1>8 DEF h

LEMMA HandlerFiltersFit ==
    ASSUME TurnsInv, NEW t \in Turns, NEW out,
           NEW keys \in Added(Head(turn[t].candidates)), HandlerFilters(t, out, keys),
           turn[t].kind # "workspace"
    PROVE  Fits(turn'[t])
<1> DEFINE T == turn[t]
           h == Head(T.candidates)
           offered == Append(T.offered, <<T.at, h>>)
           rest == [candidates |-> Tail(T.candidates), offered |-> offered]
<1>1. /\ T.pc = "candidates" /\ T.candidates # <<>>
      /\ out \in {"no", "skip", "stop", "error", "yes"}
      /\ out = "yes" => keys \cap T.seen = {}
    BY DEF HandlerFilters, Filters
<1>2. PICK c : /\ Become(t, Over(rest, c))
               /\ \/ out = "yes" /\ c = [pc |-> "frame", handler |-> h, depth |-> 1,
                                         data |-> T.seen \cup keys, retries |-> 0]
                  \/ c = NextCandidate(t)
                  \/ c = Stopped(t)
                  \/ c = Failed(t, "filter")
    BY <1>1 DEF HandlerFilters
<1>3. keys \subseteq BaseKeys \cup {"context", h}
    BY KindsAssumption DEF Added
<1> QED
    BY <1>1, <1>2, <1>3, CandidateFits

(* What is known of a turn between its frames. *)
LEMMA InFrames ==
    ASSUME TurnsInv, NEW t \in Turns
    PROVE  LET T == turn[t] IN
           /\ Fits(T) /\ T.around \in Seq(Middlewares) /\ Len(T.around) \in Nat
           /\ T.pc = "frame" => /\ T.depth \in 1..(Len(T.around) + 1)
                                /\ \A i \in 1..(T.depth - 1) : T.around[i] \in T.data
           /\ T.pc = "unwind" => /\ T.depth \in 0..Len(T.around)
                                 /\ \A i \in 1..T.depth : T.around[i] \in T.data
           /\ T.pc = "body" => Range(T.around) \subseteq T.data
<1>1. Fits(turn[t])
    BY DEF TurnsInv
<1> DEFINE T == turn[t]
<1> HIDE DEF T
<1>2. Typed(T) /\ Scoped(T)
    BY <1>1 DEF T, Fits
<1>3. T.around \in Seq(Middlewares) /\ Len(T.around) \in Nat
    BY <1>2 DEF Typed
<1>4. /\ T.pc = "frame" => T.depth \in 1..(Len(T.around) + 1)
      /\ T.pc = "unwind" => T.depth \in 0..Len(T.around)
    BY <1>2 DEF Typed
<1> QED
    BY <1>1, <1>2, <1>3, <1>4 DEF Scoped, T

LEMMA MiddlewareFits ==
    ASSUME TurnsInv, NEW t \in Turns, NEW out \in Outcomes \cup {"next"}, Middleware(t, out)
    PROVE  Fits(turn'[t])
<1> DEFINE T == turn[t]
           U == turn'[t]
           n == Len(T.around)
<1>1. /\ T.pc = "frame" /\ T.depth <= n /\ Fits(T) /\ T.around \in Seq(Middlewares)
      /\ n \in Nat /\ T.depth \in 1..(n + 1)
      /\ \A i \in 1..(T.depth - 1) : T.around[i] \in T.data
    BY InFrames DEF Middleware, Frames
<1>2. DOMAIN T.around = 1..n /\ T.depth \in 1..n
    BY <1>1
<1>3. CASE out = "next"
  <2> DEFINE change == [depth |-> T.depth + 1, data |-> T.data \cup {T.around[T.depth]}]
  <2>1. Become(t, change)
      BY <1>3 DEF Middleware
  <2>2. Differs(T, U, change)
      BY <2>1, Becoming DEF Idle
  <2>3. /\ SameBut(T, U, {"depth", "data"}) /\ U.depth = T.depth + 1
        /\ U.data = T.data \cup {T.around[T.depth]}
      BY <2>2 DEF Differs, SameBut, Read, Idle
  <2>4. /\ SameBut(T, U, {"pc", "depth", "data", "out", "done", "meddled"}) /\ U.pc = "frame"
        /\ U.meddled = T.meddled /\ U.done = T.done
      BY <1>1, <2>3 DEF SameBut, Read
  <2>5. U.depth \in 1..(n + 1)
      BY <1>1, <1>2, <2>3
  <2>6. \A i \in 1..(U.depth - 1) : T.around[i] \in U.data
    <3> SUFFICES ASSUME NEW i \in 1..(U.depth - 1) PROVE T.around[i] \in U.data
        OBVIOUS
    <3>1. i \in 1..(T.depth - 1) \/ i = T.depth
        BY <1>2, <2>3
    <3> QED
        BY <3>1, <1>1, <2>3
  <2>7. T.around[T.depth] \in Range(T.around)
      BY <1>2 DEF Range
  <2>8. T.meddled = TRUE \/ T.done = {}
      BY <1>1 DEF Fits, Honest
  <2>9. T.data \subseteq U.data /\ U.data \subseteq T.data \cup Range(T.around)
      BY <2>3, <2>7
  <2> HIDE DEF T, U
  <2>10. Fits(U)
      BY <1>1, <2>4, <2>5, <2>6, <2>8, <2>9, FramesFit
  <2> QED
      BY <2>10 DEF U
<1>4. CASE out # "next"
  <2> DEFINE change == [pc |-> "unwind", depth |-> T.depth - 1, out |-> out,
                        stage |-> "unknown", meddled |-> TRUE]
  <2>1. Become(t, change)
      BY <1>4 DEF Middleware
  <2>2. Differs(T, U, change)
      BY <2>1, Becoming DEF Idle
  <2>3. /\ SameBut(T, U, {"pc", "depth", "data", "out", "done", "meddled"}) /\ U.pc = "unwind"
        /\ U.depth = T.depth - 1 /\ U.data = T.data /\ U.meddled = TRUE /\ U.out \in Outcomes
      BY <1>4, <2>2 DEF Differs, SameBut, Read, Idle
  <2>4. U.depth \in 0..n
      BY <1>1, <2>3
  <2> QED
      BY <1>1, <2>3, <2>4, FramesFit
<1> QED
    BY <1>3, <1>4

(* Both ways to resolve a handler's parameters. *)
LEMMA ResolveFits ==
    ASSUME TurnsInv, NEW t \in Turns, Resolve(t) \/ ResolveEvent(t)
    PROVE  Fits(turn'[t])
<1> DEFINE T == turn[t]
           U == turn'[t]
           n == Len(T.around)
<1>1. /\ T.pc = "frame" /\ T.depth = n + 1 /\ Fits(T) /\ T.around \in Seq(Middlewares)
      /\ n \in Nat
      /\ \A i \in 1..(T.depth - 1) : T.around[i] \in T.data
    BY InFrames DEF Resolve, ResolveEvent, Frames
<1>2. \A i \in 1..n : T.around[i] \in T.data
    BY <1>1
<1>3. Range(T.around) \subseteq T.data
    BY <1>1, <1>2 DEF Range
<1>4. T.meddled = TRUE \/ T.done = {}
    BY <1>1 DEF Fits, Honest
<1>5. CASE Become(t, [pc |-> "body"])
  <2>1. Differs(T, U, [pc |-> "body"])
      BY <1>5, Becoming DEF Idle
  <2>2. /\ SameBut(T, U, {"pc", "depth", "data", "out", "done", "meddled"}) /\ U.pc = "body"
        /\ U.data = T.data /\ U.meddled = T.meddled /\ U.done = T.done
      BY <2>1 DEF Differs, SameBut, Read, Idle
  <2> QED
      BY <1>1, <1>3, <1>4, <2>2, FramesFit
<1>6. ASSUME NEW c, Become(t, c),
             \/ c = [pc |-> "unwind", depth |-> n, out |-> "error"]
             \/ c = [pc |-> "unwind", depth |-> n, out |-> "error",
                     stage |-> "dependency_resolution"]
      PROVE  Fits(U)
  <2>1. Differs(T, U, c)
      BY <1>6, Becoming DEF Idle
  <2>2. /\ SameBut(T, U, {"pc", "depth", "data", "out", "done", "meddled"}) /\ U.pc = "unwind"
        /\ U.depth = n /\ U.out = "error" /\ "error" \in Outcomes
        /\ U.data = T.data /\ U.meddled = T.meddled /\ U.done = T.done
      BY <1>6, <2>1 DEF Differs, SameBut, Read, Idle, Outcomes
  <2>3. /\ U.meddled = TRUE \/ (U.meddled = T.meddled /\
              U.done = IF U.pc = "unwind" /\ U.out = "result" THEN {U.handler} ELSE {})
        /\ T.data \subseteq U.data /\ U.data \subseteq T.data \cup Range(T.around)
        /\ U.depth \in 0..n /\ \A i \in 1..U.depth : T.around[i] \in U.data
      BY <1>1, <1>2, <1>4, <2>2
  <2> HIDE DEF T, U
  <2> QED
      BY <1>1, <2>2, <2>3, FramesFit
<1> QED
    BY <1>5, <1>6 DEF Resolve, ResolveEvent, Frames

LEMMA BodyFits ==
    ASSUME TurnsInv, NEW t \in Turns, NEW out \in Outcomes, Body(t, out)
    PROVE  Fits(turn'[t])
<1> DEFINE T == turn[t]
           U == turn'[t]
           n == Len(T.around)
           change == [pc |-> "unwind", depth |-> n, out |-> out,
                      stage |-> IF out = "error" THEN "handler" ELSE "unknown",
                      done |-> IF out = "result" THEN T.done \cup {T.handler} ELSE T.done]
<1>1. /\ T.pc = "body" /\ Fits(T) /\ T.around \in Seq(Middlewares) /\ n \in Nat
      /\ Range(T.around) \subseteq T.data /\ Become(t, change)
    BY InFrames DEF Body, Frames
<1>2. \A i \in 1..n : T.around[i] \in T.data
    BY <1>1 DEF Range
<1>3. T.meddled = TRUE \/ T.done = {}
    BY <1>1 DEF Fits, Honest
<1>4. Differs(T, U, change)
    BY <1>1, Becoming DEF Idle
<1>5. /\ SameBut(T, U, {"pc", "depth", "data", "out", "done", "meddled"}) /\ U.pc = "unwind"
      /\ U.depth = n /\ U.out = out /\ U.handler = T.handler
      /\ U.data = T.data /\ U.meddled = T.meddled
      /\ U.done = IF out = "result" THEN T.done \cup {T.handler} ELSE T.done
  <2>1. DOMAIN change \subseteq DOMAIN Idle
      BY DEF Idle
  <2>2. Read \cap DOMAIN change \subseteq {"pc", "depth", "out", "done"}
      BY DEF Read
  <2>3. SameBut(T, U, {"pc", "depth", "out", "done"})
      BY <1>4, <2>1, <2>2, Given
  <2>4. /\ SameBut(T, U, {"pc", "depth", "data", "out", "done", "meddled"})
        /\ U.handler = T.handler /\ U.data = T.data /\ U.meddled = T.meddled
      BY <2>3 DEF SameBut, Read
  <2>5. /\ {"pc", "depth", "out", "done"} \subseteq DOMAIN change
        /\ change.pc = "unwind" /\ change.depth = n /\ change.out = out
        /\ change.done = IF out = "result" THEN T.done \cup {T.handler} ELSE T.done
      OBVIOUS
  <2> HIDE DEF change
  <2>6. \A f \in DOMAIN change : U[f] = change[f]
      BY <1>4, <2>1, Given
  <2> QED
      BY <2>4, <2>5, <2>6
<1>7. n = Len(T.around)
    OBVIOUS
<1> HIDE DEF T, U, n
<1>6. /\ U.meddled = TRUE \/ (U.meddled = T.meddled /\
            U.done = IF U.pc = "unwind" /\ U.out = "result" THEN {U.handler} ELSE {})
      /\ T.data \subseteq U.data /\ U.data \subseteq T.data \cup Range(T.around)
      /\ U.depth \in 0..n /\ \A i \in 1..U.depth : T.around[i] \in U.data
  <2>1. T.meddled # TRUE => U.done = IF out = "result" THEN {U.handler} ELSE {}
      BY <1>3, <1>5
  <2>2. U.depth \in 0..n /\ \A i \in 1..U.depth : T.around[i] \in U.data
      BY <1>1, <1>2, <1>5
  <2> QED
      BY <2>1, <2>2, <1>5
<1>8. Fits(U)
    BY <1>1, <1>5, <1>6, <1>7, FramesFit
<1> QED
    BY <1>8 DEF U

LEMMA UnwindFits ==
    ASSUME TurnsInv, NEW t \in Turns, NEW out \in Outcomes \cup {"next"}, Unwind(t, out)
    PROVE  Fits(turn'[t])
<1> DEFINE T == turn[t]
           U == turn'[t]
           n == Len(T.around)
<1>1. /\ T.pc = "unwind" /\ T.depth > 0 /\ Fits(T) /\ T.around \in Seq(Middlewares)
      /\ n \in Nat /\ T.depth \in 0..n
      /\ \A i \in 1..T.depth : T.around[i] \in T.data
    BY InFrames DEF Unwind
<1>2. CASE out = "next"
  <2> DEFINE change == [pc |-> "frame", depth |-> T.depth + 1, retries |-> T.retries + 1,
                        meddled |-> TRUE]
  <2>1. Become(t, change)
      BY <1>2 DEF Unwind
  <2>2. Differs(T, U, change)
      BY <2>1, Becoming DEF Idle
  <2>3. /\ SameBut(T, U, {"pc", "depth", "data", "out", "done", "meddled"}) /\ U.pc = "frame"
        /\ U.depth = T.depth + 1 /\ U.data = T.data /\ U.meddled = TRUE
      BY <2>2 DEF Differs, SameBut, Read, Idle
  <2>4. U.depth \in 1..(n + 1) /\ \A i \in 1..(U.depth - 1) : T.around[i] \in U.data
      BY <1>1, <2>3
  <2> QED
      BY <1>1, <2>3, <2>4, FramesFit
<1>3. CASE out # "next"
  <2>1. PICK c : /\ Become(t, c)
                 /\ \/ c = [depth |-> T.depth - 1]
                    \/ c = [depth |-> T.depth - 1, out |-> out, stage |-> "unknown",
                            meddled |-> TRUE]
      BY <1>3 DEF Unwind
  <2>2. Differs(T, U, c)
      BY <2>1, Becoming DEF Idle
  <2>3. /\ SameBut(T, U, {"pc", "depth", "data", "out", "done", "meddled"}) /\ U.pc = "unwind"
        /\ U.depth = T.depth - 1 /\ U.data = T.data /\ U.done = T.done /\ U.handler = T.handler
        /\ \/ U.meddled = TRUE /\ U.out \in Outcomes
           \/ U.meddled = T.meddled /\ U.out = T.out
      BY <1>1, <1>3, <2>1, <2>2 DEF Differs, SameBut, Read, Idle
  <2>4. U.depth \in 0..n /\ \A i \in 1..U.depth : T.around[i] \in U.data
      BY <1>1, <2>3
  <2>5. /\ T.meddled = TRUE \/ T.done = IF T.out = "result" THEN {T.handler} ELSE {}
        /\ T.out \in Outcomes
      BY <1>1 DEF Fits, Honest, Typed
  <2> QED
      BY <1>1, <2>3, <2>4, <2>5, FramesFit
<1> QED
    BY <1>2, <1>3

(* The outcome has come through all frames. *)
LEMMA ReturnedFits ==
    ASSUME TurnsInv, NEW t \in Turns,
           \/ Returned(t) /\ turn[t].kind # "workspace"
           \/ EventReturned(t) /\ turn[t].kind = "workspace"
    PROVE  Fits(turn'[t])
<1> DEFINE T == turn[t]
           U == turn'[t]
<1>1. T.pc = "unwind" /\ Fits(T) /\ T.candidates \in Seq(Handlers)
    BY DEF Returned, EventReturned, TurnsInv, Fits, Typed
<1>2. ASSUME T.out = "result", Become(t, [pc |-> "finally", answer |-> T.handler])
      PROVE  Fits(U)
  <2>1. Differs(T, U, [pc |-> "finally", answer |-> T.handler])
      BY <1>2, Becoming DEF Idle
  <2>2. SameBut(T, U, {"pc", "answer"}) /\ U.pc = "finally" /\ U.answer = T.handler
      BY <2>1 DEF Differs, SameBut, Read, Idle
  <2> QED
      BY <1>1, <1>2, <2>2, AnswersFit
<1>3. ASSUME T.out # "result", NEW c, Become(t, c),
             \/ c = NextCandidate(t)
             \/ c = Stopped(t)
             \/ T.kind # "workspace" /\ \E stage : c = Failed(t, stage)
             \/ /\ T.kind = "workspace"
                /\ c = [pc |-> "finally"] \/ c = [pc |-> "finally", raises |-> TRUE]
      PROVE  Fits(U)
  <2>1. Open(T)
      BY <1>1, <1>3 DEF Open, UnderWay
  <2>2. DOMAIN c \subseteq DOMAIN Idle /\ "candidates" \notin DOMAIN c
      BY <1>3 DEF NextCandidate, Stopped, Failed, Idle
  <2>3. Differs(T, U, c)
      BY <1>3, <2>2, Becoming
  <2>4. Offering(T, U, T.candidates, c)
      BY <2>2, <2>3, Offered DEF Differs
  <2>5. CASE c = NextCandidate(t)
      BY <1>1, <2>1, <2>4, <2>5, NextCandidateFits
  <2>6. CASE c = Stopped(t)
      BY <1>1, <2>1, <2>4, <2>6, StoppedFits
  <2>7. CASE T.kind # "workspace" /\ \E stage : c = Failed(t, stage)
      BY <1>1, <2>1, <2>4, <2>7, FailedFits
  <2>8. CASE T.kind = "workspace" /\ (c = [pc |-> "finally"] \/ c = [pc |-> "finally", raises |-> TRUE])
    <3>1. /\ SameBut(T, U, {"pc", "raises", "candidates"}) /\ U.pc = "finally"
          /\ U.candidates = T.candidates
          /\ U.raises = T.raises \/ U.raises = TRUE
        BY <2>4, <2>8 DEF Offering, SameBut, Read
    <3>2. T.failure = "none" /\ T.raises \in BOOLEAN
        BY <1>1, <2>8 DEF Fits, Typed
    <3> QED
        BY <1>1, <2>1, <3>1, <3>2, EndsFit
  <2> QED
      BY <1>3, <2>5, <2>6, <2>7, <2>8
<1>4. T.out \in Outcomes
    BY <1>1 DEF Fits, Typed
<1>5. CASE T.out = "result"
    BY <1>2, <1>5 DEF Returned, EventReturned
<1>6. CASE T.out = "skip"
    BY <1>3, <1>6 DEF Returned, EventReturned
<1>7. CASE T.out = "stop"
    BY <1>3, <1>7 DEF Returned, EventReturned
<1>8. CASE T.out = "error"
  <2>1. PICK c : /\ Become(t, c)
                 /\ \/ T.kind # "workspace" /\ \E stage : c = Failed(t, stage)
                    \/ T.kind = "workspace" /\ c = [pc |-> "finally", raises |-> TRUE]
      BY <1>8 DEF Returned, EventReturned
  <2> QED
      BY <1>3, <1>8, <2>1
<1> QED
    BY <1>4, <1>5, <1>6, <1>7, <1>8 DEF Outcomes

LEMMA WalkEventsFit ==
    ASSUME TreeInv, TurnsInv, NEW t \in Turns, WalkEvents(t),
           turn[t].kind = "workspace"
    PROVE  Fits(turn'[t])
<1> DEFINE T == turn[t]
           U == turn'[t]
           entry == Head(T.todo)
           around == Around(entry)
           found == handlers[entry.router]["workspace_event"]
           change == [pc |-> "candidates", todo |-> Tail(T.todo), at |-> entry.router,
                      around |-> around, seen |-> {"context"}, candidates |-> found]
<1>1. T.pc = "walk" /\ Fits(T) /\ Open(T) /\ T.candidates \in Seq(Handlers) /\ Sound(T.todo)
    BY DEF WalkEvents, TurnsInv, Open, UnderWay, Fits, Typed, Scoped
<1>2. CASE T.todo = <<>>
  <2>1. Become(t, [pc |-> "finally"])
      BY <1>2 DEF WalkEvents
  <2>2. Differs(T, U, [pc |-> "finally"])
      BY <2>1, Becoming DEF Idle
  <2>3. /\ SameBut(T, U, {"pc", "raises", "candidates"}) /\ U.pc = "finally"
        /\ U.raises = T.raises /\ U.candidates = T.candidates
      BY <2>2 DEF Differs, SameBut, Read, Idle
  <2>4. T.raises \in BOOLEAN /\ T.failure = "none"
      BY <1>1 DEF Fits, Typed
  <2> QED
      BY <2>3, <2>4, <1>1, EndsFit
<1>3. CASE T.todo # <<>>
  <2>1. /\ entry.router \in Routers /\ around \in Seq(Middlewares)
        /\ Range(around) \subseteq Above[entry.router] /\ Sound(Tail(T.todo))
      BY <1>1, <1>3, HeadSound
  <2>2. found \in Seq(Handlers)
      BY <2>1, KindsAssumption DEF TreeInv
  <2>3. Become(t, change)
      BY <1>3 DEF WalkEvents
  <2> HIDE DEF entry, around, found
  <2>4. Differs(T, U, change)
      BY <2>3, Becoming DEF Idle
  <2>5. /\ SameBut(T, U, {"pc", "todo", "at", "around", "candidates", "data", "seen"})
        /\ U.pc = "candidates" /\ U.todo = Tail(T.todo) /\ U.at = entry.router
        /\ U.around = around /\ U.candidates = found /\ U.seen = {"context"}
    <3>1. DOMAIN change \subseteq DOMAIN Idle
        BY DEF Idle
    <3>2. Read \cap DOMAIN change
            \subseteq {"pc", "todo", "at", "around", "candidates", "data", "seen"}
        BY DEF Read
    <3>3. /\ {"pc", "todo", "at", "around", "candidates", "seen"} \subseteq DOMAIN change
          /\ change.pc = "candidates" /\ change.todo = Tail(T.todo) /\ change.at = entry.router
          /\ change.around = around /\ change.candidates = found /\ change.seen = {"context"}
        OBVIOUS
    <3> HIDE DEF change
    <3>4. SameBut(T, U, {"pc", "todo", "at", "around", "candidates", "data", "seen"})
        BY <2>4, <3>1, <3>2, Given
    <3>5. \A f \in DOMAIN change : U[f] = change[f]
        BY <2>4, <3>1, Given
    <3> QED
        BY <3>3, <3>4, <3>5
  <2> QED
      BY <2>5, <1>1, <2>1, <2>2, ReachesFit
<1> QED
    BY <1>2, <1>3

LEMMA EventFiltersFit ==
    ASSUME TurnsInv, NEW t \in Turns, NEW out,
           NEW keys \in {{}, {Head(turn[t].candidates)}, {"context"}}, EventFilters(t, out, keys),
           turn[t].kind = "workspace"
    PROVE  Fits(turn'[t])
<1> DEFINE T == turn[t]
           h == Head(T.candidates)
           offered == Append(T.offered, <<T.at, h>>)
           rest == [candidates |-> Tail(T.candidates), offered |-> offered]
<1>1. /\ T.pc = "candidates" /\ T.candidates # <<>>
      /\ out \in {"no", "skip", "stop", "error", "yes"}
    BY DEF EventFilters, Filters
<1>2. PICK c : /\ Become(t, Over(rest, c))
               /\ \/ out = "yes" /\ c = [pc |-> "frame", handler |-> h, depth |-> 1,
                                         data |-> T.seen \cup keys, retries |-> 0]
                  \/ c = NextCandidate(t)
                  \/ c = [pc |-> "finally"]
                  \/ c = [pc |-> "finally", raises |-> TRUE]
    BY <1>1 DEF EventFilters
<1>3. keys \subseteq BaseKeys \cup {"context", h}
    OBVIOUS
<1> QED
    BY <1>1, <1>2, <1>3, CandidateFits

(* The turn is over: what its caller was told stands.                      *)
LEMMA GoneFits ==
    ASSUME NEW T, NEW U, Fits(T), SameBut(T, U, {"pc", "raises", "answer", "out"}),
           U.pc = "finally", U.raises = TRUE, U.out = "cancel"
    PROVE  Fits(U)
<1> USE DEF Fits, SameBut, Read
<1>1. Typed(U)
    BY DEF Typed
<1>2. Honest(U)
    BY DEF Honest
<1>3. Scoped(U)
    BY DEF Scoped
<1> QED
    BY <1>1, <1>2, <1>3

(* A turn that begins: with the observers of an event, or with the walk of  *)
(* a workspace event.                                                      *)
LEMMA BeginsFit ==
    ASSUME NEW U,
           SameBut(Idle, U, {"pc", "kind", "left", "pass", "todo"}),
           \/ U.pc = "select" /\ U.todo = <<>> /\ U.left \in Seq(Observers)
           \/ /\ U.pc = "walk" /\ U.pass \in Observers /\ U.left = <<>>
              /\ Sound(U.todo)
    PROVE  Fits(U)
<1>1. Fits(Idle)
    BY IdleFits
<1>2. /\ Idle.pc = "idle" /\ Idle.kind = "unknown" /\ Idle.failure = "none" /\ Idle.raises = FALSE
      /\ Idle.answer = NoHandler /\ Idle.done = {} /\ Idle.todo = <<>>
      /\ Idle.out = "none"
    BY DEF Idle
<1> USE <1>1, <1>2 DEF Fits, SameBut, Read
<1>3. Typed(U)
  <2>1. <<>> \in Seq(Observers)
      OBVIOUS
  <2> QED
    BY <2>1 DEF Typed
<1>4. Honest(U)
    BY DEF Honest
<1>5. Scoped(U)
    BY DEF Scoped
<1> QED
    BY <1>3, <1>4, <1>5

LEMMA FeedEventFits ==
    ASSUME TurnsInv, NEW t \in Turns, FeedEvent(t)
    PROVE  Fits(turn'[t])
<1> DEFINE T == turn[t]
           U == turn'[t]
           change == [pc |-> "walk", kind |-> "workspace", pass |-> "workspace_event",
                      todo |-> WalkStart, roster |-> Registered("workspace_event"),
                      saved |-> current[t]]
<1>1. T = Idle /\ Become(t, change)
    BY DEF FeedEvent, TurnsInv, Fits, Honest
<1>2. Differs(T, U, change)
    BY <1>1, Becoming DEF Idle
<1>3. /\ SameBut(T, U, {"pc", "kind", "pass", "todo"}) /\ U.pc = "walk"
      /\ U.pass = "workspace_event" /\ U.todo = WalkStart
    BY <1>2 DEF Differs, SameBut, Read, Idle
<1>4. SameBut(T, U, {"pc", "kind", "left", "pass", "todo"}) /\ U.left = T.left
    BY <1>3 DEF SameBut, Read
<1>5. T.left = <<>>
    BY <1>1 DEF Idle
<1> QED
    BY <1>1, <1>3, <1>4, <1>5, StartSound, KindsAssumption, BeginsFit

(* What Feed does to the turn that begins.                                 *)
LEMMA Feeding ==
    ASSUME TurnsInv, NEW t \in Turns, NEW kind \in (RootKinds \cap Kinds) \cup NestedKinds,
           NEW p, NEW bot, Feed(t, kind, p, bot)
    PROVE  LET U == turn'[t]
               task == IF p = NoTurn THEN t ELSE p
           IN  /\ turn[t] = Idle /\ Fits(U)
               /\ U.pc = "select" /\ U.by = p /\ U.bot = bot /\ U.saved = current[task]
               /\ DOMAIN turn' = Turns
               /\ \A u \in Turns : u # t => turn'[u] = turn[u]
<1> DEFINE T == turn[t]
           U == turn'[t]
           task == IF p = NoTurn THEN t ELSE p
           change == [pc |-> "select", kind |-> kind, by |-> p, bot |-> bot,
                      saved |-> current[task], left |-> Passes(kind)]
<1>1. T = Idle /\ turn' = [turn EXCEPT ![t] = Over(change, turn[t])] /\ DOMAIN turn = Turns
    BY DEF Feed, TurnsInv, Fits, Honest
<1>2. DOMAIN turn' = Turns /\ U = Over(change, T) /\ \A u \in Turns : u # t => turn'[u] = turn[u]
    BY <1>1
<1>3. DOMAIN change \subseteq DOMAIN Idle
    BY DEF Idle
<1>4. Differs(T, U, change)
    BY <1>1, <1>2, <1>3, Changed
<1>5. /\ SameBut(T, U, {"pc", "kind", "left"}) /\ U.pc = "select" /\ U.left = Passes(kind)
      /\ U.by = p /\ U.bot = bot /\ U.saved = current[task]
    BY <1>4 DEF Differs, SameBut, Read, Idle
<1>6. Passes(kind) \in Seq(Observers)
    BY KindsAssumption
<1>7. SameBut(T, U, {"pc", "kind", "left", "pass", "todo"}) /\ U.todo = T.todo
    BY <1>5 DEF SameBut, Read
<1>9. T.todo = <<>>
    BY <1>1 DEF Idle
<1>8. Fits(U)
    BY <1>1, <1>5, <1>6, <1>7, <1>9, BeginsFit
<1> QED
    BY <1>1, <1>2, <1>5, <1>8

-----------------------------------------------------------------------------
(* Whose turn it is, and the bot it has. *)

(* A change within a turn. *)
Routes(c) == /\ DOMAIN c \subseteq DOMAIN Idle \ {"by", "bot", "saved"}
             /\ "pc" \in DOMAIN c => c.pc # "idle"

(* A turn goes on.  One that waits for the turn its handler feeds does not. *)
Moves(t) ==
    /\ Live(t) /\ turn'[t].pc # "idle"
    /\ turn[t].pc \in {"body", "finally"} => ~Waiting(t)
    /\ turn'[t].by = turn[t].by /\ turn'[t].bot = turn[t].bot /\ turn'[t].saved = turn[t].saved
    /\ DOMAIN turn' = Turns
    /\ \A u \in Turns : u # t => turn'[u] = turn[u]
    /\ UNCHANGED <<tree, current>>

LEMMA RoutesMoves ==
    ASSUME TurnsInv, NEW t \in Turns, NEW c, Routes(c), Become(t, c), Live(t),
           turn[t].pc \in {"body", "finally"} => ~Waiting(t)
    PROVE  Moves(t)
<1>1. DOMAIN c \subseteq DOMAIN Idle /\ "by" \notin DOMAIN c /\ "bot" \notin DOMAIN c
      /\ "saved" \notin DOMAIN c
    BY DEF Routes
<1>2. Differs(turn[t], turn'[t], c) /\ DOMAIN turn' = Turns
      /\ (\A u \in Turns : u # t => turn'[u] = turn[u]) /\ UNCHANGED <<tree, current>>
    BY <1>1, Becoming
<1>3. {"by", "bot", "saved", "pc"} \subseteq DOMAIN Idle
    BY DEF Idle
<1>4. /\ turn'[t].by = turn[t].by /\ turn'[t].bot = turn[t].bot /\ turn'[t].saved = turn[t].saved
      /\ turn'[t].pc = IF "pc" \in DOMAIN c THEN c.pc ELSE turn[t].pc
    BY <1>1, <1>2, <1>3 DEF Differs
<1>5. turn'[t].pc # "idle"
    BY <1>4 DEF Routes, Live
<1> QED
    BY <1>2, <1>4, <1>5 DEF Moves

LEMMA Routing ==
    ASSUME NEW t \in Turns
    PROVE  /\ Routes(NextCandidate(t)) /\ Routes(Stopped(t)) /\ Routes(Onward(t))
           /\ \A stage : Routes(Failed(t, stage))
           /\ \A a, b : Routes(a) /\ Routes(b) => Routes(Over(a, b))
           /\ Routes([pc |-> "finally"]) /\ Routes([pc |-> "finally", raises |-> TRUE])
<1>1. Routes(NextCandidate(t)) /\ Routes(Stopped(t)) /\ Routes(Onward(t))
    BY DEF Routes, NextCandidate, Stopped, Onward, Idle
<1>2. \A stage : Routes(Failed(t, stage))
    BY DEF Routes, Failed, Idle
<1>3. \A a, b : Routes(a) /\ Routes(b) => Routes(Over(a, b))
    BY DEF Routes, Over
<1>4. Routes([pc |-> "finally"]) /\ Routes([pc |-> "finally", raises |-> TRUE])
    BY DEF Routes, Idle
<1> QED
    BY <1>1, <1>2, <1>3, <1>4

LEMMA WalkingMoves ==
    ASSUME TurnsInv, NEW t \in Turns,
           Select(t) \/ Unmatched(t) \/ Walk(t) \/ WalkEvents(t) \/ Exhausted(t)
    PROVE  Moves(t)
<1> SUFFICES ASSUME TRUE
             PROVE  /\ turn[t].pc \in {"select", "walk", "candidates"}
                    /\ \E c : Routes(c) /\ Become(t, c)
    BY RoutesMoves DEF Live
<1>1. CASE Select(t)
  <2> DEFINE pass == Head(turn[t].left)
             c == [pc |-> "walk", pass |-> pass, left |-> Tail(turn[t].left),
                   todo |-> WalkStart, roster |-> Registered(pass),
                   offered |-> <<>>, declined |-> {}]
  <2>1. Routes(c)
      BY DEF Routes, Idle
  <2> QED
      BY <1>1, <2>1 DEF Select
<1>2. CASE Unmatched(t)
  <2>1. /\ turn[t].pc = "select"
        /\ \/ Become(t, [pc |-> "finally", raises |-> TRUE])
           \/ Become(t, Failed(t, "unknown"))
           \/ Become(t, [pc |-> "finally"])
      BY <1>2 DEF Unmatched
  <2> QED
      BY <2>1, Routing
<1>3. CASE Walk(t)
  <2> DEFINE entry == Head(turn[t].todo)
             around == Around(entry)
             found == handlers[entry.router][turn[t].pass]
             below == Below(entry.router, around) \o Tail(turn[t].todo)
             c == [pc |-> "filters", todo |-> Tail(turn[t].todo), at |-> entry.router,
                   around |-> around, candidates |-> found, data |-> {}]
  <2>1. turn[t].pc = "walk"
        /\ (Become(t, [pc |-> "select"]) \/ Become(t, [todo |-> below]) \/ Become(t, c))
      BY <1>3 DEF Walk
  <2>2. Routes([pc |-> "select"]) /\ Routes([todo |-> below]) /\ Routes(c)
      BY DEF Routes, Idle
  <2> QED
      BY <2>1, <2>2
<1>4. CASE WalkEvents(t)
  <2> DEFINE entry == Head(turn[t].todo)
             around == Around(entry)
             c == [pc |-> "candidates", todo |-> Tail(turn[t].todo), at |-> entry.router,
                   around |-> around, seen |-> {"context"},
                   candidates |-> handlers[entry.router]["workspace_event"]]
  <2>1. turn[t].pc = "walk" /\ (Become(t, [pc |-> "finally"]) \/ Become(t, c))
      BY <1>4 DEF WalkEvents
  <2>2. Routes(c)
      BY DEF Routes, Idle
  <2> QED
      BY <2>1, <2>2, Routing
<1>5. CASE Exhausted(t)
    BY <1>5, Routing DEF Exhausted
<1> QED
    BY <1>1, <1>2, <1>3, <1>4, <1>5

LEMMA FilteringMoves ==
    ASSUME TurnsInv, NEW t \in Turns, NEW out, NEW keys,
           ObserverFilters(t, out, keys) \/ HandlerFilters(t, out, keys) \/ EventFilters(t, out, keys)
    PROVE  Moves(t)
<1> SUFFICES ASSUME TRUE
             PROVE  /\ turn[t].pc \in {"filters", "candidates"}
                    /\ \E c : Routes(c) /\ Become(t, c)
    BY RoutesMoves DEF Live
<1> DEFINE T == turn[t]
<1>1. CASE ObserverFilters(t, out, keys)
  <2> DEFINE c == [pc |-> "candidates", seen |-> BaseKeys \cup keys]
             mark == [declined |-> T.declined \cup {T.at}]
  <2>1. out \in {"no", "skip", "stop", "error", "yes"} /\ T.pc = "filters"
      BY <1>1 DEF ObserverFilters, Filters
  <2>2. Become(t, c) \/ Become(t, Over(mark, Onward(t))) \/ Become(t, Stopped(t))
        \/ Become(t, Failed(t, "filter"))
      BY <1>1, <2>1 DEF ObserverFilters
  <2>3. Routes(c) /\ Routes(mark)
      BY DEF Routes, Idle
  <2> HIDE DEF c, mark
  <2> QED
      BY <2>1, <2>2, <2>3, Routing
<1>2. CASE HandlerFilters(t, out, keys) \/ EventFilters(t, out, keys)
  <2> DEFINE h == Head(T.candidates)
             rest == [candidates |-> Tail(T.candidates),
                      offered |-> Append(T.offered, <<T.at, h>>)]
             chosen == [pc |-> "frame", handler |-> h, depth |-> 1,
                        data |-> T.seen \cup keys, retries |-> 0]
  <2>1. out \in {"no", "skip", "stop", "error", "yes"} /\ T.pc = "candidates"
      BY <1>2 DEF HandlerFilters, EventFilters, Filters
  <2>2. PICK c : /\ Become(t, Over(rest, c))
                 /\ \/ c = chosen \/ c = NextCandidate(t)
                    \/ c = Stopped(t) \/ c = Failed(t, "filter")
                    \/ c = [pc |-> "finally"] \/ c = [pc |-> "finally", raises |-> TRUE]
      BY <1>2, <2>1 DEF HandlerFilters, EventFilters
  <2>3. Routes(rest) /\ Routes(chosen)
      BY DEF Routes, Idle
  <2> HIDE DEF rest, chosen
  <2>4. Routes(c)
      BY <2>2, <2>3, Routing
  <2> QED
      BY <2>1, <2>2, <2>3, <2>4, Routing
<1> QED
    BY <1>1, <1>2

LEMMA CallingMoves ==
    ASSUME TurnsInv, NEW t \in Turns,
           \/ Resolve(t) \/ ResolveEvent(t) \/ Returned(t) \/ EventReturned(t)
           \/ \E out : Middleware(t, out) \/ Unwind(t, out) \/ Body(t, out)
    PROVE  Moves(t)
<1> SUFFICES ASSUME TRUE
             PROVE  /\ turn[t].pc \in {"frame", "body", "unwind"}
                    /\ turn[t].pc = "body" => ~Waiting(t)
                    /\ \E c : Routes(c) /\ Become(t, c)
    BY RoutesMoves DEF Live
<1> DEFINE T == turn[t]
           n == Frames(t)
<1>1. CASE Resolve(t) \/ ResolveEvent(t)
  <2>1. /\ T.pc = "frame"
        /\ \/ Become(t, [pc |-> "body"])
           \/ Become(t, [pc |-> "unwind", depth |-> n, out |-> "error"])
           \/ Become(t, [pc |-> "unwind", depth |-> n, out |-> "error",
                         stage |-> "dependency_resolution"])
      BY <1>1 DEF Resolve, ResolveEvent
  <2>2. /\ Routes([pc |-> "body"]) /\ Routes([pc |-> "unwind", depth |-> n, out |-> "error"])
        /\ Routes([pc |-> "unwind", depth |-> n, out |-> "error",
                   stage |-> "dependency_resolution"])
      BY DEF Routes, Idle
  <2> QED
      BY <2>1, <2>2
<1>2. CASE Returned(t) \/ EventReturned(t)
  <2>1. T.pc = "unwind"
      BY <1>2 DEF Returned, EventReturned
  <2>2. T.out \in Outcomes
      BY <2>1 DEF TurnsInv, Fits, Typed
  <2>3. PICK c : /\ Become(t, c)
                 /\ \/ c = [pc |-> "finally", answer |-> T.handler]
                    \/ c = NextCandidate(t) \/ c = Stopped(t) \/ (\E stage : c = Failed(t, stage))
                    \/ c = [pc |-> "finally"] \/ c = [pc |-> "finally", raises |-> TRUE]
      BY <1>2, <2>2 DEF Returned, EventReturned, Outcomes
  <2>4. Routes([pc |-> "finally", answer |-> T.handler])
      BY DEF Routes, Idle
  <2> QED
      BY <2>1, <2>3, <2>4, Routing
<1>3. ASSUME NEW out, Middleware(t, out) PROVE T.pc = "frame" /\ \E c : Routes(c) /\ Become(t, c)
  <2>1. PICK c : /\ Become(t, c)
                 /\ \/ c = [depth |-> T.depth + 1, data |-> T.data \cup {T.around[T.depth]}]
                    \/ c = [pc |-> "unwind", depth |-> T.depth - 1, out |-> out,
                            stage |-> "unknown", meddled |-> TRUE]
      BY <1>3 DEF Middleware
  <2>2. Routes(c)
      BY <2>1 DEF Routes, Idle
  <2> QED
      BY <1>3, <2>1, <2>2 DEF Middleware
<1>4. ASSUME NEW out, Unwind(t, out) PROVE T.pc = "unwind" /\ \E c : Routes(c) /\ Become(t, c)
  <2>1. PICK c : /\ Become(t, c)
                 /\ \/ c = [pc |-> "frame", depth |-> T.depth + 1,
                            retries |-> T.retries + 1, meddled |-> TRUE]
                    \/ c = [depth |-> T.depth - 1]
                    \/ c = [depth |-> T.depth - 1, out |-> out, stage |-> "unknown",
                            meddled |-> TRUE]
      BY <1>4 DEF Unwind
  <2>2. Routes(c)
      BY <2>1 DEF Routes, Idle
  <2> QED
      BY <1>4, <2>1, <2>2 DEF Unwind
<1>5. ASSUME NEW out, Body(t, out)
      PROVE  T.pc = "body" /\ ~Waiting(t) /\ \E c : Routes(c) /\ Become(t, c)
  <2> DEFINE c == [pc |-> "unwind", depth |-> n, out |-> out,
                   stage |-> IF out = "error" THEN "handler" ELSE "unknown",
                   done |-> IF out = "result" THEN T.done \cup {T.handler} ELSE T.done]
  <2>1. Routes(c)
      BY DEF Routes, Idle
  <2> QED
      BY <1>5, <2>1 DEF Body
<1> QED
    BY <1>1, <1>2, <1>3, <1>4, <1>5

(* A turn that a handler feeds runs alone within that handler's turn.      *)
Nested ==
    \A t \in Turns : Live(t) =>
        /\ turn[t].by # NoTurn <=> t \in NestedTurns
        /\ turn[t].by # NoTurn =>
              /\ turn[t].by \in Turns /\ turn[t].by \notin NestedTurns
              /\ turn[turn[t].by].pc \in {"body", "finally"}
              /\ turn[t].saved = turn[turn[t].by].bot
              /\ \A u \in Turns : Live(u) /\ turn[u].by = turn[t].by => u = t

(* The current bot of a task is that of its innermost turn, and every turn  *)
(* knows the one to restore.                                               *)
Bots ==
    /\ DOMAIN current = Turns
    /\ \A t \in Turns :
          /\ Live(t) /\ ~Waiting(t) => current[Task(t)] = turn[t].bot
          /\ t \notin NestedTurns =>
                IF Live(t) THEN turn[t].saved = NoBot ELSE current[t] = NoBot

DispatchInv == TreeInv /\ TurnsInv /\ Nested /\ Bots

-----------------------------------------------------------------------------
LEMMA TreeStays ==
    ASSUME UNCHANGED tree
    PROVE  /\ TreeInv => TreeInv'
           /\ \A r \in Routers : Above[r] \subseteq Above'[r]
<1> USE DEF tree
<1>1. TreeInv => TreeInv'
    BY DEF TreeInv
<1>2. Above' = Above
    BY DEF Above, Path
<1> QED
    BY <1>1, <1>2

LEMMA FitsStay ==
    ASSUME \A r \in Routers : Above[r] \subseteq Above'[r], DOMAIN turn' = Turns,
           \A t \in Turns : Fits(turn'[t])
    PROVE  TurnsInv'
<1> SUFFICES ASSUME NEW t \in Turns PROVE Fits(turn[t])'
    BY DEF TurnsInv
<1>1. Typed(turn'[t]) /\ Honest(turn'[t]) /\ Scoped(turn'[t])
    BY DEF Fits
<1>2. Typed(turn[t])'
    BY <1>1 DEF Typed
<1>3. Honest(turn[t])'
    BY <1>1 DEF Honest
<1>4. Sound(turn[t].todo)'
  <2>1. Sound(turn'[t].todo)
      BY <1>1 DEF Scoped
  <2>2. \A i \in 1..Len(turn'[t].todo) : turn'[t].todo[i].router \in Routers
    <3> DEFINE items == turn'[t].todo
    <3>1. items \in Seq(Entries)
        BY <2>1 DEF Sound
    <3> HIDE DEF items
    <3>2. \A i \in 1..Len(items) : items[i] \in Entries
        BY <3>1
    <3>3. \A i \in 1..Len(items) : items[i].router \in Routers
        BY <3>2 DEF Entries
    <3> QED
        BY <3>3 DEF items
  <2> QED
      BY <2>1, <2>2 DEF Sound
<1>5. Scoped(turn[t])'
  <2>1. turn'[t].at \in Routers
      BY <1>1 DEF Typed
  <2> QED
      BY <1>1, <1>4, <2>1 DEF Scoped
<1> QED
    BY <1>2, <1>3, <1>5 DEF Fits

(* Within a turn, nothing changes about the bots.                          *)
LEMMA MovesKeepBots ==
    ASSUME TurnsInv, Nested, Bots, NEW t \in Turns, Moves(t)
    PROVE  Nested' /\ Bots'
<1>1. \A u \in Turns : /\ turn'[u].by = turn[u].by /\ turn'[u].bot = turn[u].bot
                       /\ turn'[u].saved = turn[u].saved
                       /\ (turn'[u].pc # "idle" <=> turn[u].pc # "idle")
                       /\ u # t => turn'[u] = turn[u]
    BY DEF Moves, Live
<1>2. \A u \in Turns : /\ Live(u)' <=> Live(u)
                       /\ Task(u)' = Task(u)
    BY <1>1 DEF Live, Task
<1>3. \A u \in Turns : Waiting(u)' <=> Waiting(u)
    BY <1>1, <1>2 DEF Waiting
<1>4. \A u \in Turns : Live(u) /\ turn[u].by # NoTurn => turn[u].by # t
    BY DEF Moves, Nested, Waiting
<1>5. Nested'
    BY <1>1, <1>2, <1>4 DEF Nested
<1>6. current' = current
    BY DEF Moves
<1>7. Bots'
    BY <1>1, <1>2, <1>3, <1>6 DEF Bots
<1> QED
    BY <1>5, <1>7

LEMMA FeedKeepsBots ==
    ASSUME TurnsInv, Nested, Bots, NEW t \in Turns,
           NEW kind \in (RootKinds \cap Kinds) \cup NestedKinds, NEW p \in Turns \cup {NoTurn},
           NEW bot, Feed(t, kind, p, bot)
    PROVE  Nested' /\ Bots'
<1> DEFINE task == IF p = NoTurn THEN t ELSE p
<1>1. /\ turn[t] = Idle /\ turn'[t].pc = "select" /\ turn'[t].by = p /\ turn'[t].bot = bot
      /\ turn'[t].saved = current[task] /\ \A u \in Turns : u # t => turn'[u] = turn[u]
    BY Feeding
<1>2. turn[t].pc = "idle" /\ turn[t].by = NoTurn /\ ~Live(t) /\ Live(t)'
    BY <1>1 DEF Idle, Live
<1>3. /\ p = NoTurn => t \notin NestedTurns
      /\ p # NoTurn => /\ t \in NestedTurns /\ turn[p].pc = "body" /\ ~Waiting(p)
                       /\ turn[p].by = NoTurn
      /\ task \in Turns /\ current' = [current EXCEPT ![task] = bot]
    BY DEF Feed
<1>4. p # NoTurn => Live(p) /\ p # t /\ p \notin NestedTurns
    BY <1>2, <1>3 DEF Nested, Live
<1>5. \A u \in Turns : u # t => (Live(u)' <=> Live(u)) /\ Task(u)' = Task(u)
    BY <1>1 DEF Live, Task
<1>6. \A u \in Turns : Live(u) /\ turn[u].by # NoTurn => turn[u].by # t /\ turn[u].by # p
    BY <1>2, <1>3 DEF Nested, Waiting
<1>7. Nested'
  <2>1. p # NoTurn => current[p] = turn[p].bot
      BY <1>3, <1>4 DEF Bots, Task
  <2>2. ASSUME NEW u \in Turns, Live(u)', u # t
        PROVE  /\ turn'[u].by # NoTurn <=> u \in NestedTurns
               /\ turn'[u].by # NoTurn =>
                    /\ turn'[u].by \in Turns /\ turn'[u].by \notin NestedTurns
                    /\ turn'[turn'[u].by].pc \in {"body", "finally"}
                    /\ turn'[u].saved = turn'[turn'[u].by].bot
                    /\ \A v \in Turns : Live(v)' /\ turn'[v].by = turn'[u].by => v = u
      BY <2>2, <1>1, <1>5, <1>6 DEF Nested
  <2>3. /\ turn'[t].by # NoTurn <=> t \in NestedTurns
        /\ turn'[t].by # NoTurn =>
             /\ turn'[t].by \in Turns /\ turn'[t].by \notin NestedTurns
             /\ turn'[turn'[t].by].pc \in {"body", "finally"}
             /\ turn'[t].saved = turn'[turn'[t].by].bot
             /\ \A v \in Turns : Live(v)' /\ turn'[v].by = turn'[t].by => v = t
      BY <2>1, <1>1, <1>3, <1>4, <1>5, <1>6
  <2> QED
      BY <2>2, <2>3 DEF Nested
<1>8. /\ \A u \in Turns : u # task => current'[u] = current[u]
      /\ current'[task] = bot /\ DOMAIN current' = Turns
    BY <1>3 DEF Bots
<1>9. \A u \in Turns : u # t /\ Live(u) /\ Task(u) = task => u = p
    BY <1>2, <1>3, <1>4, <1>6 DEF Task
<1>10. \A u \in Turns : Waiting(u)' <=> Waiting(u) \/ u = p
    BY <1>1, <1>2, <1>5 DEF Waiting
<1>11. ASSUME NEW u \in Turns, Live(u)', ~Waiting(u)' PROVE current'[Task(u)'] = turn'[u].bot
  <2>1. CASE u = t
    <3>1. Task(t)' = task
        BY <1>1 DEF Task
    <3> QED
        BY <3>1, <2>1, <1>1, <1>8
  <2>2. CASE u # t
    <3>1. Live(u) /\ ~Waiting(u) /\ u # p /\ Task(u)' = Task(u)
        BY <2>2, <1>5, <1>10, <1>11
    <3>2. Task(u) # task /\ Task(u) \in Turns
        BY <3>1, <2>2, <1>9 DEF Nested, Task
    <3> QED
        BY <3>1, <3>2, <2>2, <1>1, <1>8 DEF Bots
  <2> QED
      BY <2>1, <2>2
<1>12. ASSUME NEW u \in Turns, u \notin NestedTurns
       PROVE  IF Live(u)' THEN turn'[u].saved = NoBot ELSE current'[u] = NoBot
  <2>1. CASE u = t
    <3>1. p = NoTurn /\ current[t] = NoBot
        BY <1>2, <1>3, <1>12, <2>1 DEF Bots
    <3> QED
        BY <3>1, <2>1, <1>1, <1>2
  <2>2. CASE u # t /\ Live(u)
      BY <2>2, <1>1, <1>5, <1>12 DEF Bots
  <2>3. CASE u # t /\ ~Live(u)
      BY <2>3, <1>4, <1>5, <1>8, <1>12 DEF Bots
  <2> QED
      BY <2>1, <2>2, <2>3
<1> QED
    BY <1>7, <1>8, <1>11, <1>12 DEF Bots

(* A workspace event has no bot, and leaves the current one as it is.      *)
LEMMA FeedEventKeepsBots ==
    ASSUME TurnsInv, Nested, Bots, NEW t \in Turns, FeedEvent(t)
    PROVE  Nested' /\ Bots' /\ \A u \in Turns : u # t => turn'[u] = turn[u]
<1> DEFINE change == [pc |-> "walk", kind |-> "workspace", pass |-> "workspace_event",
                      todo |-> WalkStart, roster |-> Registered("workspace_event"),
                      saved |-> current[t]]
<1>1. turn[t] = Idle /\ Become(t, change) /\ t \notin NestedTurns
    BY DEF FeedEvent, TurnsInv, Fits, Honest
<1>2. Differs(turn[t], turn'[t], change) /\ UNCHANGED <<tree, current>>
      /\ \A u \in Turns : u # t => turn'[u] = turn[u]
    BY <1>1, Becoming DEF Idle
<1>3. turn'[t].pc = "walk" /\ turn'[t].saved = current[t] /\ turn'[t].by = turn[t].by
      /\ turn'[t].bot = turn[t].bot
    BY <1>2 DEF Differs, Idle
<1>4. ~Live(t) /\ Live(t)' /\ turn'[t].by = NoTurn /\ turn'[t].bot = NoBot /\ turn[t].by = NoTurn
    BY <1>1, <1>3 DEF Live, Idle
<1>5. current[t] = NoBot
    BY <1>1, <1>4 DEF Bots
<1>6. \A u \in Turns : Task(u)' = Task(u) /\ (u # t => (Live(u)' <=> Live(u)))
    BY <1>2, <1>4 DEF Live, Task
<1>7. \A u \in Turns : Live(u) /\ turn[u].by # NoTurn => turn[u].by # t
    BY <1>1 DEF Nested, Idle
<1>8. \A u \in Turns : u # NoTurn
    BY TurnsAssumption
<1>9. \A u \in Turns : Waiting(u)' <=> Waiting(u)
    BY <1>2, <1>4, <1>6, <1>8 DEF Waiting
<1>10. Nested'
    BY <1>1, <1>2, <1>4, <1>6, <1>7 DEF Nested
<1>11. Task(t) = t
    BY <1>4 DEF Task
<1>12. Bots'
    BY <1>1, <1>2, <1>3, <1>4, <1>5, <1>6, <1>9, <1>11 DEF Bots
<1> QED
    BY <1>2, <1>10, <1>12

(* The end of a turn gives its task the bot of the turn around it.         *)
LEMMA EndKeepsBots ==
    ASSUME TurnsInv, Nested, Bots, NEW t \in Turns, End(t)
    PROVE  /\ Nested' /\ Bots' /\ DOMAIN turn' = Turns /\ turn'[t] = Idle
           /\ \A u \in Turns : u # t => turn'[u] = turn[u]
<1>1. /\ turn[t].pc = "finally" /\ ~Waiting(t) /\ Live(t)
      /\ current' = [current EXCEPT ![Task(t)] = turn[t].saved]
    BY DEF End, Live, Restored
<1>2. DOMAIN turn' = Turns /\ turn'[t] = Idle /\ \A u \in Turns : u # t => turn'[u] = turn[u]
    BY DEF End, TurnsInv
<1>3. turn'[t].by = NoTurn /\ ~Live(t)'
    BY <1>2 DEF Idle, Live
<1>4. \A u \in Turns : u # t => (Live(u)' <=> Live(u)) /\ Task(u)' = Task(u)
    BY <1>2 DEF Live, Task
<1>5. \A u \in Turns : Live(u) /\ turn[u].by # NoTurn => turn[u].by # t
    BY <1>1 DEF Waiting
<1>6. Nested'
    BY <1>2, <1>3, <1>4, <1>5 DEF Nested
<1> DEFINE task == Task(t)
<1>7. task \in Turns /\ current'[task] = turn[t].saved /\ DOMAIN current' = Turns
      /\ \A u \in Turns : u # task => current'[u] = current[u]
    BY <1>1 DEF Bots, Nested, Task
<1>8. turn[t].by = NoTurn \/ turn[t].by = task
    BY DEF Task
<1>9. ASSUME NEW u \in Turns, Live(u)', ~Waiting(u)' PROVE current'[Task(u)'] = turn'[u].bot
  <2>1. u # t /\ Live(u) /\ Task(u)' = Task(u) /\ turn'[u] = turn[u]
      BY <1>2, <1>3, <1>4, <1>9
  <2>2. CASE turn[t].by = u
    <3>1. u # NoTurn /\ task = u /\ u \notin NestedTurns /\ turn[t].saved = turn[u].bot
        BY <2>2, <1>1, TurnsAssumption DEF Task, Nested
    <3>2. turn[u].by = NoTurn
        BY <3>1, <2>1 DEF Nested
    <3>3. Task(u) = u
        BY <3>2 DEF Task
    <3> QED
        BY <3>1, <3>3, <2>1, <1>7
  <2>3. CASE turn[t].by # u
    <3>1. ~Waiting(u)
        BY <2>3, <1>9, <1>2, <1>4 DEF Waiting
    <3>2. Task(u) # task /\ Task(u) \in Turns
        BY <2>1, <2>3, <1>1, <1>5, TurnsAssumption DEF Task, Nested
    <3> QED
        BY <3>1, <3>2, <2>1, <1>7 DEF Bots
  <2> QED
      BY <2>2, <2>3
<1>10. ASSUME NEW u \in Turns, u \notin NestedTurns
       PROVE  IF Live(u)' THEN turn'[u].saved = NoBot ELSE current'[u] = NoBot
  <2>1. CASE u = t
    <3>1. turn[t].by = NoTurn /\ turn[t].saved = NoBot
        BY <2>1, <1>1, <1>10 DEF Nested, Bots
    <3>2. task = t
        BY <3>1 DEF Task
    <3> QED
        BY <3>1, <3>2, <2>1, <1>3, <1>7
  <2>2. CASE u # t /\ Live(u)
      BY <2>2, <1>2, <1>4, <1>10 DEF Bots
  <2>3. CASE u # t /\ ~Live(u)
    <3>1. turn[t].by # u
        BY <2>3, <1>1, TurnsAssumption DEF Nested, Live
    <3>2. task # u
        BY <3>1, <2>3 DEF Task
    <3> QED
        BY <3>2, <2>3, <1>4, <1>7, <1>10 DEF Bots
  <2> QED
      BY <2>1, <2>2, <2>3
<1> QED
    BY <1>2, <1>6, <1>7, <1>9, <1>10 DEF Bots

(* A cancelled handler takes the turn around it along.                     *)
LEMMA CancelNestedKeeps ==
    ASSUME TurnsInv, Nested, Bots, NEW t \in Turns, CancelNested(t)
    PROVE  /\ Nested' /\ Bots' /\ DOMAIN turn' = Turns /\ \A u \in Turns : Fits(turn'[u])
<1> DEFINE gone == [pc |-> "finally", raises |-> TRUE, answer |-> NoHandler, out |-> "cancel"]
           p == turn[t].by
<1>1. Live(t) /\ p # NoTurn /\ UNCHANGED <<tree, current>>
      /\ turn' = [turn EXCEPT ![t] = Over(gone, @), ![p] = Over(gone, @)]
    BY DEF CancelNested
<1>2. p \in Turns /\ p \notin NestedTurns /\ t \in NestedTurns
    BY <1>1 DEF Nested
<1>3. /\ DOMAIN turn' = Turns
      /\ turn'[t] = Over(gone, turn[t]) /\ turn'[p] = Over(gone, turn[p])
      /\ \A u \in Turns : u # t /\ u # p => turn'[u] = turn[u]
    BY <1>1, <1>2 DEF TurnsInv
<1>4. DOMAIN gone \subseteq DOMAIN Idle
    BY DEF Idle
<1>5. ASSUME NEW u \in {t, p}
      PROVE  /\ Fits(turn'[u]) /\ turn'[u].pc = "finally" /\ turn'[u].by = turn[u].by
             /\ turn'[u].bot = turn[u].bot /\ turn'[u].saved = turn[u].saved
  <2>1. Fits(turn[u])
      BY <1>2 DEF TurnsInv
  <2>2. Differs(turn[u], turn'[u], gone)
      BY <1>3, <1>4, <2>1, Changed DEF Fits, Typed
  <2>3. /\ SameBut(turn[u], turn'[u], {"pc", "raises", "answer", "out"})
        /\ turn'[u].pc = "finally" /\ turn'[u].raises = TRUE /\ turn'[u].out = "cancel"
        /\ turn'[u].by = turn[u].by /\ turn'[u].bot = turn[u].bot
        /\ turn'[u].saved = turn[u].saved
      BY <2>2 DEF Differs, SameBut, Read, Idle
  <2> QED
      BY <2>1, <2>3, GoneFits
<1>6. \A u \in Turns : Fits(turn'[u])
    BY <1>3, <1>5 DEF TurnsInv
<1>7. Live(p)
    BY <1>1, <1>2 DEF Nested, Live
<1>8. \A u \in Turns : /\ Live(u)' <=> Live(u)
                       /\ turn'[u].by = turn[u].by /\ turn'[u].bot = turn[u].bot
                       /\ turn'[u].saved = turn[u].saved
                       /\ turn[u].pc \in {"body", "finally"} => turn'[u].pc \in {"body", "finally"}
    BY <1>1, <1>3, <1>5, <1>7 DEF Live
<1>9. \A u \in Turns : Task(u)' = Task(u) /\ (Waiting(u)' <=> Waiting(u))
    BY <1>8 DEF Task, Waiting
<1>10. Nested'
    BY <1>8 DEF Nested
<1>11. Bots'
    BY <1>1, <1>8, <1>9 DEF Bots
<1> QED
    BY <1>3, <1>6, <1>10, <1>11

(* A router is included once, so the path above it only ever gets longer.  *)
LEMMA IncludeGrows ==
    ASSUME TreeInv, NEW self \in Routers, NEW router \in Routers, IncludeRouter(self, router)
    PROVE  TreeInv' /\ \A r \in Routers : Above[r] \subseteq Above'[r]
<1>1. /\ parent[router] = NoRouter /\ parent' = [parent EXCEPT ![router] = self]
      /\ children' = [children EXCEPT ![self] = Append(@, router)]
      /\ handlers' = handlers /\ middleware' = middleware
    BY DEF IncludeRouter
<1>2. /\ parent' \in [Routers -> Routers \cup {NoRouter}] /\ parent'[router] = self
      /\ \A r \in Routers : r # router => parent'[r] = parent[r]
    BY <1>1 DEF TreeInv
<1>3. \A r \in Routers : parent[r] \in Routers => r # router
    BY <1>1, TreeAssumption
<1>4. /\ children' \in [Routers -> Seq(Routers)]
      /\ \A r \in Routers : r # self => children'[r] = children[r]
      /\ children'[self] = Append(children[self], router)
    BY <1>1 DEF TreeInv
<1>5. ASSUME NEW r \in Routers, NEW i \in 1..Len(children'[r]) PROVE parent'[children'[r][i]] = r
  <2>0. children[r] \in Seq(Routers) /\ \A j \in 1..Len(children[r]) : parent[children[r][j]] = r
      BY DEF TreeInv
  <2> DEFINE kids == children[r]
  <2> HIDE DEF kids
  <2>k. kids \in Seq(Routers) /\ \A j \in 1..Len(kids) : parent[kids[j]] = r /\ kids[j] \in Routers
      BY <2>0 DEF kids
  <2>1. ASSUME NEW j \in 1..Len(kids) PROVE parent'[kids[j]] = r
      BY <2>k, <1>2, <1>3
  <2>2. CASE r # self
    <3>1. children'[r] = kids
        BY <2>2, <1>4 DEF kids
    <3> QED
        BY <3>1, <2>1, <1>5
  <2>3. CASE r = self
    <3>1. children'[r] = Append(kids, router)
        BY <2>3, <1>4 DEF kids
    <3>2. /\ Len(Append(kids, router)) = Len(kids) + 1
          /\ Append(kids, router)[Len(kids) + 1] = router
          /\ \A j \in 1..Len(kids) : Append(kids, router)[j] = kids[j]
        BY <2>k
    <3>3. CASE i \in 1..Len(kids)
        BY <3>3, <3>1, <3>2, <2>1
    <3>4. CASE i = Len(kids) + 1
        BY <3>4, <3>1, <3>2, <2>3, <1>2
    <3>5. i \in 1..(Len(kids) + 1) /\ Len(kids) \in Nat
        BY <3>1, <3>2, <2>k, <1>5
    <3> QED
        BY <3>3, <3>4, <3>5
  <2> QED
      BY <2>2, <2>3
<1>6. TreeInv'
    BY <1>1, <1>2, <1>4, <1>5 DEF TreeInv
<1>7. ASSUME NEW r \in Routers PROVE Path(r) \subseteq Path(r)'
  <2> SUFFICES ASSUME NEW s \in Path(r), NEW S \in SUBSET Routers, r \in S,
                      \A x \in S : parent'[x] \in Routers => parent'[x] \in S
               PROVE  s \in S
      BY DEF Path
  <2>1. \A x \in S : parent[x] \in Routers => parent[x] \in S
      BY <1>2, <1>3
  <2> QED
      BY <2>1 DEF Path
<1>8. \A r \in Routers : Above[r] \subseteq Above'[r]
    BY <1>1, <1>7 DEF Above
<1> QED
    BY <1>6, <1>8

(* Nothing is ever taken out of the tree.                                  *)
LEMMA GrowKeeps ==
    ASSUME TreeInv, Grow
    PROVE  TreeInv' /\ \A r \in Routers : Above[r] \subseteq Above'[r]
<1>1. ASSUME NEW i \in Includes, IncludeRouter(i[1], i[2])
      PROVE  TreeInv' /\ \A r \in Routers : Above[r] \subseteq Above'[r]
  <2>1. i[1] \in Routers /\ i[2] \in Routers
      BY ProgramAssumption
  <2> QED
      BY <1>1, <2>1, IncludeGrows
<1>2. ASSUME NEW l \in LateHandlers, Register(l[1], l[2], l[3])
      PROVE  TreeInv' /\ \A r \in Routers : Above[r] \subseteq Above'[r]
  <2>1. l[1] \in Routers /\ l[2] \in Observers /\ l[3] \in Handlers
      BY ProgramAssumption
  <2>2. /\ handlers' = [handlers EXCEPT ![l[1]][l[2]] = Append(@, l[3])]
        /\ UNCHANGED <<parent, children, middleware>>
      BY <1>2 DEF Register
  <2>3. handlers \in [Routers -> [Observers -> Seq(Handlers)]]
      BY DEF TreeInv
  <2>4. Append(handlers[l[1]][l[2]], l[3]) \in Seq(Handlers)
      BY <2>1, <2>3
  <2>5. handlers' \in [Routers -> [Observers -> Seq(Handlers)]]
      BY <2>1, <2>2, <2>3, <2>4
  <2>6. TreeInv'
      BY <2>2, <2>5 DEF TreeInv
  <2>7. Above' = Above
      BY <2>2 DEF Above, Path
  <2> QED
      BY <2>6, <2>7
<1>3. ASSUME NEW m \in LateMiddlewares, Use(m[1], m[2])
      PROVE  TreeInv' /\ \A r \in Routers : Above[r] \subseteq Above'[r]
  <2>1. m[1] \in Routers /\ m[2] \in Middlewares
      BY ProgramAssumption
  <2>2. /\ middleware' = [middleware EXCEPT ![m[1]] = Append(@, m[2])]
        /\ UNCHANGED <<parent, children, handlers>>
      BY <1>3 DEF Use
  <2>3. middleware \in [Routers -> Seq(Middlewares)]
      BY DEF TreeInv
  <2>4. middleware[m[1]] \in Seq(Middlewares) /\ Append(middleware[m[1]], m[2]) \in Seq(Middlewares)
      BY <2>1, <2>3
  <2>5. middleware' \in [Routers -> Seq(Middlewares)]
      BY <2>2, <2>3, <2>4
  <2>6. TreeInv'
      BY <2>2, <2>5 DEF TreeInv
  <2>7. \A r \in Routers : Range(middleware[r]) \subseteq Range(middleware'[r])
    <3> SUFFICES ASSUME NEW r \in Routers PROVE Range(middleware[r]) \subseteq Range(middleware'[r])
        OBVIOUS
    <3> DEFINE items == middleware[r]
    <3>1. items \in Seq(Middlewares)
        BY <2>3
    <3>2. middleware'[r] = items \/ middleware'[r] = Append(items, m[2])
        BY <2>1, <2>2, <2>3
    <3> HIDE DEF items
    <3>3. /\ DOMAIN Append(items, m[2]) = 1..(Len(items) + 1) /\ DOMAIN items = 1..Len(items)
          /\ \A i \in 1..Len(items) : Append(items, m[2])[i] = items[i]
          /\ Len(items) \in Nat
        BY <3>1
    <3>4. Range(items) \subseteq Range(Append(items, m[2]))
        BY <3>3 DEF Range
    <3> QED
        BY <3>2, <3>4 DEF items
  <2>8. \A r \in Routers : Path(r)' = Path(r)
      BY <2>2 DEF Path
  <2>9. \A r \in Routers : Above[r] \subseteq Above'[r]
    <3>1. \A r \in Routers : Path(r) \subseteq Routers
        BY DEF Path
    <3> QED
        BY <3>1, <2>7, <2>8 DEF Above
  <2> QED
      BY <2>6, <2>9
<1> QED
    BY <1>1, <1>2, <1>3 DEF Grow

-----------------------------------------------------------------------------
LEMMA InitDispatchInv == Init => DispatchInv
<1> SUFFICES ASSUME Init PROVE DispatchInv
    OBVIOUS
<1>1. TreeInv
  <2>1. \A r \in Routers : children[r] = <<>> /\ Len(children[r]) = 0
      BY DEF Init, TreeInit
  <2>2. \A i \in 1..0 : FALSE
      OBVIOUS
  <2>3. parent \in [Routers -> Routers \cup {NoRouter}] /\ children \in [Routers -> Seq(Routers)]
      BY DEF Init, TreeInit
  <2> QED
      BY <2>1, <2>2, <2>3, TreeAssumption, HandlersAssumption DEF Init, TreeInit, TreeInv
<1>2. turn = [t \in Turns |-> Idle] /\ current = [t \in Turns |-> NoBot]
    BY DEF Init, DispatchInit
<1>3. TurnsInv
    BY <1>2, IdleFits DEF TurnsInv
<1>4. \A t \in Turns : ~Live(t)
    BY <1>2 DEF Live, Idle
<1>5. Nested
    BY <1>4 DEF Nested
<1>6. Bots
    BY <1>2, <1>4 DEF Bots
<1> QED
    BY <1>1, <1>3, <1>5, <1>6 DEF DispatchInv

(* The steps of both dispatchers within a turn.                            *)
LEMMA ProceedKeeps ==
    ASSUME DispatchInv, NEW t \in Turns, Proceed(t)
    PROVE  DispatchInv'
<1> USE DEF DispatchInv
<1>1. \/ Moves(t) /\ Fits(turn'[t])
      \/ End(t)
  <2>1. CASE turn[t].kind = "workspace"
    <3>1. EventStep(t)
        BY <2>1 DEF Proceed
    <3>2. CASE WalkEvents(t)
        BY <2>1, <3>2, WalkEventsFit, WalkingMoves
    <3>3. CASE Exhausted(t)
        BY <3>3, ExhaustedFits, WalkingMoves
    <3>4. CASE ResolveEvent(t)
        BY <3>4, ResolveFits, CallingMoves
    <3>5. CASE EventReturned(t)
        BY <2>1, <3>5, ReturnedFits, CallingMoves
    <3>6. ASSUME NEW out, NEW keys \in {{}, {Head(turn[t].candidates)}, {"context"}},
                 EventFilters(t, out, keys)
          PROVE  Moves(t) /\ Fits(turn'[t])
        BY <2>1, <3>6, EventFiltersFit, FilteringMoves
    <3>7. ASSUME NEW out \in Outcomes \cup {"next"}, Middleware(t, out) \/ Unwind(t, out)
          PROVE  Moves(t) /\ Fits(turn'[t])
        BY <3>7, MiddlewareFits, UnwindFits, CallingMoves
    <3>8. ASSUME NEW out \in Outcomes, Body(t, out) PROVE Moves(t) /\ Fits(turn'[t])
        BY <3>8, BodyFits, CallingMoves
    <3> QED
        BY <3>1, <3>2, <3>3, <3>4, <3>5, <3>6, <3>7, <3>8 DEF EventStep
  <2>2. CASE turn[t].kind # "workspace"
    <3>1. Step(t)
        BY <2>2 DEF Proceed
    <3>2. CASE Select(t)
        BY <3>2, SelectFits, WalkingMoves
    <3>3. CASE Unmatched(t)
        BY <2>2, <3>3, UnmatchedFits, WalkingMoves
    <3>4. CASE Walk(t)
        BY <3>4, WalkFits, WalkingMoves
    <3>5. CASE Exhausted(t)
        BY <3>5, ExhaustedFits, WalkingMoves
    <3>6. CASE Resolve(t)
        BY <3>6, ResolveFits, CallingMoves
    <3>7. CASE Returned(t)
        BY <2>2, <3>7, ReturnedFits, CallingMoves
    <3>8. ASSUME NEW out, NEW keys \in Added(turn[t].at), ObserverFilters(t, out, keys)
          PROVE  Moves(t) /\ Fits(turn'[t])
        BY <2>2, <3>8, ObserverFiltersFit, FilteringMoves
    <3>9. ASSUME NEW out, NEW keys \in Added(Head(turn[t].candidates)), HandlerFilters(t, out, keys)
          PROVE  Moves(t) /\ Fits(turn'[t])
        BY <2>2, <3>9, HandlerFiltersFit, FilteringMoves
    <3>10. ASSUME NEW out \in Outcomes \cup {"next"}, Middleware(t, out) \/ Unwind(t, out)
           PROVE  Moves(t) /\ Fits(turn'[t])
        BY <3>10, MiddlewareFits, UnwindFits, CallingMoves
    <3>11. ASSUME NEW out \in Outcomes, Body(t, out) PROVE Moves(t) /\ Fits(turn'[t])
        BY <3>11, BodyFits, CallingMoves
    <3> QED
        BY <3>1, <3>2, <3>3, <3>4, <3>5, <3>6, <3>7, <3>8, <3>9, <3>10, <3>11 DEF Step
  <2> QED
      BY <2>1, <2>2
<1>2. CASE Moves(t) /\ Fits(turn'[t])
  <2>1. /\ DOMAIN turn' = Turns /\ UNCHANGED tree
        /\ \A u \in Turns : Fits(turn'[u])
      BY <1>2 DEF Moves, TurnsInv
  <2> QED
      BY <1>2, <2>1, TreeStays, FitsStay, MovesKeepBots
<1>3. CASE End(t)
  <2>1. /\ DOMAIN turn' = Turns /\ UNCHANGED tree
        /\ \A u \in Turns : Fits(turn'[u])
      BY <1>3, EndKeepsBots, IdleFits DEF End, TurnsInv
  <2> QED
      BY <1>3, <2>1, TreeStays, FitsStay, EndKeepsBots
<1> QED
    BY <1>1, <1>2, <1>3

LEMMA CancelledKeeps ==
    ASSUME DispatchInv, NEW t \in Turns, Cancelled(t)
    PROVE  DispatchInv'
<1> USE DEF DispatchInv
<1>1. CASE Cancel(t)
  <2> DEFINE gone == [pc |-> "finally", raises |-> TRUE, answer |-> NoHandler, out |-> "cancel"]
  <2>1. Become(t, gone) /\ Live(t) /\ ~Waiting(t)
      BY <1>1 DEF Cancel
  <2>2. Routes(gone) /\ DOMAIN gone \subseteq DOMAIN Idle
      BY DEF Routes, Idle
  <2>3. Moves(t)
      BY <2>1, <2>2, RoutesMoves
  <2>4. Differs(turn[t], turn'[t], gone)
      BY <2>1, <2>2, Becoming
  <2>5. /\ SameBut(turn[t], turn'[t], {"pc", "raises", "answer", "out"})
        /\ turn'[t].pc = "finally" /\ turn'[t].raises = TRUE /\ turn'[t].out = "cancel"
      BY <2>4 DEF Differs, SameBut, Read, Idle
  <2>6. Fits(turn[t])
      BY DEF TurnsInv
  <2>7. Fits(turn'[t])
      BY <2>5, <2>6, GoneFits
  <2>8. DOMAIN turn' = Turns /\ UNCHANGED tree /\ \A u \in Turns : Fits(turn'[u])
      BY <2>3, <2>7 DEF Moves, TurnsInv
  <2> QED
      BY <2>3, <2>8, TreeStays, FitsStay, MovesKeepBots
<1>2. CASE CancelNested(t)
  <2>1. UNCHANGED tree
      BY <1>2 DEF CancelNested
  <2> QED
      BY <1>2, <2>1, TreeStays, FitsStay, CancelNestedKeeps
<1> QED
    BY <1>1, <1>2 DEF Cancelled

LEMMA FedKeeps ==
    ASSUME DispatchInv, NEW t \in Turns, Fed(t)
    PROVE  DispatchInv'
<1> USE DEF DispatchInv
<1>1. CASE FeedEvent(t)
  <2>1. DOMAIN turn' = Turns /\ UNCHANGED tree
      BY <1>1 DEF FeedEvent, Become, TurnsInv
  <2>2. \A u \in Turns : Fits(turn'[u])
      BY <1>1, FeedEventFits, FeedEventKeepsBots DEF TurnsInv
  <2> QED
      BY <1>1, <2>1, <2>2, TreeStays, FitsStay, FeedEventKeepsBots
<1>2. ASSUME NEW kind \in (RootKinds \cap Kinds) \cup NestedKinds, NEW p \in Turns \cup {NoTurn},
             NEW bot, Feed(t, kind, p, bot)
      PROVE  DispatchInv'
  <2>1. UNCHANGED tree
      BY <1>2 DEF Feed
  <2>2. DOMAIN turn' = Turns /\ \A u \in Turns : Fits(turn'[u])
      BY <1>2, Feeding DEF TurnsInv
  <2> QED
      BY <1>2, <2>1, <2>2, TreeStays, FitsStay, FeedKeepsBots
<1> QED
    BY <1>1, <1>2 DEF Fed

LEMMA NextDispatchInv == DispatchInv /\ [Next]_vars => DispatchInv'
<1> SUFFICES ASSUME DispatchInv, [Next]_vars PROVE DispatchInv'
    OBVIOUS
<1>1. ASSUME UNCHANGED <<turn, current>>, TreeInv', \A r \in Routers : Above[r] \subseteq Above'[r]
      PROVE  DispatchInv'
  <2>1. TurnsInv'
      BY <1>1, FitsStay DEF DispatchInv, TurnsInv
  <2>2. Nested'
      BY <1>1 DEF DispatchInv, Nested, Live
  <2>3. Bots'
      BY <1>1 DEF DispatchInv, Bots, Live, Waiting, Task
  <2> QED
      BY <1>1, <2>1, <2>2, <2>3 DEF DispatchInv
<1>2. ASSUME UNCHANGED dispatchVars PROVE DispatchInv'
    BY <1>1, <1>2, TreeStays DEF dispatchVars, DispatchInv
<1>3. CASE UNCHANGED vars
    BY <1>2, <1>3 DEF vars
<1>4. CASE Grow
    BY <1>1, <1>4, GrowKeeps DEF Grow, DispatchInv
<1>5. CASE Lifespan
    BY <1>2, <1>5 DEF Lifespan
<1>6. ASSUME NEW t \in Turns, Fed(t) \/ Proceed(t) \/ Cancelled(t) PROVE DispatchInv'
    BY <1>6, FedKeeps, ProceedKeeps, CancelledKeeps
<1> QED
    BY <1>3, <1>4, <1>5, <1>6 DEF Next

(* The caller of feed_update is told what happened, whichever handlers,     *)
(* filters and middlewares there are, and whatever they do.                *)
THEOREM CallersAreTold == Spec => []CallerIsTold
<1>1. DispatchInv => CallerIsTold
  <2> SUFFICES ASSUME DispatchInv, NEW t \in Turns, turn[t].pc = "finally", turn[t].out # "cancel"
               PROVE  /\ turn[t].failure # "none" => turn[t].raises \/ turn[t].answer # NoHandler
                      /\ turn[t].raises => turn[t].answer = NoHandler
                      /\ ~turn[t].meddled =>
                           turn[t].done = (IF turn[t].answer = NoHandler THEN {} ELSE {turn[t].answer})
      BY DEF CallerIsTold
  <2>1. Honest(turn[t]) /\ Typed(turn[t])
      BY DEF DispatchInv, TurnsInv, Fits
  <2> QED
      BY <2>1 DEF Honest, Typed
<1> QED
    BY <1>1, InitDispatchInv, NextDispatchInv, PTL DEF Spec

(* A handler sees what its own filters, its router's and the middlewares    *)
(* above it provide, and the bot of its own turn.                          *)
THEOREM ContextsAreIsolated == Spec => []ContextIsolated
<1>1. DispatchInv => ContextIsolated
  <2> SUFFICES ASSUME DispatchInv, NEW t \in Turns, turn[t].pc = "body"
               PROVE  /\ turn[t].data \subseteq
                           BaseKeys \cup {"context", turn[t].at, turn[t].handler}
                           \cup UNION {Range(middleware[r]) : r \in Path(turn[t].at)}
                      /\ Range(turn[t].around) \subseteq turn[t].data
                      /\ ~Waiting(t) => current[Task(t)] = turn[t].bot
      BY DEF ContextIsolated
  <2>1. Scoped(turn[t]) /\ turn[t].at \in Routers
      BY DEF DispatchInv, TurnsInv, Fits, Typed
  <2>2. Live(t)
      BY DEF Live
  <2>3. ~Waiting(t) => current[Task(t)] = turn[t].bot
      BY <2>2 DEF DispatchInv, Bots
  <2>4. Above[turn[t].at] = UNION {Range(middleware[r]) : r \in Path(turn[t].at)}
      BY <2>1 DEF Above
  <2> QED
      BY <2>1, <2>3, <2>4 DEF Scoped
<1> QED
    BY <1>1, InitDispatchInv, NextDispatchInv, PTL DEF Spec

-----------------------------------------------------------------------------
(* The order of a walk. *)

(* A router is a child of its parent, once, and no router is above itself. *)
Linked ==
    /\ \A r \in Routers : \A i, j \in 1..Len(children[r]) :
          children[r][i] = children[r][j] => i = j
    /\ \A r \in Routers : parent[r] \in Routers =>
          parent[r] # r /\ \E i \in 1..Len(children[parent[r]]) : children[parent[r]][i] = r
    /\ \A r, s \in Routers : r \in Path(s) /\ s \in Path(r) => r = s

(* What a turn needs to know of the tree: what is above what, what is       *)
(* beside what, and the handlers.                                           *)
Ordering ==
    [ up |-> {p \in Routers \X Routers : p[1] \in Path(p[2])},
      beside |-> {p \in Routers \X Routers : Beside(p[1], p[2])},
      handlers |-> handlers ]

First(O, r, s) == (<<r, s>> \in O.up /\ r # s) \/ <<r, s>> \in O.beside

Comes(O, x, y, observer) ==
    \/ First(O, x[1], y[1])
    \/ x[1] = y[1] /\ \E i, j \in 1..Len(O.handlers[x[1]][observer]) :
          i < j /\ O.handlers[x[1]][observer][i] = x[2] /\ O.handlers[x[1]][observer][j] = y[2]

Walking(T) == T.pc \in {"walk", "filters", "candidates", "frame", "body", "unwind"}

(* At a router, whose handlers are asked one by one. *)
Within(T) == T.pc \in {"filters", "candidates", "frame", "body", "unwind"}

Had(T, x) == \E i \in 1..Len(T.offered) : T.offered[i] = x

(* The part of OfferedInOrder that stands whatever the turn goes on to do.  *)
Ordered(T, O) ==
    /\ \A i, j \in 1..Len(T.offered) : i < j => Comes(O, T.offered[i], T.offered[j], T.pass)
    /\ \A i \in 1..Len(T.offered) : T.offered[i][1] \notin T.declined
    /\ \A x \in T.roster : Had(T, x) \/ x[1] \in T.declined \/
          \A i \in 1..Len(T.offered) : Comes(O, T.offered[i], x, T.pass)

(* The routers it has dealt with. *)
Passed(T) == {T.offered[i][1] : i \in 1..Len(T.offered)} \cup T.declined

(* What is left of the walk comes after that, entry after entry, and no    *)
(* entry is below another.                                                 *)
Ahead(T, O) ==
    /\ \A i, j \in 1..Len(T.todo) : i < j => <<T.todo[i].router, T.todo[j].router>> \in O.beside
    /\ \A i \in 1..Len(T.todo) : \A r \in Passed(T) : First(O, r, T.todo[i].router)

(* Where it is comes in between, and of the handlers there, those that are *)
(* left to be asked come after those that were asked.                      *)
Here(T, O) ==
    /\ \A i \in 1..Len(T.todo) : <<T.at, T.todo[i].router>> \in O.beside
    /\ \A r \in Passed(T) : First(O, r, T.at) \/ (T.pc # "filters" /\ r = T.at)
    /\ T.at \notin T.declined
    /\ \E k \in Nat :
          /\ k + Len(T.candidates) <= Len(O.handlers[T.at][T.pass])
          /\ \A i \in 1..Len(T.candidates) : T.candidates[i] = O.handlers[T.at][T.pass][k + i]
          /\ \A i \in 1..Len(T.offered) : T.offered[i][1] = T.at =>
                \E j \in 1..k : O.handlers[T.at][T.pass][j] = T.offered[i][2]

(* Where the walk will still come to x. *)
Pending(T, O, x) ==
    \/ \E i \in 1..Len(T.todo) : <<T.todo[i].router, x[1]>> \in O.up
    \/ Within(T) /\ <<T.at, x[1]>> \in O.up /\ T.at # x[1]
    \/ Within(T) /\ T.at = x[1] /\ \E i \in 1..Len(T.candidates) : T.candidates[i] = x[2]

Complete(T, O) ==
    \A x \in T.roster : Had(T, x) \/ x[1] \in T.declined \/ Pending(T, O, x)

Listed(T, O) ==
    /\ T.kind = "workspace" => T.pass = "workspace_event"
    /\ T.offered \in Seq(Routers \X Handlers)
    /\ T.offered # <<>> => T.pass \in Observers
    /\ T.declined \subseteq Routers
    /\ T.roster \subseteq Routers \X Handlers
    /\ Walking(T) => \A x \in T.roster :
          \E i \in 1..Len(O.handlers[x[1]][T.pass]) : O.handlers[x[1]][T.pass][i] = x[2]

Lined(T, O) ==
    /\ Listed(T, O)
    /\ Ordered(T, O)
    /\ Walking(T) => Ahead(T, O) /\ Complete(T, O)
    /\ Within(T) => Here(T, O)

OrderInv == Linked /\ \A t \in Turns : Lined(turn[t], Ordering)
-----------------------------------------------------------------------------
(* Paths through the tree. *)

(* A router's path is the router and the path of its parent.               *)
LEMMA PathIsUp ==
    ASSUME NEW r \in Routers
    PROVE  /\ r \in Path(r) /\ Path(r) \subseteq Routers
           /\ \A s \in Path(r) : Path(s) \subseteq Path(r)
           /\ parent[r] \in Routers => parent[r] \in Path(r) /\ Path(r) = {r} \cup Path(parent[r])
           /\ parent[r] \notin Routers => Path(r) = {r}
<1>1. r \in Path(r) /\ Path(r) \subseteq Routers
    BY DEF Path
<1>2. ASSUME NEW s \in Path(r) PROVE Path(s) \subseteq Path(r)
  <2> SUFFICES ASSUME NEW x \in Path(s), NEW S \in SUBSET Routers, r \in S,
                      \A y \in S : parent[y] \in Routers => parent[y] \in S
               PROVE  x \in S
      BY DEF Path
  <2>1. s \in S
      BY <1>2 DEF Path
  <2> QED
      BY <2>1 DEF Path
<1>3. ASSUME parent[r] \in Routers
      PROVE  parent[r] \in Path(r) /\ Path(r) = {r} \cup Path(parent[r])
  <2>1. parent[r] \in Path(r)
      BY <1>3 DEF Path
  <2>2. {r} \cup Path(parent[r]) \subseteq Path(r)
      BY <1>1, <1>2, <2>1
  <2> DEFINE S == {r} \cup Path(parent[r])
  <2>3. S \in SUBSET Routers /\ r \in S
      BY DEF Path
  <2>4. ASSUME NEW x \in S, parent[x] \in Routers PROVE parent[x] \in S
    <3>1. CASE x = r
        BY <3>1, <1>3 DEF Path
    <3>2. CASE x \in Path(parent[r])
        BY <3>2, <2>4 DEF Path
    <3> QED
        BY <3>1, <3>2
  <2> HIDE DEF S
  <2>5. Path(r) \subseteq S
      BY <2>3, <2>4 DEF Path
  <2> QED
      BY <2>1, <2>2, <2>5 DEF S
<1>4. ASSUME parent[r] \notin Routers PROVE Path(r) = {r}
  <2>1. {r} \in SUBSET Routers /\ \A x \in {r} : parent[x] \in Routers => parent[x] \in {r}
      BY <1>4
  <2> QED
      BY <1>1, <2>1 DEF Path
<1> QED
    BY <1>1, <1>2, <1>3, <1>4

(* Of two routers above a third, one is above the other.                   *)
LEMMA PathIsAChain ==
    ASSUME NEW r \in Routers, NEW a \in Path(r), NEW b \in Path(r)
    PROVE  a \in Path(b) \/ b \in Path(a)
<1> DEFINE S == {s \in Routers : s \in Path(b) \/ b \in Path(s)}
<1>1. b \in Routers /\ r \in S
    BY PathIsUp
<1>2. ASSUME NEW x \in S, parent[x] \in Routers PROVE parent[x] \in S
  <2>1. CASE x \in Path(b)
      BY <2>1, <1>2, <1>1, PathIsUp
  <2>2. CASE b \in Path(x) /\ x # b
      BY <2>2, <1>2, PathIsUp
  <2>3. CASE x = b
      BY <2>3, <1>2, PathIsUp
  <2> QED
      BY <2>1, <2>2, <2>3
<1>3. S \in SUBSET Routers
    OBVIOUS
<1> HIDE DEF S
<1>4. a \in S
    BY <1>1, <1>2, <1>3 DEF Path
<1> QED
    BY <1>4 DEF S

(* Between a router and one above it there is a child of the latter.       *)
LEMMA ChildBetween ==
    ASSUME Linked, NEW r \in Routers, NEW p \in Path(r), p # r
    PROVE  \E i \in 1..Len(children[p]) : children[p][i] \in Path(r)
<1> DEFINE S == Path(r) \ {p}
<1> SUFFICES ASSUME \A i \in 1..Len(children[p]) : children[p][i] \notin Path(r)
             PROVE  FALSE
    OBVIOUS
<1>1. S \in SUBSET Routers /\ r \in S
    BY PathIsUp
<1>2. ASSUME NEW x \in S, parent[x] \in Routers PROVE parent[x] \in S
  <2>1. parent[x] \in Path(r)
      BY <1>2, <1>1, PathIsUp
  <2>2. parent[x] # p
      BY <1>2, <1>1 DEF Linked
  <2> QED
      BY <2>1, <2>2
<1> HIDE DEF S
<1>3. p \in S
    BY <1>1, <1>2 DEF Path
<1> QED
    BY <1>3 DEF S

(* A child is another router, below the one that includes it.              *)
LEMMA ChildrenAreBelow ==
    ASSUME TreeInv, Linked, NEW p \in Routers, NEW i \in 1..Len(children[p])
    PROVE  /\ children[p][i] \in Routers /\ parent[children[p][i]] = p
           /\ children[p][i] # p /\ Path(children[p][i]) = {children[p][i]} \cup Path(p)
           /\ children[p][i] \notin Path(p)
<1>1. children[p] \in Seq(Routers)
    BY DEF TreeInv
<1>2. children[p][i] \in Routers /\ parent[children[p][i]] = p
    BY <1>1 DEF TreeInv
<1>3. children[p][i] # p /\ p \in Path(children[p][i])
    BY <1>2, PathIsUp DEF Linked
<1> QED
    BY <1>2, <1>3, PathIsUp DEF Linked

(* The children, as a sequence of routers.                                 *)
LEMMA KidsAre ==
    ASSUME TreeInv, NEW p \in Routers
    PROVE  DOMAIN children[p] = 1..Len(children[p]) /\ Len(children[p]) \in Nat
BY DEF TreeInv

(* What is beside something is so with all that is below it.               *)
LEMMA BesideLifts ==
    ASSUME NEW r \in Routers, NEW s \in Routers, NEW a \in Routers, NEW b \in Routers,
           Beside(r, s), r \in Path(a), s \in Path(b)
    PROVE  Beside(a, b)
<1>1. Path(r) \subseteq Path(a) /\ Path(s) \subseteq Path(b)
    BY PathIsUp
<1> QED
    BY <1>1 DEF Beside

(* No path leads through two children of one router.                       *)
LEMMA SiblingsAreApart ==
    ASSUME TreeInv, Linked, NEW p \in Routers, NEW i \in 1..Len(children[p]),
           NEW j \in 1..Len(children[p]), NEW r \in Routers,
           children[p][i] \in Path(r), children[p][j] \in Path(r)
    PROVE  i = j
<1> DEFINE a == children[p][i]
           b == children[p][j]
<1>1. /\ a \in Routers /\ b \in Routers /\ Path(a) = {a} \cup Path(p) /\ Path(b) = {b} \cup Path(p)
      /\ a \notin Path(p) /\ b \notin Path(p)
    BY ChildrenAreBelow
<1>2. a \in Path(b) \/ b \in Path(a)
    BY PathIsAChain
<1>3. a = b
    BY <1>1, <1>2
<1> QED
    BY <1>3 DEF Linked

(* No router comes before itself.                                          *)
LEMMA NothingPrecedesItself ==
    ASSUME TreeInv, Linked, NEW r \in Routers
    PROVE  ~Precedes(r, r)
<1> SUFFICES ASSUME Beside(r, r) PROVE FALSE
    BY DEF Precedes
<1>1. PICK p \in Routers : \E i, j \in 1..Len(children[p]) :
          i < j /\ children[p][i] \in Path(r) /\ children[p][j] \in Path(r)
    BY KidsAre DEF Beside
<1>2. PICK i \in 1..Len(children[p]), j \in 1..Len(children[p]) :
          i < j /\ children[p][i] \in Path(r) /\ children[p][j] \in Path(r)
    BY <1>1
<1>3. i = j
    BY <1>2, SiblingsAreApart
<1> QED
    BY <1>2, <1>3

(* What precedes a router precedes all that is below it.                   *)
LEMMA PrecedesLifts ==
    ASSUME Linked, NEW r \in Routers, NEW s \in Routers, NEW b \in Routers,
           Precedes(r, s), s \in Path(b)
    PROVE  Precedes(r, b)
<1>1. CASE Beside(r, s)
    BY <1>1, BesideLifts, PathIsUp DEF Precedes
<1>2. CASE r \in Path(s) /\ r # s
  <2>1. r \in Path(b)
      BY <1>2, PathIsUp
  <2>2. r # b
      BY <1>2 DEF Linked
  <2> QED
      BY <2>1, <2>2 DEF Precedes
<1> QED
    BY <1>1, <1>2 DEF Precedes

(* A router that is not above another may get it as a child.               *)
LEMMA ContainsWhatIsBelow ==
    ASSUME Linked, TreeInv, NEW r \in Routers, NEW c \in Routers, r \in Path(c)
    PROVE  _contains(r, c)
<1> SUFFICES ASSUME NEW S \in SUBSET Routers, r \in S, \A x \in S : Range(children[x]) \subseteq S,
                    c \notin S
             PROVE  FALSE
    BY DEF _contains
<1> DEFINE T == Routers \ S
<1>1. ASSUME NEW x \in T, parent[x] \in Routers PROVE parent[x] \in T
  <2> SUFFICES ASSUME parent[x] \in S PROVE FALSE
      BY <1>1
  <2>1. x \in Range(children[parent[x]])
      BY <1>1, KidsAre DEF Linked, Range
  <2> QED
      BY <2>1
<1>2. T \in SUBSET Routers /\ c \in T
    OBVIOUS
<1> HIDE DEF T
<1>3. r \in T
    BY <1>1, <1>2 DEF Path
<1> QED
    BY <1>3 DEF T

(* The order is transitive: two places where siblings part lie on one path, *)
(* and the upper one decides.                                              *)
LEMMA PrecedesIsTransitive ==
    ASSUME TreeInv, Linked, NEW r \in Routers, NEW s \in Routers, NEW u \in Routers,
           Precedes(r, s), Precedes(s, u)
    PROVE  Precedes(r, u)
<1>1. CASE s \in Path(u) /\ s # u
    BY <1>1, PrecedesLifts
<1>2. CASE Beside(s, u)
  <2>1. PICK q \in Routers : \E k, l \in 1..Len(children[q]) :
            k < l /\ children[q][k] \in Path(s) /\ children[q][l] \in Path(u)
      BY <1>2, KidsAre DEF Beside
  <2>2. PICK k \in 1..Len(children[q]), l \in 1..Len(children[q]) :
            k < l /\ children[q][k] \in Path(s) /\ children[q][l] \in Path(u)
      BY <2>1
  <2> DEFINE c == children[q][k]
             d == children[q][l]
  <2>3. /\ c \in Routers /\ Path(c) = {c} \cup Path(q) /\ c \notin Path(q)
        /\ d \in Routers /\ Path(d) = {d} \cup Path(q) /\ d \notin Path(q)
      BY ChildrenAreBelow
  <2>4. c \in Path(s) /\ d \in Path(u) /\ k < l
      BY <2>2
  <2>5. Path(q) \subseteq Path(u)
      BY <2>3, <2>4, PathIsUp
  <2>b. \A a \in Routers : c \in Path(a) => Beside(a, u)
      BY <2>4, KidsAre DEF Beside
  <2> HIDE DEF c, d
  <2>6. CASE r \in Path(s) /\ r # s
    <3>1. c \in Path(r) \/ r \in Path(c)
        BY <2>4, <2>6, PathIsAChain
    <3>2. CASE c \in Path(r)
        BY <3>2, <2>b DEF Precedes
    <3>3. CASE r \in Path(c) /\ c \notin Path(r)
      <4>1. r \in Path(q)
          BY <3>3, <2>3, PathIsUp
      <4>2. r # u
        <5> SUFFICES ASSUME r = u PROVE FALSE
            OBVIOUS
        <5>1. d \in Path(q)
            BY <4>1, <2>4, PathIsUp
        <5> QED
            BY <5>1, <2>3
      <4> QED
          BY <4>1, <4>2, <2>5 DEF Precedes
    <3> QED
        BY <3>1, <3>2, <3>3
  <2>7. CASE Beside(r, s)
    <3>1. PICK p \in Routers : \E i, j \in 1..Len(children[p]) :
              i < j /\ children[p][i] \in Path(r) /\ children[p][j] \in Path(s)
        BY <2>7, KidsAre DEF Beside
    <3>2. PICK i \in 1..Len(children[p]), j \in 1..Len(children[p]) :
              i < j /\ children[p][i] \in Path(r) /\ children[p][j] \in Path(s)
        BY <3>1
    <3> DEFINE e == children[p][i]
               f == children[p][j]
    <3>3. /\ f \in Routers /\ Path(f) = {f} \cup Path(p) /\ parent[f] = p
          /\ e \in Routers /\ Path(e) = {e} \cup Path(p)
        BY ChildrenAreBelow
    <3>4. f \in Path(c) \/ c \in Path(f)
        BY <2>4, <3>2, PathIsAChain
    <3>5. CASE f = c
      <4>1. p = q
          BY <3>3, <3>5, <2>2, ChildrenAreBelow DEF c
      <4>2. j = k
          BY <4>1, <3>5 DEF Linked, c
      <4>3. /\ i \in 1..Len(children[p]) /\ l \in 1..Len(children[p]) /\ i < l
            /\ children[p][i] \in Path(r) /\ children[p][l] \in Path(u)
        <5>1. i < l
          <6>1. i < j /\ j < l /\ i \in Nat /\ j \in Nat /\ l \in Nat
              BY <4>2, <3>2, <2>2
          <6> QED
              BY <6>1
        <5> QED
            BY <4>1, <5>1, <3>2, <2>2
      <4> QED
          BY <4>3, KidsAre DEF Precedes, Beside
    <3>6. CASE f \in Path(c) /\ f # c
      <4>1. f \in Path(u)
          BY <3>6, <2>3, <2>5
      <4> QED
          BY <4>1, <3>2, KidsAre DEF Precedes, Beside
    <3>7. CASE c \in Path(f) /\ f # c
      <4>1. c \in Path(e)
          BY <3>7, <3>3
      <4>2. c \in Path(r)
          BY <4>1, <3>2, <3>3, PathIsUp
      <4> QED
          BY <4>2, <2>b DEF Precedes
    <3> QED
        BY <3>4, <3>5, <3>6, <3>7
  <2> QED
      BY <2>6, <2>7 DEF Precedes
<1> QED
    BY <1>1, <1>2 DEF Precedes

(* Of two routers of one tree, one comes first.                            *)
LEMMA PrecedesIsTotal ==
    ASSUME TreeInv, Linked, NEW r \in Routers, NEW s \in Routers, r # s,
           NEW top \in Path(r), top \in Path(s)
    PROVE  Precedes(r, s) \/ Precedes(s, r)
<1> SUFFICES ASSUME s \notin Path(r), r \notin Path(s) PROVE Beside(r, s) \/ Beside(s, r)
    BY DEF Precedes
<1> DEFINE S == Path(s) \ Path(r)
<1>1. S \in SUBSET Routers /\ s \in S /\ top \notin S
    BY PathIsUp
<1>2. PICK x \in S : parent[x] \in Routers /\ parent[x] \notin S
  <2> HIDE DEF S
  <2> QED
      BY <1>1 DEF Path
<1> DEFINE p == parent[x]
<1>3. x \in Routers /\ x \in Path(s) /\ x \notin Path(r) /\ p \in Path(s)
    BY <1>2, PathIsUp
<1>4. p \in Path(r)
    BY <1>2, <1>3
<1>5. p # r
    BY <1>3
<1>6. PICK i \in 1..Len(children[p]) : children[p][i] \in Path(r)
    BY <1>4, <1>5, ChildBetween
<1>7. PICK j \in 1..Len(children[p]) : children[p][j] = x
    BY <1>2, <1>3 DEF Linked
<1>8. i # j /\ i \in Nat /\ j \in Nat /\ p \in Routers
    BY <1>3, <1>6, <1>7, <1>2
<1>9. i < j \/ j < i
    BY <1>8
<1>10. children[p][i] \in Path(r) /\ children[p][j] \in Path(s)
    BY <1>3, <1>6, <1>7
<1> HIDE DEF p
<1>11. DOMAIN children[p] = 1..Len(children[p])
    BY <1>8, KidsAre
<1> QED
    BY <1>8, <1>9, <1>10, <1>11 DEF Beside

-----------------------------------------------------------------------------
(* The tree only grows, at its ends: paths get longer at the top, lists of  *)
(* children and handlers at their end.                                      *)
Grows ==
    /\ TreeInv' /\ Linked'
    /\ \A r \in Routers : Path(r) \subseteq Path(r)'
    /\ \A r \in Routers : \A i \in 1..Len(children[r]) :
          i \in 1..Len(children'[r]) /\ children'[r][i] = children[r][i]
    /\ \A r \in Routers, o \in Observers : \A i \in 1..Len(handlers[r][o]) :
          i \in 1..Len(handlers'[r][o]) /\ handlers'[r][o][i] = handlers[r][o][i]

(* The tree grows when handlers are added at the end of a list.            *)
LEMMA UnchangedGrows ==
    ASSUME TreeInv, Linked, UNCHANGED <<parent, children>>, TreeInv',
           \A r \in Routers, o \in Observers : \A i \in 1..Len(handlers[r][o]) :
               i \in 1..Len(handlers'[r][o]) /\ handlers'[r][o][i] = handlers[r][o][i]
    PROVE  Grows
<1>1. \A r : Path(r)' = Path(r)
    BY DEF Path
<1>2. Linked'
    BY <1>1 DEF Linked
<1> QED
    BY <1>1, <1>2 DEF Grows

(* It grows when a router is included.                                     *)
LEMMA IncludeGrowsAtTheEnd ==
    ASSUME TreeInv, Linked, NEW self \in Routers, NEW router \in Routers,
           IncludeRouter(self, router)
    PROVE  Grows
<1>1. /\ parent[router] = NoRouter /\ parent' = [parent EXCEPT ![router] = self]
      /\ children' = [children EXCEPT ![self] = Append(@, router)]
      /\ handlers' = handlers /\ router # self /\ ~_contains(router, self)
    BY DEF IncludeRouter
<1>2. /\ parent'[router] = self
      /\ \A r \in Routers : r # router => parent'[r] = parent[r]
      /\ NoRouter \notin Routers
    BY <1>1, TreeAssumption DEF TreeInv
<1>3. /\ \A r \in Routers : r # self => children'[r] = children[r]
      /\ children'[self] = Append(children[self], router)
    BY <1>1 DEF TreeInv
<1>4. TreeInv'
    BY IncludeGrows
<1>5. router \notin Path(self)
    BY <1>1, ContainsWhatIsBelow
<1>6. ASSUME NEW r \in Routers, NEW i \in 1..Len(children[r])
      PROVE  i \in 1..Len(children'[r]) /\ children'[r][i] = children[r][i]
  <2> DEFINE kids == children[r]
  <2>1. kids \in Seq(Routers) /\ i \in 1..Len(kids)
      BY <1>6 DEF TreeInv
  <2>2. children'[r] = kids \/ children'[r] = Append(kids, router)
      BY <1>3
  <2> HIDE DEF kids
  <2>3. i \in 1..Len(Append(kids, router)) /\ Append(kids, router)[i] = kids[i]
      BY <2>1
  <2> QED
      BY <2>1, <2>2, <2>3 DEF kids
<1>7. ASSUME NEW r \in Routers PROVE Path(r) \subseteq Path(r)'
  <2> SUFFICES ASSUME NEW s \in Path(r), NEW S \in SUBSET Routers, r \in S,
                      \A x \in S : parent'[x] \in Routers => parent'[x] \in S
               PROVE  s \in S
      BY DEF Path
  <2>1. \A x \in S : parent[x] \in Routers => parent[x] \in S
      BY <1>1, <1>2
  <2> QED
      BY <2>1 DEF Path
<1>8. ASSUME NEW r \in Routers
      PROVE  Path(r)' \subseteq Path(r) \cup (IF router \in Path(r) THEN Path(self) ELSE {})
  <2> DEFINE S == Path(r) \cup (IF router \in Path(r) THEN Path(self) ELSE {})
  <2>1. S \in SUBSET Routers /\ r \in S
      BY PathIsUp
  <2>2. ASSUME NEW x \in S, parent'[x] \in Routers PROVE parent'[x] \in S
    <3>1. CASE x = router
      <4>1. router \in Path(r)
          BY <3>1, <1>5
      <4> QED
          BY <3>1, <4>1, <1>2, PathIsUp
    <3>2. CASE x # router
      <4>1. parent[x] \in Routers /\ parent'[x] = parent[x]
          BY <3>2, <2>1, <2>2, <1>2
      <4>2. x \in Path(r) => parent[x] \in Path(r)
          BY <4>1, PathIsUp
      <4>3. x \in Path(self) => parent[x] \in Path(self)
          BY <4>1, PathIsUp
      <4> QED
          BY <4>1, <4>2, <4>3
    <3> QED
        BY <3>1, <3>2
  <2> HIDE DEF S
  <2>3. Path(r)' \subseteq S
      BY <2>1, <2>2 DEF Path
  <2> QED
      BY <2>3 DEF S
<1>9. ASSUME NEW r \in Routers, NEW s \in Routers, r \in Path(s)', s \in Path(r)' PROVE r = s
  <2>1. CASE router \in Path(s) /\ router \in Path(r)
    <3>1. r \notin Path(self) /\ s \notin Path(self)
        BY <2>1, <1>5, PathIsUp
    <3> QED
        BY <3>1, <1>8, <1>9 DEF Linked
  <2>2. CASE router \notin Path(s) /\ router \notin Path(r)
      BY <2>2, <1>8, <1>9 DEF Linked
  <2>3. CASE router \in Path(s) /\ router \notin Path(r)
    <3>1. s \in Path(r)
        BY <2>3, <1>8, <1>9
    <3> QED
        BY <3>1, <2>3, PathIsUp
  <2>4. CASE router \notin Path(s) /\ router \in Path(r)
    <3>1. r \in Path(s)
        BY <2>4, <1>8, <1>9
    <3> QED
        BY <3>1, <2>4, PathIsUp
  <2> QED
      BY <2>1, <2>2, <2>3, <2>4
<1>10. ASSUME NEW r \in Routers, NEW i \in 1..Len(children'[r]), NEW j \in 1..Len(children'[r]),
              children'[r][i] = children'[r][j]
       PROVE  i = j
  <2>1. children[r] \in Seq(Routers) /\ \A k \in 1..Len(children[r]) : children[r][k] # router
    <3>1. children[r] \in Seq(Routers) /\ \A k \in 1..Len(children[r]) : parent[children[r][k]] = r
        BY DEF TreeInv
    <3> QED
        BY <3>1, <1>1, <1>2
  <2>2. \A k, l \in 1..Len(children[r]) : children[r][k] = children[r][l] => k = l
      BY DEF Linked
  <2> DEFINE kids == children[r]
  <2>3. children'[r] = kids \/ children'[r] = Append(kids, router)
      BY <1>3
  <2>4. kids \in Seq(Routers) /\ (\A k \in 1..Len(kids) : kids[k] # router)
        /\ \A k, l \in 1..Len(kids) : kids[k] = kids[l] => k = l
      BY <2>1, <2>2
  <2> HIDE DEF kids
  <2>5. CASE children'[r] = kids
      BY <2>4, <2>5, <1>10
  <2>6. CASE children'[r] = Append(kids, router)
    <3>1. /\ Len(Append(kids, router)) = Len(kids) + 1 /\ Len(kids) \in Nat
          /\ Append(kids, router)[Len(kids) + 1] = router
          /\ \A k \in 1..Len(kids) : Append(kids, router)[k] = kids[k]
        BY <2>4
    <3>2. (i \in 1..Len(kids) \/ i = Len(kids) + 1) /\ (j \in 1..Len(kids) \/ j = Len(kids) + 1)
        BY <3>1, <2>6, <1>10
    <3> QED
        BY <3>1, <3>2, <2>4, <2>6, <1>10
  <2> QED
      BY <2>3, <2>5, <2>6
<1>11. ASSUME NEW r \in Routers, parent'[r] \in Routers
       PROVE  /\ parent'[r] # r
              /\ \E i \in 1..Len(children'[parent'[r]]) : children'[parent'[r]][i] = r
  <2>1. CASE r = router
    <3>1. parent'[r] = self /\ children[self] \in Seq(Routers)
        BY <2>1, <1>2 DEF TreeInv
    <3>2. /\ Len(children'[self]) \in 1..Len(children'[self])
          /\ children'[self][Len(children'[self])] = router
      <4> DEFINE kids == children[self]
      <4>1. kids \in Seq(Routers)
          BY <3>1
      <4> HIDE DEF kids
      <4>2. /\ Len(Append(kids, router)) \in 1..Len(Append(kids, router))
            /\ Append(kids, router)[Len(Append(kids, router))] = router
          BY <4>1
      <4> QED
          BY <4>2, <1>3 DEF kids
    <3> QED
        BY <2>1, <3>1, <3>2, <1>1
  <2>2. CASE r # router
    <3>1. parent'[r] = parent[r]
        BY <2>2, <1>2
    <3>2. parent[r] # r /\ \E i \in 1..Len(children[parent[r]]) : children[parent[r]][i] = r
        BY <3>1, <1>11 DEF Linked
    <3> QED
        BY <3>1, <3>2, <1>6, <1>11
  <2> QED
      BY <2>1, <2>2
<1>12. Linked'
    BY <1>9, <1>10, <1>11 DEF Linked
<1> QED
    BY <1>1, <1>4, <1>6, <1>7, <1>12 DEF Grows

(* It grows when the application changes it.                               *)
LEMMA GrowGrows ==
    ASSUME TreeInv, Linked, Grow
    PROVE  Grows
<1>1. ASSUME NEW i \in Includes, IncludeRouter(i[1], i[2]) PROVE Grows
    BY <1>1, ProgramAssumption, IncludeGrowsAtTheEnd
<1>2. ASSUME NEW l \in LateHandlers, Register(l[1], l[2], l[3]) PROVE Grows
  <2>1. l[1] \in Routers /\ l[2] \in Observers
      BY ProgramAssumption
  <2>2. /\ handlers' = [handlers EXCEPT ![l[1]][l[2]] = Append(@, l[3])]
        /\ UNCHANGED <<parent, children, middleware>>
      BY <1>2 DEF Register
  <2>3. TreeInv'
      BY GrowKeeps
  <2>4. ASSUME NEW r \in Routers, NEW o \in Observers, NEW i \in 1..Len(handlers[r][o])
        PROVE  i \in 1..Len(handlers'[r][o]) /\ handlers'[r][o][i] = handlers[r][o][i]
    <3> DEFINE found == handlers[r][o]
    <3>1. found \in Seq(Handlers) /\ i \in 1..Len(found)
        BY <2>4 DEF TreeInv
    <3>2. handlers'[r][o] = found \/ handlers'[r][o] = Append(found, l[3])
        BY <2>1, <2>2 DEF TreeInv
    <3> HIDE DEF found
    <3>3. i \in 1..Len(Append(found, l[3])) /\ Append(found, l[3])[i] = found[i]
        BY <3>1
    <3> QED
        BY <3>1, <3>2, <3>3 DEF found
  <2> QED
      BY <2>2, <2>3, <2>4, UnchangedGrows
<1>3. ASSUME NEW m \in LateMiddlewares, Use(m[1], m[2]) PROVE Grows
  <2>1. UNCHANGED <<parent, children, handlers>> /\ TreeInv'
      BY <1>3, GrowKeeps DEF Use
  <2> QED
      BY <2>1, UnchangedGrows
<1> QED
    BY <1>1, <1>2, <1>3 DEF Grow

(* What is beside something stays so.                                      *)
LEMMA BesideGrows ==
    ASSUME TreeInv, Grows, NEW r \in Routers, NEW s \in Routers, Beside(r, s)
    PROVE  Beside(r, s)'
<1>1. PICK p \in Routers : \E i, j \in 1..Len(children[p]) :
          i < j /\ children[p][i] \in Path(r) /\ children[p][j] \in Path(s)
    BY KidsAre DEF Beside
<1>2. PICK i \in 1..Len(children[p]), j \in 1..Len(children[p]) :
          i < j /\ children[p][i] \in Path(r) /\ children[p][j] \in Path(s)
    BY <1>1
<1>3. DOMAIN children'[p] = 1..Len(children'[p])
    BY DEF Grows, TreeInv
<1>4. /\ i \in DOMAIN children'[p] /\ children'[p][i] \in Path(r)'
      /\ j \in DOMAIN children'[p] /\ children'[p][j] \in Path(s)'
    BY <1>2, <1>3 DEF Grows
<1> QED
    BY <1>2, <1>4 DEF Beside

-----------------------------------------------------------------------------
(* The order, as a turn sees it. *)

Sane(O) ==
    /\ O.handlers \in [Routers -> [Observers -> Seq(Handlers)]]
    /\ \A r \in Routers : <<r, r>> \in O.up /\ ~First(O, r, r)
    /\ \A r, s, b \in Routers : First(O, r, s) /\ <<s, b>> \in O.up => First(O, r, b)
    /\ \A r, s, a, b \in Routers :
          <<r, s>> \in O.beside /\ <<r, a>> \in O.up /\ <<s, b>> \in O.up => <<a, b>> \in O.beside

(* What hangs below a router hangs below one of its children. *)
Kids(O, r, kids) ==
    /\ kids \in Seq(Routers)
    /\ \A i \in 1..Len(kids) : <<r, kids[i]>> \in O.up /\ kids[i] # r
    /\ \A i, j \in 1..Len(kids) : i < j => <<kids[i], kids[j]>> \in O.beside
    /\ \A x \in Routers : <<r, x>> \in O.up /\ x # r =>
          \E i \in 1..Len(kids) : <<kids[i], x>> \in O.up

(* What comes first in O does in N. *)
Extends(O, N) ==
    /\ O.up \subseteq N.up /\ O.beside \subseteq N.beside
    /\ \A r \in Routers, o \in Observers : \A i \in 1..Len(O.handlers[r][o]) :
          i \in 1..Len(N.handlers[r][o]) /\ N.handlers[r][o][i] = O.handlers[r][o][i]

(* What the parts of Ordering say.                                         *)
LEMMA OrderingIs ==
    /\ \A r, s \in Routers : <<r, s>> \in Ordering.up <=> r \in Path(s)
    /\ \A r, s \in Routers : <<r, s>> \in Ordering.beside <=> Beside(r, s)
    /\ \A r, s \in Routers : First(Ordering, r, s) <=> Precedes(r, s)
    /\ Ordering.up \subseteq Routers \X Routers /\ Ordering.beside \subseteq Routers \X Routers
    /\ Ordering.handlers = handlers
<1>1. /\ Ordering.up = {p \in Routers \X Routers : p[1] \in Path(p[2])}
      /\ Ordering.beside = {p \in Routers \X Routers : Beside(p[1], p[2])}
      /\ Ordering.handlers = handlers
    BY DEF Ordering
<1>2. \A r, s \in Routers : <<r, s>> \in Ordering.up <=> r \in Path(s)
    BY <1>1
<1>3. \A r, s \in Routers : <<r, s>> \in Ordering.beside <=> Beside(r, s)
    BY <1>1, Zenon
<1>4. \A r, s \in Routers : First(Ordering, r, s) <=> Precedes(r, s)
    BY <1>2, <1>3 DEF First, Precedes
<1> QED
    BY <1>1, <1>2, <1>3, <1>4

(* In a tree they are what the walk relies on.                             *)
LEMMA OrderingIsSane ==
    ASSUME TreeInv, Linked
    PROVE  Sane(Ordering) /\ \A r \in Routers : Kids(Ordering, r, children[r])
<1>1. ASSUME NEW r \in Routers PROVE <<r, r>> \in Ordering.up /\ ~First(Ordering, r, r)
    BY <1>1, OrderingIs, PathIsUp, NothingPrecedesItself
<1>2. ASSUME NEW r \in Routers, NEW s \in Routers, NEW b \in Routers,
             First(Ordering, r, s), <<s, b>> \in Ordering.up
      PROVE  First(Ordering, r, b)
    BY <1>2, OrderingIs, PrecedesLifts
<1>3. ASSUME NEW r \in Routers, NEW s \in Routers, NEW a \in Routers, NEW b \in Routers,
             <<r, s>> \in Ordering.beside, <<r, a>> \in Ordering.up, <<s, b>> \in Ordering.up
      PROVE  <<a, b>> \in Ordering.beside
    BY <1>3, OrderingIs, BesideLifts
<1>4. Ordering.handlers \in [Routers -> [Observers -> Seq(Handlers)]]
    BY OrderingIs DEF TreeInv
<1>5. Sane(Ordering)
    BY <1>1, <1>2, <1>3, <1>4 DEF Sane
<1>6. ASSUME NEW r \in Routers PROVE Kids(Ordering, r, children[r])
  <2>1. children[r] \in Seq(Routers) /\ Len(children[r]) \in Nat
      BY DEF TreeInv
  <2>2. ASSUME NEW i \in 1..Len(children[r])
        PROVE  /\ children[r][i] \in Routers /\ children[r][i] # r
               /\ r \in Path(children[r][i]) /\ children[r][i] \in Path(children[r][i])
      BY <2>2, ChildrenAreBelow, PathIsUp
  <2>3. ASSUME NEW i \in 1..Len(children[r]), NEW j \in 1..Len(children[r]), i < j
        PROVE  Beside(children[r][i], children[r][j])
      BY <2>2, <2>3, KidsAre DEF Beside
  <2>4. \A x \in Routers : r \in Path(x) /\ x # r =>
            \E i \in 1..Len(children[r]) : children[r][i] \in Path(x)
      BY ChildBetween
  <2> QED
      BY <2>1, <2>2, <2>3, <2>4, OrderingIs DEF Kids
<1> QED
    BY <1>5, <1>6

(* They grow with the tree.                                                *)
LEMMA OrderingGrows ==
    ASSUME TreeInv, Grows
    PROVE  Extends(Ordering, Ordering')
<1>0. /\ Ordering.up = {p \in Routers \X Routers : p[1] \in Path(p[2])}
      /\ Ordering.beside = {p \in Routers \X Routers : Beside(p[1], p[2])}
      /\ Ordering.handlers = handlers
    BY DEF Ordering
<1>1. /\ Ordering'.up = {p \in Routers \X Routers : (p[1] \in Path(p[2]))'}
      /\ Ordering'.beside = {p \in Routers \X Routers : Beside(p[1], p[2])'}
      /\ Ordering'.handlers = handlers'
    BY DEF Ordering
<1>2. ASSUME NEW p \in Ordering.up PROVE p \in Ordering'.up
  <2>1. p[1] \in Routers /\ p[2] \in Routers /\ p[1] \in Path(p[2])
      BY <1>0, <1>2
  <2>2. (p[1] \in Path(p[2]))'
      BY <2>1 DEF Grows
  <2> QED
      BY <1>0, <1>1, <1>2, <2>2
<1>3. ASSUME NEW p \in Ordering.beside PROVE p \in Ordering'.beside
  <2>1. p[1] \in Routers /\ p[2] \in Routers /\ Beside(p[1], p[2])
      BY <1>0, <1>3
  <2>2. Beside(p[1], p[2])'
      BY <2>1, BesideGrows
  <2> QED
      BY <1>0, <1>1, <1>3, <2>2
<1> QED
    BY <1>0, <1>1, <1>2, <1>3 DEF Extends, Grows

(* What a turn has done is in order in any tree that it grows into.        *)
LEMMA LinedStays ==
    ASSUME NEW O, NEW N, Extends(O, N), Sane(O), Sane(N), NEW T, Lined(T, O),
           T.at \in Routers, Walking(T) => T.pass \in Observers, T.candidates \in Seq(Handlers)
    PROVE  Lined(T, N)
<1>1. \A r, s : First(O, r, s) => First(N, r, s)
    BY DEF First, Extends
<1>2. ASSUME NEW x \in Routers \X Handlers, NEW y \in Routers \X Handlers, NEW o \in Observers,
             Comes(O, x, y, o)
      PROVE  Comes(N, x, y, o)
  <2>1. \A i \in 1..Len(O.handlers[x[1]][o]) : /\ i \in 1..Len(N.handlers[x[1]][o])
                                               /\ N.handlers[x[1]][o][i] = O.handlers[x[1]][o][i]
      BY DEF Extends
  <2> QED
      BY <1>1, <1>2, <2>1 DEF Comes
<1>3. /\ \A i \in 1..Len(T.offered) : T.offered[i] \in Routers \X Handlers /\ T.pass \in Observers
      /\ \A x \in T.roster : x \in Routers \X Handlers
    BY DEF Lined, Listed
<1>4. Ordered(T, N)
  <2>1. Ordered(T, O)
      BY DEF Lined
  <2>2. ASSUME NEW i \in 1..Len(T.offered), NEW j \in 1..Len(T.offered), i < j
        PROVE  Comes(N, T.offered[i], T.offered[j], T.pass)
      BY <2>1, <2>2, <1>2, <1>3 DEF Ordered
  <2>3. ASSUME NEW x \in T.roster, ~Had(T, x), x[1] \notin T.declined, NEW i \in 1..Len(T.offered)
        PROVE  Comes(N, T.offered[i], x, T.pass)
      BY <2>1, <2>3, <1>2, <1>3 DEF Ordered
  <2> QED
      BY <2>1, <2>2, <2>3 DEF Ordered
<1>5. Listed(T, N)
  <2>1. Listed(T, O)
      BY DEF Lined
  <2>2. ASSUME Walking(T), NEW x \in T.roster
        PROVE  \E i \in 1..Len(N.handlers[x[1]][T.pass]) : N.handlers[x[1]][T.pass][i] = x[2]
    <3>1. x[1] \in Routers /\ T.pass \in Observers
        BY <2>2, <1>3
    <3>2. PICK i \in 1..Len(O.handlers[x[1]][T.pass]) : O.handlers[x[1]][T.pass][i] = x[2]
        BY <2>1, <2>2 DEF Listed
    <3> QED
        BY <3>1, <3>2 DEF Extends
  <2> QED
      BY <2>1, <2>2 DEF Listed
<1>6. ASSUME Walking(T) PROVE Ahead(T, N) /\ Complete(T, N)
  <2>1. Ahead(T, O) /\ Complete(T, O)
      BY <1>6 DEF Lined
  <2>2. Ahead(T, N)
      BY <2>1, <1>1 DEF Ahead, Extends
  <2>3. \A x : Pending(T, O, x) => Pending(T, N, x)
      BY DEF Pending, Extends
  <2> QED
      BY <2>1, <2>2, <2>3 DEF Complete
<1>7. ASSUME Within(T) PROVE Here(T, N)
  <2>1. Here(T, O) /\ T.pass \in Observers
      BY <1>7 DEF Lined, Within, Walking
  <2> DEFINE old == O.handlers[T.at][T.pass]
             new == N.handlers[T.at][T.pass]
  <2>2. PICK k \in Nat :
            /\ k + Len(T.candidates) <= Len(old)
            /\ \A i \in 1..Len(T.candidates) : T.candidates[i] = old[k + i]
            /\ \A i \in 1..Len(T.offered) : T.offered[i][1] = T.at =>
                  \E j \in 1..k : old[j] = T.offered[i][2]
      BY <2>1 DEF Here
  <2>3. \A i \in 1..Len(old) : i \in 1..Len(new) /\ new[i] = old[i]
      BY <2>1 DEF Extends
  <2>4. Len(old) \in Nat /\ Len(new) \in Nat
      BY <2>1 DEF Sane
  <2> HIDE DEF old, new
  <2>5. Len(T.candidates) \in Nat
      OBVIOUS
  <2>6. Len(old) <= Len(new)
      BY <2>3, <2>4
  <2>7. \A i \in 1..Len(T.candidates) : T.candidates[i] = new[k + i]
      BY <2>2, <2>3, <2>4, <2>5
  <2>8. \A i \in 1..Len(T.offered) : T.offered[i][1] = T.at =>
            \E j \in 1..k : new[j] = T.offered[i][2]
    <3>1. \A j \in 1..k : j \in 1..Len(old)
        BY <2>2, <2>4, <2>5
    <3> QED
        BY <2>2, <2>3, <3>1
  <2>9. k + Len(T.candidates) <= Len(new)
      BY <2>2, <2>4, <2>5, <2>6
  <2> QED
      BY <2>1, <1>1, <2>7, <2>8, <2>9 DEF Here, Extends, new
<1> QED
    BY <1>4, <1>5, <1>6, <1>7 DEF Lined

-----------------------------------------------------------------------------
(* What the steps of a turn do to the order. *)

Line == {"kind", "pass", "todo", "at", "candidates", "offered", "declined", "roster"}

(* The walk does not move: the turn is busy at its router, or leaves it.    *)
LEMMA StillLined ==
    ASSUME NEW O, NEW T, NEW U, Lined(T, O), \A f \in Line : U[f] = T[f],
           Walking(U) => /\ Within(T) /\ Within(U)
                         /\ U.pc = "filters" => T.pc = "filters"
    PROVE  Lined(U, O)
<1>1. /\ U.kind = T.kind /\ U.pass = T.pass /\ U.todo = T.todo /\ U.at = T.at
      /\ U.candidates = T.candidates /\ U.offered = T.offered /\ U.declined = T.declined
      /\ U.roster = T.roster
    BY DEF Line
<1>2. Walking(U) => Walking(T)
    BY DEF Walking, Within
<1>3. Within(U) => Within(T) /\ (U.pc = "filters" => T.pc = "filters")
    BY DEF Walking, Within
<1>4. Listed(U, O)
    BY <1>1, <1>2 DEF Lined, Listed
<1>5. Passed(U) = Passed(T) /\ \A x : Had(U, x) <=> Had(T, x)
    BY <1>1 DEF Passed, Had
<1>6. Ordered(U, O)
    BY <1>1, <1>5 DEF Lined, Ordered
<1>7. ASSUME Walking(U) PROVE Ahead(U, O) /\ Complete(U, O)
  <2>1. Ahead(T, O) /\ Complete(T, O) /\ Within(T) /\ Within(U)
      BY <1>2, <1>7 DEF Lined
  <2>2. \A x : Pending(T, O, x) => Pending(U, O, x)
      BY <1>1, <2>1 DEF Pending
  <2> QED
      BY <1>1, <1>5, <2>1, <2>2 DEF Ahead, Complete
<1>8. ASSUME Within(U) PROVE Here(U, O)
  <2>1. Here(T, O)
      BY <1>3, <1>8 DEF Lined
  <2>2. \A r \in Passed(U) : First(O, r, U.at) \/ (U.pc # "filters" /\ r = U.at)
      BY <1>1, <1>3, <1>5, <1>8, <2>1 DEF Here
  <2> QED
      BY <1>1, <2>1, <2>2 DEF Here
<1> QED
    BY <1>4, <1>6, <1>7, <1>8 DEF Lined

(* Nothing has been offered yet. *)
LEMMA NothingIsLined ==
    ASSUME NEW O, NEW U, U.offered = <<>>, U.declined = {}, U.roster = {}, ~Walking(U),
           U.kind # "workspace"
    PROVE  Lined(U, O)
<1>1. ~Within(U) /\ \A i \in 1..Len(U.offered) : FALSE
    BY DEF Walking, Within
<1>2. U.offered \in Seq(Routers \X Handlers)
    OBVIOUS
<1> QED
    BY <1>1, <1>2 DEF Lined, Listed, Ordered

(* A walk that begins has everything that is registered before it.          *)
LEMMA StartIsLined ==
    ASSUME TreeInv, NEW U, U.pc = "walk", U.todo = WalkStart, U.pass \in Observers,
           U.offered = <<>>, U.declined = {}, U.roster = Registered(U.pass),
           U.kind = "workspace" => U.pass = "workspace_event"
    PROVE  Lined(U, Ordering)
<1>1. ~Within(U) /\ U.offered \in Seq(Routers \X Handlers) /\ \A i \in 1..Len(U.offered) : FALSE
    BY DEF Within
<1>2. /\ \A i \in 1..Len(U.todo) : i = 1 /\ U.todo[i].router = Root
      /\ 1 \in 1..Len(U.todo)
    BY DEF WalkStart
<1>3. ASSUME NEW x \in U.roster
      PROVE  /\ x \in Routers \X Handlers /\ <<Root, x[1]>> \in Ordering.up
             /\ \E i \in 1..Len(handlers[x[1]][U.pass]) : handlers[x[1]][U.pass][i] = x[2]
  <2>1. PICK r \in Routers : Root \in Path(r) /\ x \in {r} \X Range(handlers[r][U.pass])
      BY <1>3 DEF Registered
  <2> DEFINE found == handlers[r][U.pass]
  <2>2. found \in Seq(Handlers)
      BY DEF TreeInv
  <2>3. x[1] = r /\ x[2] \in Range(found) /\ x = <<x[1], x[2]>>
      BY <2>1
  <2> HIDE DEF found
  <2>4. PICK i \in 1..Len(found) : found[i] = x[2]
      BY <2>2, <2>3 DEF Range
  <2>5. x[2] \in Handlers
      BY <2>2, <2>4
  <2>6. <<Root, x[1]>> \in Ordering.up
      BY <2>1, <2>3, TreeAssumption, OrderingIs
  <2> QED
      BY <2>3, <2>4, <2>5, <2>6 DEF found
<1>4. Listed(U, Ordering)
    BY <1>1, <1>3, OrderingIs DEF Listed
<1>5. Ordered(U, Ordering)
    BY <1>1 DEF Ordered
<1>6. Passed(U) = {}
    BY <1>1 DEF Passed
<1>7. Ahead(U, Ordering)
    BY <1>2, <1>6 DEF Ahead
<1>8. Complete(U, Ordering)
    BY <1>2, <1>3 DEF Complete, Pending
<1> QED
    BY <1>1, <1>4, <1>5, <1>7, <1>8 DEF Lined

(* Two sequences, one after the other.                                     *)
LEMMA Joined ==
    ASSUME NEW S, NEW a \in Seq(S), NEW b \in Seq(S)
    PROVE  /\ Len(a \o b) = Len(a) + Len(b)
           /\ \A i \in 1..Len(a) : (a \o b)[i] = a[i]
           /\ \A i \in 1..Len(b) : (a \o b)[Len(a) + i] = b[i]
           /\ Len(a) \in Nat /\ Len(b) \in Nat
<1>1. Len(a \o b) = Len(a) + Len(b) /\ Len(a) \in Nat /\ Len(b) \in Nat
    OBVIOUS
<1>2. \A i \in 1..Len(a) : (a \o b)[i] = a[i]
    OBVIOUS
<1>3. \A i \in 1..Len(b) : (a \o b)[Len(a) + i] = b[i]
    OBVIOUS
<1> QED
    BY <1>1, <1>2, <1>3

(* A router that U is done with, and the rest of its walk.                 *)
Leaves(U, O, r, rest) ==
    /\ Passed(U) \subseteq Routers
    /\ \A q \in Passed(U) : First(O, q, r) \/ q = r
    /\ \A q \in Passed(U) : \A i \in 1..Len(rest) : First(O, q, rest[i].router)
    /\ \A i \in 1..Len(rest) : <<r, rest[i].router>> \in O.beside
    /\ \A i, j \in 1..Len(rest) : i < j => <<rest[i].router, rest[j].router>> \in O.beside
    /\ \A x \in U.roster :
          \/ Had(U, x) \/ x[1] \in U.declined
          \/ \E i \in 1..Len(rest) : <<rest[i].router, x[1]>> \in O.up
          \/ x[1] \in Routers /\ <<r, x[1]>> \in O.up /\ x[1] # r

(* The entries that the walk makes of a router's children.                 *)
EntriesOf(kids, below) ==
    /\ below \in Seq(Entries) /\ Len(below) = Len(kids)
    /\ \A i \in 1..Len(kids) : below[i].router = kids[i]

(* The walk goes on below r, before the rest.                              *)
LEMMA BelowIsAhead ==
    ASSUME NEW O, Sane(O), NEW r \in Routers, NEW kids, Kids(O, r, kids),
           NEW below, EntriesOf(kids, below), NEW rest \in Seq(Entries),
           NEW U, U.todo = below \o rest, Leaves(U, O, r, rest)
    PROVE  Ahead(U, O) /\ Complete(U, O)
<1> USE DEF Leaves, EntriesOf
<1> DEFINE n == Len(below)
           m == Len(rest)
<1>1. /\ n \in Nat /\ m \in Nat /\ Len(U.todo) = n + m /\ kids \in Seq(Routers) /\ Len(kids) = n
      /\ \A i \in 1..n : U.todo[i] = below[i]
      /\ \A i \in 1..m : U.todo[n + i] = rest[i]
  <2>1. /\ Len(below \o rest) = Len(below) + Len(rest)
        /\ \A i \in 1..Len(below) : (below \o rest)[i] = below[i]
        /\ \A i \in 1..Len(rest) : (below \o rest)[Len(below) + i] = rest[i]
        /\ Len(below) \in Nat /\ Len(rest) \in Nat
      BY Joined
  <2>2. kids \in Seq(Routers)
      BY DEF Kids
  <2> QED
      BY <2>1, <2>2
<1> DEFINE at(i) == U.todo[i].router
<1>2. /\ \A i \in 1..n : at(i) = kids[i] /\ kids[i] \in Routers
      /\ \A i \in 1..m : at(n + i) = rest[i].router /\ rest[i].router \in Routers
  <2>1. \A i \in 1..m : rest[i] \in Entries
      OBVIOUS
  <2> QED
      BY <1>1, <2>1 DEF Entries
<1>3. \A i \in 1..(n + m) : i \in 1..n \/ (i - n \in 1..m /\ i = n + (i - n))
    BY <1>1
<1> HIDE DEF n, m, at
<1>4. ASSUME NEW i \in 1..(n + m), NEW j \in 1..(n + m), i < j
      PROVE  <<at(i), at(j)>> \in O.beside
  <2>1. CASE j \in 1..n
    <3>1. i \in 1..n
        BY <1>1, <1>4, <2>1
    <3> QED
        BY <3>1, <2>1, <1>1, <1>2, <1>4 DEF Kids
  <2>2. CASE i \notin 1..n
    <3>1. /\ i - n \in 1..m /\ j - n \in 1..m /\ i - n < j - n
          /\ i = n + (i - n) /\ j = n + (j - n)
        BY <1>1, <1>3, <1>4, <2>2
    <3> QED
        BY <3>1, <1>2 DEF m
  <2>3. CASE i \in 1..n /\ j \notin 1..n
    <3>1. j - n \in 1..m /\ j = n + (j - n)
        BY <2>3, <1>3
    <3>2. PICK k \in 1..m : at(j) = rest[k].router /\ rest[k].router \in Routers
        BY <3>1, <1>2
    <3>3. <<r, kids[i]>> \in O.up /\ kids[i] \in Routers /\ at(i) = kids[i]
        BY <2>3, <1>1, <1>2 DEF Kids
    <3>4. <<r, rest[k].router>> \in O.beside /\ <<rest[k].router, rest[k].router>> \in O.up
        BY <3>2 DEF Sane, m
    <3>5. <<kids[i], rest[k].router>> \in O.beside
        BY <3>2, <3>3, <3>4 DEF Sane
    <3> QED
        BY <3>2, <3>3, <3>5
  <2> QED
      BY <2>1, <2>2, <2>3
<1>5. ASSUME NEW q \in Passed(U), NEW i \in 1..(n + m) PROVE First(O, q, at(i))
  <2>1. CASE i \in 1..n
    <3>1. <<r, kids[i]>> \in O.up /\ kids[i] \in Routers /\ at(i) = kids[i] /\ kids[i] # r
        BY <2>1, <1>1, <1>2 DEF Kids
    <3>2. CASE q = r
        BY <3>1, <3>2 DEF First
    <3>3. CASE First(O, q, r)
        BY <3>1, <3>3, <1>5 DEF Sane
    <3> QED
        BY <3>2, <3>3
  <2>2. CASE i \notin 1..n
      BY <2>2, <1>2, <1>3 DEF m
  <2> QED
      BY <2>1, <2>2
<1>6. Ahead(U, O)
    BY <1>1, <1>4, <1>5 DEF Ahead, at
<1>7. ASSUME NEW x \in U.roster, ~Had(U, x), x[1] \notin U.declined PROVE Pending(U, O, x)
  <2>1. CASE \E i \in 1..m : <<rest[i].router, x[1]>> \in O.up
    <3>1. PICK i \in 1..m : <<rest[i].router, x[1]>> \in O.up
        BY <2>1
    <3>2. n + i \in 1..(n + m)
        BY <1>1
    <3>3. at(n + i) = rest[i].router
        BY <1>2
    <3>4. <<at(n + i), x[1]>> \in O.up
        BY <3>1, <3>3
    <3> QED
        BY <3>2, <3>4, <1>1 DEF Pending, at
  <2>2. CASE x[1] \in Routers /\ <<r, x[1]>> \in O.up /\ x[1] # r
    <3>1. PICK i \in 1..n : <<kids[i], x[1]>> \in O.up
        BY <2>2, <1>1 DEF Kids
    <3>2. i \in 1..(n + m)
        BY <1>1
    <3>3. at(i) = kids[i]
        BY <1>2
    <3>4. <<at(i), x[1]>> \in O.up
        BY <3>1, <3>3
    <3> QED
        BY <3>2, <3>4, <1>1 DEF Pending, at
  <2> QED
      BY <2>1, <2>2, <1>7 DEF m
<1> QED
    BY <1>6, <1>7 DEF Complete

LEMMA PassedAreRouters ==
    ASSUME NEW O, NEW T, Listed(T, O)
    PROVE  Passed(T) \subseteq Routers
<1>1. \A i \in 1..Len(T.offered) : T.offered[i] \in Routers \X Handlers
    BY DEF Listed
<1> QED
    BY <1>1 DEF Passed, Listed

(* Nothing at a router takes the event any more: on to what is below it.    *)
LEMMA OnwardIsLined ==
    ASSUME NEW O, Sane(O), NEW T, NEW U, Lined(T, O), T.at \in Routers, T.todo \in Seq(Entries),
           NEW kids, Kids(O, T.at, kids), NEW below, EntriesOf(kids, below),
           U.pc = "walk", U.todo = below \o T.todo, U.pass = T.pass, U.offered = T.offered,
           U.kind = T.kind, U.roster = T.roster,
           \/ T.pc = "candidates" /\ T.candidates = <<>> /\ U.declined = T.declined
           \/ T.pc = "filters" /\ U.declined = T.declined \cup {T.at}
    PROVE  Lined(U, O)
<1>1. Listed(T, O) /\ Ordered(T, O) /\ Ahead(T, O) /\ Complete(T, O) /\ Here(T, O)
      /\ Walking(T) /\ Within(T) /\ Walking(U) /\ ~Within(U)
    BY DEF Lined, Walking, Within
<1>2. Listed(U, O)
    BY <1>1 DEF Listed
<1>3. (\A x : Had(U, x) <=> Had(T, x)) /\ T.declined \subseteq U.declined
    BY DEF Had
<1>4. Passed(U) = Passed(T) \/ (T.pc = "filters" /\ Passed(U) = Passed(T) \cup {T.at})
    BY DEF Passed
<1>5. \A i \in 1..Len(T.offered) : T.offered[i][1] \in Passed(T) /\ T.offered[i][1] \in Routers
    BY <1>1, PassedAreRouters DEF Passed
<1>6. \A i \in 1..Len(U.offered) : U.offered[i][1] \notin U.declined
  <2>1. CASE U.declined = T.declined
      BY <2>1, <1>1 DEF Ordered
  <2>2. CASE T.pc = "filters" /\ U.declined = T.declined \cup {T.at}
    <3>1. \A i \in 1..Len(T.offered) : T.offered[i][1] # T.at
        BY <2>2, <1>1, <1>5 DEF Here, Sane
    <3> QED
        BY <2>2, <3>1, <1>1 DEF Ordered
  <2> QED
      BY <2>1, <2>2
<1>7. Ordered(U, O)
    BY <1>1, <1>3, <1>6 DEF Ordered
<1>8. Passed(U) \subseteq Routers /\ \A q \in Passed(U) : First(O, q, T.at) \/ q = T.at
    BY <1>1, <1>4, PassedAreRouters DEF Here
<1>9. \A q \in Passed(U) : \A i \in 1..Len(T.todo) : First(O, q, T.todo[i].router)
    BY <1>1, <1>4 DEF Here, Ahead, First
<1>10. ASSUME NEW x \in U.roster, ~Had(U, x), x[1] \notin U.declined
       PROVE  \/ \E i \in 1..Len(T.todo) : <<T.todo[i].router, x[1]>> \in O.up
              \/ x[1] \in Routers /\ <<T.at, x[1]>> \in O.up /\ x[1] # T.at
  <2>1. x[1] \in Routers
      BY <1>1, <1>10 DEF Listed
  <2>2. Pending(T, O, x)
      BY <1>1, <1>3, <1>10 DEF Complete
  <2>3. CASE T.at = x[1] /\ \E i \in 1..Len(T.candidates) : T.candidates[i] = x[2]
    <3>1. U.declined = T.declined /\ T.candidates = <<>>
        BY <2>3, <1>10
    <3> QED
        BY <2>3, <3>1
  <2> QED
      BY <2>1, <2>2, <2>3 DEF Pending
<1>11. Ahead(U, O) /\ Complete(U, O)
  <2>1. /\ \A i \in 1..Len(T.todo) : <<T.at, T.todo[i].router>> \in O.beside
        /\ \A i, j \in 1..Len(T.todo) : i < j => <<T.todo[i].router, T.todo[j].router>> \in O.beside
      BY <1>1 DEF Here, Ahead
  <2>2. \A x \in U.roster :
            \/ Had(U, x) \/ x[1] \in U.declined
            \/ \E i \in 1..Len(T.todo) : <<T.todo[i].router, x[1]>> \in O.up
            \/ x[1] \in Routers /\ <<T.at, x[1]>> \in O.up /\ x[1] # T.at
      BY <1>10
  <2>3. Leaves(U, O, T.at, T.todo)
      BY <1>8, <1>9, <2>1, <2>2 DEF Leaves
  <2> QED
      BY <2>3, BelowIsAhead
<1> QED
    BY <1>1, <1>2, <1>7, <1>11 DEF Lined

(* The next router of the walk, and what is left then.                     *)
LEMMA NextInLine ==
    ASSUME NEW O, NEW T, Lined(T, O), T.pc = "walk", T.todo \in Seq(Entries), T.todo # <<>>
    PROVE  /\ Head(T.todo).router \in Routers /\ Tail(T.todo) \in Seq(Entries)
           /\ \A q \in Passed(T) : First(O, q, Head(T.todo).router)
           /\ \A q \in Passed(T) : \A i \in 1..Len(Tail(T.todo)) :
                 First(O, q, Tail(T.todo)[i].router)
           /\ \A i \in 1..Len(Tail(T.todo)) :
                 <<Head(T.todo).router, Tail(T.todo)[i].router>> \in O.beside
           /\ \A i, j \in 1..Len(Tail(T.todo)) : i < j =>
                 <<Tail(T.todo)[i].router, Tail(T.todo)[j].router>> \in O.beside
           /\ \A x \in T.roster :
                 \/ Had(T, x) \/ x[1] \in T.declined
                 \/ \E i \in 1..Len(Tail(T.todo)) : <<Tail(T.todo)[i].router, x[1]>> \in O.up
                 \/ <<Head(T.todo).router, x[1]>> \in O.up
<1> DEFINE s == T.todo
           n == Len(s)
<1>1. /\ Head(s) = s[1] /\ Head(s) \in Entries /\ n \in Nat /\ n >= 1
      /\ Tail(s) \in Seq(Entries) /\ Len(Tail(s)) = n - 1
    OBVIOUS
<1>2. \A i \in 1..(n - 1) : Tail(s)[i] = s[i + 1]
    OBVIOUS
<1>3. Ahead(T, O) /\ Complete(T, O) /\ ~Within(T)
    BY DEF Lined, Walking, Within
<1>4. 1 \in 1..n /\ \A i \in 1..(n - 1) : i + 1 \in 1..n /\ 1 < i + 1
    BY <1>1
<1>5. \A i \in 1..n : i = 1 \/ (i - 1 \in 1..(n - 1) /\ (i - 1) + 1 = i)
    BY <1>1
<1>6. ASSUME NEW x \in T.roster, ~Had(T, x), x[1] \notin T.declined
      PROVE  \/ \E i \in 1..(n - 1) : <<Tail(s)[i].router, x[1]>> \in O.up
             \/ <<s[1].router, x[1]>> \in O.up
  <2>1. PICK i \in 1..n : <<s[i].router, x[1]>> \in O.up
      BY <1>3, <1>6 DEF Complete, Pending
  <2>2. CASE i = 1
      BY <2>1, <2>2
  <2>3. CASE i - 1 \in 1..(n - 1) /\ (i - 1) + 1 = i
      BY <2>1, <2>3, <1>2
  <2> QED
      BY <2>2, <2>3, <1>5
<1>7. \A i, j \in 1..(n - 1) : i < j => i + 1 < j + 1
    BY <1>1
<1>8. Head(s).router \in Routers
    BY <1>1 DEF Entries
<1> HIDE DEF s, n
<1>9. /\ \A i, j \in 1..n : i < j => <<s[i].router, s[j].router>> \in O.beside
      /\ \A i \in 1..n : \A q \in Passed(T) : First(O, q, s[i].router)
    BY <1>3 DEF Ahead, s, n
<1>10. \A q \in Passed(T) : First(O, q, Head(s).router)
    BY <1>1, <1>4, <1>9
<1>11. \A q \in Passed(T) : \A i \in 1..(n - 1) : First(O, q, Tail(s)[i].router)
    BY <1>2, <1>4, <1>9
<1>12. \A i \in 1..(n - 1) : <<Head(s).router, Tail(s)[i].router>> \in O.beside
    BY <1>1, <1>2, <1>4, <1>9
<1>13. \A i, j \in 1..(n - 1) : i < j => <<Tail(s)[i].router, Tail(s)[j].router>> \in O.beside
    BY <1>2, <1>4, <1>7, <1>9
<1> QED
    BY <1>1, <1>6, <1>8, <1>10, <1>11, <1>12, <1>13 DEF s

(* A router without handlers for the observer is passed by.                *)
LEMMA SkipIsLined ==
    ASSUME NEW O, Sane(O), NEW T, NEW U, Lined(T, O), T.pc = "walk", T.todo \in Seq(Entries),
           T.todo # <<>>, O.handlers[Head(T.todo).router][T.pass] = <<>>,
           NEW kids, Kids(O, Head(T.todo).router, kids), NEW below, EntriesOf(kids, below),
           U.pc = "walk", U.todo = below \o Tail(T.todo),
           \A f \in Line \ {"todo"} : U[f] = T[f]
    PROVE  Lined(U, O)
<1> DEFINE r == Head(T.todo).router
           rest == Tail(T.todo)
<1>1. Listed(T, O) /\ Ordered(T, O) /\ Walking(T) /\ ~Within(U) /\ Walking(U)
    BY DEF Lined, Walking, Within
<1>2. /\ U.pass = T.pass /\ U.offered = T.offered /\ U.declined = T.declined
      /\ U.roster = T.roster /\ U.kind = T.kind
    BY DEF Line
<1>3. Listed(U, O) /\ Passed(U) = Passed(T) /\ \A x : Had(U, x) <=> Had(T, x)
    BY <1>1, <1>2 DEF Listed, Passed, Had
<1>4. Ordered(U, O)
    BY <1>1, <1>2, <1>3 DEF Ordered
<1>5. ASSUME NEW x \in U.roster, x[1] = r PROVE FALSE
    BY <1>1, <1>2, <1>5 DEF Listed
<1>6. Ahead(U, O) /\ Complete(U, O)
  <2>1. /\ r \in Routers /\ rest \in Seq(Entries)
        /\ \A q \in Passed(T) : First(O, q, r)
        /\ \A q \in Passed(T) : \A i \in 1..Len(rest) : First(O, q, rest[i].router)
        /\ \A i \in 1..Len(rest) : <<r, rest[i].router>> \in O.beside
        /\ \A i, j \in 1..Len(rest) : i < j => <<rest[i].router, rest[j].router>> \in O.beside
        /\ \A x \in T.roster :
              \/ Had(T, x) \/ x[1] \in T.declined
              \/ \E i \in 1..Len(rest) : <<rest[i].router, x[1]>> \in O.up
              \/ <<r, x[1]>> \in O.up
      BY NextInLine
  <2>2. Passed(U) \subseteq Routers /\ \A x \in U.roster : x[1] \in Routers
    <3>1. Passed(U) \subseteq Routers
        BY <1>3, PassedAreRouters
    <3>2. U.roster \subseteq Routers \X Handlers
        BY <1>3 DEF Listed
    <3> QED
        BY <3>1, <3>2
  <2>3. \A x \in U.roster :
              \/ Had(U, x) \/ x[1] \in U.declined
              \/ \E i \in 1..Len(rest) : <<rest[i].router, x[1]>> \in O.up
              \/ x[1] \in Routers /\ <<r, x[1]>> \in O.up /\ x[1] # r
      BY <1>2, <1>3, <1>5, <2>1, <2>2
  <2>4. U.todo = below \o rest /\ Kids(O, r, kids)
      OBVIOUS
  <2> HIDE DEF r, rest
  <2>5. Leaves(U, O, r, rest)
      BY <1>3, <2>1, <2>2, <2>3 DEF Leaves
  <2> QED
      BY <2>1, <2>4, <2>5, BelowIsAhead
<1> QED
    BY <1>1, <1>3, <1>4, <1>6 DEF Lined

(* The walk comes to a router with handlers.                               *)
LEMMA ReachIsLined ==
    ASSUME NEW O, Sane(O), NEW T, NEW U, Lined(T, O), T.pc = "walk", T.todo \in Seq(Entries),
           T.todo # <<>>, T.pass \in Observers, U.pc \in {"filters", "candidates"},
           U.todo = Tail(T.todo), U.at = Head(T.todo).router,
           U.candidates = O.handlers[Head(T.todo).router][T.pass],
           U.pass = T.pass, U.offered = T.offered, U.declined = T.declined, U.roster = T.roster,
           U.kind = T.kind
    PROVE  Lined(U, O)
<1> DEFINE r == Head(T.todo).router
           rest == Tail(T.todo)
           found == O.handlers[r][T.pass]
<1>1. Listed(T, O) /\ Ordered(T, O) /\ Walking(T) /\ Within(U) /\ Walking(U)
    BY DEF Lined, Walking, Within
<1>2. Listed(U, O) /\ Passed(U) = Passed(T) /\ \A x : Had(U, x) <=> Had(T, x)
    BY <1>1 DEF Listed, Passed, Had
<1>3. Ordered(U, O)
    BY <1>1, <1>2 DEF Ordered
<1>4. /\ r \in Routers /\ rest \in Seq(Entries)
      /\ \A q \in Passed(T) : First(O, q, r)
      /\ \A q \in Passed(T) : \A i \in 1..Len(rest) : First(O, q, rest[i].router)
      /\ \A i \in 1..Len(rest) : <<r, rest[i].router>> \in O.beside
      /\ \A i, j \in 1..Len(rest) : i < j => <<rest[i].router, rest[j].router>> \in O.beside
      /\ \A x \in T.roster :
            \/ Had(T, x) \/ x[1] \in T.declined
            \/ \E i \in 1..Len(rest) : <<rest[i].router, x[1]>> \in O.up
            \/ <<r, x[1]>> \in O.up
    BY NextInLine
<1>5. U.todo = rest /\ U.at = r /\ U.candidates = found /\ found = O.handlers[U.at][U.pass]
    OBVIOUS
<1>6. found \in Seq(Handlers)
    BY <1>4 DEF Sane
<1>r. /\ ~First(O, r, r)
      /\ \A x \in T.roster : x[1] = r => \E i \in 1..Len(found) : found[i] = x[2]
  <2>1. ~First(O, r, r)
      BY <1>4 DEF Sane
  <2>2. ASSUME NEW x \in T.roster, x[1] = r PROVE \E i \in 1..Len(found) : found[i] = x[2]
      BY <1>1, <2>2 DEF Listed
  <2> QED
      BY <2>1, <2>2
<1> HIDE DEF r, rest, found
<1>7. Ahead(U, O)
    BY <1>2, <1>4, <1>5 DEF Ahead
<1>8. Complete(U, O)
  <2> SUFFICES ASSUME NEW x \in U.roster, ~Had(U, x), x[1] \notin U.declined
               PROVE  Pending(U, O, x)
      BY DEF Complete
  <2>1. CASE \E i \in 1..Len(rest) : <<rest[i].router, x[1]>> \in O.up
      BY <2>1, <1>5 DEF Pending
  <2>2. CASE <<r, x[1]>> \in O.up
      BY <2>2, <1>r, <1>1, <1>5 DEF Pending
  <2> QED
      BY <2>1, <2>2, <1>2, <1>4
<1>9. \A q \in Passed(U) : First(O, q, U.at) /\ q # U.at
    BY <1>2, <1>4, <1>5, <1>r
<1>10. \A i \in 1..Len(U.offered) : U.offered[i][1] # U.at
    BY <1>9 DEF Passed
<1>11. U.at \notin U.declined
    BY <1>9 DEF Passed
<1>12. 0 \in Nat /\ 0 + Len(found) <= Len(found) /\ \A i \in 1..Len(found) : found[i] = found[0 + i]
    BY <1>6
<1>13. Here(U, O)
    BY <1>4, <1>5, <1>9, <1>10, <1>11, <1>12 DEF Here
<1> QED
    BY <1>2, <1>3, <1>7, <1>8, <1>13 DEF Lined

(* One more handler is offered the event: all that had it come before, all  *)
(* that has still to come comes after.                                     *)
LEMMA OfferIsLined ==
    ASSUME NEW O, Sane(O), NEW T, NEW U, Lined(T, O), T.pc = "candidates", T.at \in Routers,
           T.pass \in Observers, T.todo \in Seq(Entries),
           T.candidates \in Seq(Handlers), T.candidates # <<>>,
           U.pc \notin {"walk", "filters"}, U.candidates = Tail(T.candidates),
           U.offered = Append(T.offered, <<T.at, Head(T.candidates)>>),
           \A f \in Line \ {"candidates", "offered"} : U[f] = T[f]
    PROVE  Lined(U, O)
<1> DEFINE r == T.at
           h == Head(T.candidates)
           new == <<r, h>>
           n == Len(T.offered)
           hs == O.handlers[r][T.pass]
           m == Len(T.candidates)
<1>1. Listed(T, O) /\ Ordered(T, O) /\ Ahead(T, O) /\ Complete(T, O) /\ Here(T, O)
      /\ Walking(T) /\ Within(T) /\ (Walking(U) => Within(U))
    BY DEF Lined, Walking, Within
<1>2. /\ U.pass = T.pass /\ U.todo = T.todo /\ U.at = T.at /\ U.declined = T.declined
      /\ U.roster = T.roster /\ U.kind = T.kind
    BY DEF Line
<1>3. /\ m \in Nat /\ m >= 1 /\ h = T.candidates[1] /\ h \in Handlers
      /\ Len(Tail(T.candidates)) = m - 1
      /\ \A i \in 1..(m - 1) : Tail(T.candidates)[i] = T.candidates[i + 1]
  <2>1. m \in Nat /\ m >= 1 /\ h = T.candidates[1] /\ h \in Handlers
      OBVIOUS
  <2>2. Len(Tail(T.candidates)) = m - 1
      OBVIOUS
  <2>3. \A i \in 1..(m - 1) : Tail(T.candidates)[i] = T.candidates[i + 1]
      OBVIOUS
  <2> QED
      BY <2>1, <2>2, <2>3
<1>4. /\ new \in Routers \X Handlers /\ new[1] = r /\ new[2] = h
      /\ T.offered \in Seq(Routers \X Handlers) /\ n \in Nat
    BY <1>1, <1>3 DEF Listed
<1>5. /\ Append(T.offered, new) \in Seq(Routers \X Handlers)
      /\ Len(Append(T.offered, new)) = n + 1 /\ Append(T.offered, new)[n + 1] = new
      /\ \A i \in 1..n : Append(T.offered, new)[i] = T.offered[i]
    BY <1>4
<1>6. /\ U.offered \in Seq(Routers \X Handlers) /\ Len(U.offered) = n + 1
      /\ U.offered[n + 1] = new /\ \A i \in 1..n : U.offered[i] = T.offered[i]
    BY <1>5
<1>7. PICK k \in Nat :
          /\ k + m <= Len(hs)
          /\ \A i \in 1..m : T.candidates[i] = hs[k + i]
          /\ \A i \in 1..n : T.offered[i][1] = r => \E j \in 1..k : hs[j] = T.offered[i][2]
    BY <1>1 DEF Here
<1>8. hs \in Seq(Handlers) /\ Len(hs) \in Nat
    BY DEF Sane
<1>9. /\ \A i \in 1..Len(T.todo) : <<r, T.todo[i].router>> \in O.beside
      /\ \A q \in Passed(T) : First(O, q, r) \/ q = r
      /\ r \notin T.declined
    BY <1>1 DEF Here
<1>10. \A i \in 1..n : T.offered[i][1] \in Passed(T) /\ T.offered[i][1] \in Routers
    BY <1>1, PassedAreRouters DEF Passed
<1>11. \A i \in 1..Len(T.todo) : T.todo[i].router \in Routers
  <2>1. \A i \in 1..Len(T.todo) : T.todo[i] \in Entries
      OBVIOUS
  <2> QED
      BY <2>1 DEF Entries
<1>12. \A i \in 1..(n + 1) : i \in 1..n \/ i = n + 1
    BY <1>4
<1>13. \A x : Had(U, x) <=> Had(T, x) \/ x = new
  <2>1. n + 1 \in 1..(n + 1) /\ \A i \in 1..n : i \in 1..(n + 1)
      BY <1>4
  <2> HIDE DEF n, new
  <2>2. ASSUME NEW x, Had(U, x) PROVE Had(T, x) \/ x = new
    <3>1. PICK i \in 1..(n + 1) : U.offered[i] = x
        BY <2>2, <1>6 DEF Had
    <3> QED
        BY <3>1, <1>6, <1>12 DEF Had, n
  <2>3. ASSUME NEW x, Had(T, x) PROVE Had(U, x)
    <3>1. PICK i \in 1..n : T.offered[i] = x
        BY <2>3 DEF Had, n
    <3> QED
        BY <3>1, <2>1, <1>6 DEF Had
  <2>4. Had(U, new)
      BY <2>1, <1>6 DEF Had
  <2> QED
      BY <2>2, <2>3, <2>4
<1>14. Passed(U) \subseteq Passed(T) \cup {r}
  <2>1. ASSUME NEW i \in 1..(n + 1) PROVE U.offered[i][1] \in Passed(T) \cup {r}
      BY <1>4, <1>6, <1>10, <1>12
  <2> QED
      BY <2>1, <1>2, <1>6 DEF Passed
<1> HIDE DEF r, h, new, n, hs, m
<1>a. /\ hs = O.handlers[r][T.pass] /\ r = T.at /\ r \in Routers /\ r = U.at
      /\ n = Len(T.offered) /\ m = Len(T.candidates)
    BY <1>2 DEF hs, r, n, m
(* Those offered earlier come before it. *)
<1>15. ASSUME NEW i \in 1..n PROVE Comes(O, T.offered[i], new, T.pass)
  <2>1. CASE First(O, T.offered[i][1], r)
      BY <2>1, <1>4 DEF Comes
  <2>2. CASE T.offered[i][1] = r
    <3>1. PICK j \in 1..k : hs[j] = T.offered[i][2]
        BY <2>2, <1>7
    <3>2. k + 1 \in 1..Len(hs) /\ j \in 1..Len(hs) /\ j < k + 1
        BY <1>3, <1>7, <1>8
    <3>3. hs[k + 1] = h
      <4>1. 1 \in 1..m
          BY <1>3
      <4> QED
          BY <4>1, <1>3, <1>7
    <3> QED
        BY <2>2, <3>1, <3>2, <3>3, <1>4, <1>a DEF Comes
  <2> QED
      BY <2>1, <2>2, <1>9, <1>10
(* What has not had it comes after all of them. *)
<1>16. ASSUME NEW x \in T.roster, ~Had(U, x), x[1] \notin T.declined, NEW y,
              y = new \/ \E i \in 1..n : y = T.offered[i]
       PROVE  Comes(O, y, x, T.pass)
  <2>1. x[1] \in Routers /\ x = <<x[1], x[2]>> /\ x # new /\ Pending(T, O, x)
    <3>1. x \in Routers \X Handlers
        BY <1>1 DEF Listed
    <3>2. ~Had(T, x) /\ x # new
        BY <1>13, <1>16
    <3> QED
        BY <3>1, <3>2, <1>1, <1>16 DEF Complete
  <2>2. /\ y[1] \in Routers /\ (First(O, y[1], r) \/ y[1] = r)
        /\ y = new \/ y[1] \in Passed(T)
      BY <1>4, <1>9, <1>10, <1>16, <1>a
  <2>3. ASSUME NEW i \in 1..Len(T.todo), <<T.todo[i].router, x[1]>> \in O.up
        PROVE  First(O, y[1], x[1])
    <3>1. First(O, y[1], T.todo[i].router)
      <4>1. CASE y = new
          BY <4>1, <1>4, <1>9 DEF First
      <4>2. CASE y[1] \in Passed(T)
          BY <4>2, <1>1 DEF Ahead
      <4> QED
          BY <4>1, <4>2, <2>2
    <3> QED
        BY <3>1, <2>1, <2>2, <2>3, <1>11 DEF Sane
  <2>4. ASSUME <<r, x[1]>> \in O.up, r # x[1] PROVE First(O, y[1], x[1])
    <3>1. CASE y[1] = r
        BY <3>1, <2>4 DEF First
    <3>2. CASE First(O, y[1], r)
        BY <3>2, <2>1, <2>2, <2>4, <1>a DEF Sane
    <3> QED
        BY <3>1, <3>2, <2>2
  <2>5. ASSUME r = x[1], NEW i \in 1..m, T.candidates[i] = x[2] PROVE Comes(O, y, x, T.pass)
    <3>1. CASE First(O, y[1], r)
        BY <3>1, <2>5 DEF Comes
    <3>2. CASE y[1] = r
      <4>1. i # 1
          BY <2>1, <2>5, <1>3 DEF new
      <4>2. k + i \in 1..Len(hs) /\ hs[k + i] = x[2] /\ k + 1 < k + i
          BY <4>1, <2>5, <1>3, <1>7, <1>8
      <4>3. \E j \in 1..(k + 1) : hs[j] = y[2]
        <5>1. CASE y = new
          <6>1. 1 \in 1..m /\ k + 1 \in 1..(k + 1)
              BY <1>3
          <6> QED
              BY <5>1, <6>1, <1>3, <1>4, <1>7
        <5>2. CASE \E l \in 1..n : y = T.offered[l]
          <6>1. \E j \in 1..k : hs[j] = y[2]
              BY <5>2, <3>2, <1>7
          <6>2. \A j \in 1..k : j \in 1..(k + 1)
              OBVIOUS
          <6> QED
              BY <6>1, <6>2
        <5> QED
            BY <5>1, <5>2, <1>16
      <4>4. PICK j \in 1..(k + 1) : hs[j] = y[2]
          BY <4>3
      <4>5. j \in 1..Len(hs) /\ j < k + i
          BY <4>2, <1>8
      <4> QED
          BY <4>2, <4>4, <4>5, <3>2, <2>5, <1>a DEF Comes
    <3> QED
        BY <3>1, <3>2, <2>2
  <2>6. First(O, y[1], x[1]) => Comes(O, y, x, T.pass)
      BY DEF Comes
  <2> QED
      BY <2>1, <2>3, <2>4, <2>5, <2>6, <1>a DEF Pending
<1>17. Ordered(U, O)
  <2>1. ASSUME NEW i \in 1..(n + 1), NEW j \in 1..(n + 1), i < j
        PROVE  Comes(O, U.offered[i], U.offered[j], T.pass)
    <3>1. i \in 1..n
        BY <2>1, <1>4
    <3>2. CASE j = n + 1
        BY <3>1, <3>2, <1>6, <1>15
    <3>3. CASE j \in 1..n
        BY <3>1, <3>3, <2>1, <1>1, <1>6, <1>a DEF Ordered
    <3> QED
        BY <3>2, <3>3, <1>12
  <2>2. ASSUME NEW i \in 1..(n + 1) PROVE U.offered[i][1] \notin U.declined
    <3>1. CASE i \in 1..n
        BY <3>1, <1>1, <1>2, <1>6, <1>a DEF Ordered
    <3>2. CASE i = n + 1
        BY <3>2, <1>2, <1>4, <1>6, <1>9
    <3> QED
        BY <3>1, <3>2, <1>12
  <2>3. ASSUME NEW x \in U.roster, ~Had(U, x), x[1] \notin U.declined, NEW i \in 1..(n + 1)
        PROVE  Comes(O, U.offered[i], x, T.pass)
    <3>1. U.offered[i] = new \/ \E j \in 1..n : U.offered[i] = T.offered[j]
        BY <1>6, <1>12
    <3> QED
        BY <3>1, <2>3, <1>2, <1>16
  <2> QED
      BY <2>1, <2>2, <2>3, <1>2, <1>6 DEF Ordered
<1>18. Listed(U, O)
    BY <1>1, <1>2, <1>6 DEF Listed
<1>19. Ahead(U, O)
  <2>1. ASSUME NEW q \in Passed(U), NEW i \in 1..Len(T.todo) PROVE First(O, q, T.todo[i].router)
      BY <2>1, <1>1, <1>9, <1>14 DEF Ahead, First
  <2> QED
      BY <2>1, <1>1, <1>2 DEF Ahead
<1>20. ASSUME Within(U) PROVE Complete(U, O)
  <2> SUFFICES ASSUME NEW x \in U.roster, ~Had(U, x), x[1] \notin U.declined
               PROVE  Pending(U, O, x)
      BY DEF Complete
  <2>1. Pending(T, O, x) /\ x # new /\ x = <<x[1], x[2]>>
    <3>1. x \in Routers \X Handlers
        BY <1>1, <1>2 DEF Listed
    <3> QED
        BY <3>1, <1>1, <1>2, <1>13 DEF Complete
  <2>2. ASSUME r = x[1], NEW i \in 1..m, T.candidates[i] = x[2]
        PROVE  \E j \in 1..Len(U.candidates) : U.candidates[j] = x[2]
    <3>1. i # 1
        BY <2>1, <2>2, <1>3 DEF new
    <3>2. i - 1 \in 1..(m - 1) /\ (i - 1) + 1 = i
        BY <3>1, <1>3
    <3>3. U.candidates[i - 1] = x[2]
        BY <3>2, <2>2, <1>3
    <3> QED
        BY <3>2, <3>3, <1>3
  <2> QED
      BY <2>1, <2>2, <1>2, <1>20, <1>a DEF Pending
<1>21. ASSUME Within(U) PROVE Here(U, O)
  <2>1. k + 1 \in Nat /\ (k + 1) + (m - 1) <= Len(hs)
      BY <1>3, <1>7, <1>8
  <2>2. ASSUME NEW i \in 1..(m - 1) PROVE Tail(T.candidates)[i] = hs[(k + 1) + i]
    <3>1. m \in Nat /\ i \in Nat
        BY <1>3
    <3>2. i + 1 \in 1..m
        BY <3>1
    <3>3. k + (i + 1) = (k + 1) + i
        BY <3>1
    <3> QED
        BY <3>2, <3>3, <1>3, <1>7
  <2>3. ASSUME NEW i \in 1..(n + 1), U.offered[i][1] = r
        PROVE  \E j \in 1..(k + 1) : hs[j] = U.offered[i][2]
    <3>1. CASE i \in 1..n
      <4>1. PICK j \in 1..k : hs[j] = T.offered[i][2]
          BY <3>1, <2>3, <1>6, <1>7
      <4>2. j \in 1..(k + 1)
          OBVIOUS
      <4> QED
          BY <3>1, <4>1, <4>2, <1>6
    <3>2. CASE i = n + 1
      <4>1. 1 \in 1..m /\ k + 1 \in 1..(k + 1)
          BY <1>3
      <4>2. hs[k + 1] = h
          BY <4>1, <1>3, <1>7
      <4> QED
          BY <3>2, <4>1, <4>2, <1>4, <1>6
    <3> QED
        BY <3>1, <3>2, <1>12
  <2>4. \A q \in Passed(U) : First(O, q, r) \/ q = r
      BY <1>9, <1>14
  <2>5. k + 1 \in Nat /\ (k + 1) + Len(U.candidates) <= Len(hs)
      BY <2>1, <1>3
  <2>6. \A i \in 1..Len(U.candidates) : U.candidates[i] = hs[(k + 1) + i]
      BY <2>2, <1>3
  <2>7. \A i \in 1..Len(U.offered) : U.offered[i][1] = r =>
            \E j \in 1..(k + 1) : hs[j] = U.offered[i][2]
      BY <2>3, <1>6
  <2>8. /\ \A i \in 1..Len(U.todo) : <<r, U.todo[i].router>> \in O.beside
        /\ r \notin U.declined /\ r = U.at /\ U.pc # "filters"
        /\ hs = O.handlers[U.at][U.pass]
      BY <1>2, <1>9, <1>a
  <2> QED
      BY <2>4, <2>5, <2>6, <2>7, <2>8 DEF Here
<1> QED
    BY <1>1, <1>17, <1>18, <1>19, <1>20, <1>21 DEF Lined

-----------------------------------------------------------------------------
(* The steps of a turn, one by one. *)

(* A change that leaves the walk where it is. *)
Calm(t, c) ==
    /\ DOMAIN c \subseteq DOMAIN Idle \ Line
    /\ IF "pc" \in DOMAIN c
       THEN \/ c.pc \in {"select", "finally"}
            \/ c.pc \in {"candidates", "frame", "body", "unwind"} /\ Within(turn[t])
       ELSE Within(turn[t]) /\ turn[t].pc # "filters"

(* They keep what is offered in order.                                     *)
LEMMA CalmIsLined ==
    ASSUME TurnsInv, NEW t \in Turns, NEW c, Calm(t, c), Become(t, c), Lined(turn[t], Ordering)
    PROVE  Lined(turn'[t], Ordering)
<1>1. DOMAIN c \subseteq DOMAIN Idle
    BY DEF Calm
<1>2. Differs(turn[t], turn'[t], c)
    BY <1>1, Becoming
<1>3. Line \subseteq DOMAIN Idle /\ "pc" \in DOMAIN Idle
    BY DEF Line, Idle
<1>4. \A f \in Line : turn'[t][f] = turn[t][f]
    BY <1>2, <1>3 DEF Differs, Calm
<1>5. turn'[t].pc = IF "pc" \in DOMAIN c THEN c.pc ELSE turn[t].pc
    BY <1>2, <1>3 DEF Differs
<1>6. Walking(turn'[t]) => /\ Within(turn[t]) /\ Within(turn'[t])
                           /\ turn'[t].pc = "filters" => turn[t].pc = "filters"
    BY <1>5 DEF Calm, Walking, Within
<1> QED
    BY <1>4, <1>6, StillLined

(* The changes of this kind.                                               *)
LEMMA Calming ==
    ASSUME NEW t \in Turns
    PROVE  /\ Within(turn[t]) => Calm(t, NextCandidate(t))
           /\ Calm(t, Stopped(t)) /\ \A stage : Calm(t, Failed(t, stage))
           /\ Calm(t, [pc |-> "finally"]) /\ Calm(t, [pc |-> "finally", raises |-> TRUE])
           /\ Calm(t, [pc |-> "select"])
<1>1. Within(turn[t]) => Calm(t, NextCandidate(t))
    BY DEF Calm, NextCandidate, Line, Idle
<1>2. Calm(t, Stopped(t))
    BY DEF Calm, Stopped, Line, Idle
<1>3. \A stage : Calm(t, Failed(t, stage))
    BY DEF Calm, Failed, Line, Idle
<1>4. /\ Calm(t, [pc |-> "finally"]) /\ Calm(t, [pc |-> "finally", raises |-> TRUE])
      /\ Calm(t, [pc |-> "select"])
    BY DEF Calm, Line, Idle
<1> QED
    BY <1>1, <1>2, <1>3, <1>4

(* What the turn's own invariant says of its walk.                          *)
LEMMA OnItsWay ==
    ASSUME NEW T, Fits(T)
    PROVE  /\ T.at \in Routers /\ T.around \in Seq(Middlewares) /\ T.todo \in Seq(Entries)
           /\ T.candidates \in Seq(Handlers) /\ T.left \in Seq(Observers)
           /\ Walking(T) => T.pass \in Observers
BY DEF Fits, Typed, Scoped, Sound, Walking

(* The entries that Below makes.                                           *)
LEMMA BelowIs ==
    ASSUME TreeInv, NEW r \in Routers, NEW items \in Seq(Middlewares)
    PROVE  EntriesOf(children[r], Below(r, items))
<1> DEFINE b == Below(r, items)
<1>1. children[r] \in Seq(Routers)
    BY DEF TreeInv
<1>2. Len(children[r]) \in Nat /\ \A i \in 1..Len(children[r]) : children[r][i] \in Routers
    BY <1>1
<1>3. b = [i \in 1..Len(children[r]) |-> [router |-> children[r][i], inherited |-> items]]
    BY DEF Below
<1>4. \A i \in 1..Len(children[r]) : b[i] \in Entries /\ b[i].router = children[r][i]
    BY <1>2, <1>3 DEF Entries
<1>5. b \in Seq(Entries) /\ Len(b) = Len(children[r])
  <2> HIDE DEF b
  <2>1. b \in [1..Len(children[r]) -> Entries]
      BY <1>3, <1>4
  <2> QED
      BY <2>1, <1>2
<1> QED
    BY <1>4, <1>5 DEF EntriesOf

(* A pass begins.                                                          *)
LEMMA SelectLines ==
    ASSUME TreeInv, TurnsInv, NEW t \in Turns, Select(t), turn[t].kind # "workspace"
    PROVE  Lined(turn'[t], Ordering)
<1> DEFINE pass == Head(turn[t].left)
           change == [pc |-> "walk", pass |-> pass, left |-> Tail(turn[t].left),
                      todo |-> WalkStart, roster |-> Registered(pass),
                      offered |-> <<>>, declined |-> {}]
           U == turn'[t]
<1>1. Become(t, change) /\ turn[t].left # <<>>
    BY DEF Select
<1>2. Differs(turn[t], U, change)
    BY <1>1, Becoming DEF Idle
<1>3. pass \in Observers
    BY <1>1, OnItsWay DEF TurnsInv
<1> HIDE DEF pass
<1>4. /\ U.pc = "walk" /\ U.pass = pass /\ U.todo = WalkStart /\ U.roster = Registered(pass)
      /\ U.offered = <<>> /\ U.declined = {} /\ U.kind = turn[t].kind
    BY <1>2 DEF Differs, Idle
<1>5. U.roster = Registered(U.pass) /\ U.kind # "workspace"
    BY <1>4
<1> QED
    BY <1>3, <1>4, <1>5, StartIsLined

(* The walk of a workspace event begins.                                   *)
LEMMA FeedEventLines ==
    ASSUME TreeInv, TurnsInv, NEW t \in Turns, FeedEvent(t)
    PROVE  Lined(turn'[t], Ordering)
<1> DEFINE change == [pc |-> "walk", kind |-> "workspace", pass |-> "workspace_event",
                      todo |-> WalkStart, roster |-> Registered("workspace_event"),
                      saved |-> current[t]]
           T == turn[t]
           U == turn'[t]
<1>1. Become(t, change) /\ T = Idle
    BY DEF FeedEvent, TurnsInv, Fits, Honest
<1>2. Differs(T, U, change)
    BY <1>1, Becoming DEF Idle
<1>3. /\ U.pc = "walk" /\ U.pass = "workspace_event" /\ U.todo = WalkStart
      /\ U.roster = Registered("workspace_event")
      /\ U.offered = T.offered /\ U.declined = T.declined
    BY <1>2 DEF Differs, Idle
<1>4. U.offered = <<>> /\ U.declined = {} /\ U.pass \in Observers /\ U.roster = Registered(U.pass)
    BY <1>1, <1>3, KindsAssumption DEF Idle
<1> QED
    BY <1>3, <1>4, StartIsLined

(* The walk comes to a router, or past one without handlers.               *)
LEMMA WalkLines ==
    ASSUME TreeInv, Linked, TurnsInv, NEW t \in Turns, Lined(turn[t], Ordering),
           Walk(t) \/ (turn[t].kind = "workspace" /\ WalkEvents(t))
    PROVE  Lined(turn'[t], Ordering)
<1> DEFINE T == turn[t]
           U == turn'[t]
           r == Head(T.todo).router
           around == Around(Head(T.todo))
           found == handlers[r][T.pass]
           below == Below(r, around)
<1>1. /\ T.pc = "walk" /\ Fits(T) /\ Sound(T.todo) /\ T.todo \in Seq(Entries)
      /\ T.pass \in Observers /\ Sane(Ordering)
  <2>1. T.pc = "walk" /\ Fits(T)
      BY DEF Walk, WalkEvents, TurnsInv
  <2> QED
      BY <2>1, OnItsWay, OrderingIsSane DEF Fits, Scoped, Walking
<1>e. Walk(t) \/ (T.pass = "workspace_event" /\ WalkEvents(t))
    BY DEF Lined, Listed
<1>2. CASE T.todo = <<>>
  <2>1. Become(t, [pc |-> "select"]) \/ Become(t, [pc |-> "finally"])
      BY <1>2 DEF Walk, WalkEvents
  <2> QED
      BY <2>1, Calming, CalmIsLined
<1>3. CASE T.todo # <<>>
  <2> DEFINE reach == [pc |-> "filters", todo |-> Tail(T.todo), at |-> r, around |-> around,
                       candidates |-> found, data |-> {}]
             come == [pc |-> "candidates", todo |-> Tail(T.todo), at |-> r, around |-> around,
                      seen |-> {"context"}, candidates |-> found]
             pass == [todo |-> below \o Tail(T.todo)]
  <2>1. \/ found = <<>> /\ Become(t, pass)
        \/ Become(t, reach)
        \/ Become(t, come)
      BY <1>3, <1>e DEF Walk, WalkEvents
  <2>2. r \in Routers /\ around \in Seq(Middlewares)
      BY <1>1, <1>3, HeadSound
  <2>3. EntriesOf(children[r], below) /\ Kids(Ordering, r, children[r])
      BY <2>2, BelowIs, OrderingIsSane
  <2>4. Ordering.handlers[r][T.pass] = found
      BY OrderingIs
  <2>5. CASE found = <<>> /\ Become(t, pass)
    <3>1. Differs(T, U, pass)
        BY <2>5, Becoming DEF Idle
    <3>2. U.todo = below \o Tail(T.todo) /\ U.pc = T.pc /\ \A f \in Line \ {"todo"} : U[f] = T[f]
      <4> HIDE DEF below
      <4> QED
          BY <3>1 DEF Differs, Line, Idle
    <3>3. U.todo = below \o Tail(T.todo) /\ U.pc = "walk"
        BY <1>1, <3>2
    <3>4. Ordering.handlers[Head(T.todo).router][T.pass] = <<>>
        BY <2>4, <2>5
    <3>5. Kids(Ordering, Head(T.todo).router, children[r]) /\ EntriesOf(children[r], below)
        BY <2>3
    <3> HIDE DEF U, T, below, r, found
    <3>6. Lined(T, Ordering)
        BY DEF T
    <3>7. Lined(U, Ordering)
        BY <1>1, <1>3, <3>2, <3>3, <3>4, <3>5, <3>6, SkipIsLined
    <3> QED
        BY <3>7 DEF U
  <2>6. CASE Become(t, reach) \/ Become(t, come)
    <3>1. /\ U.pc \in {"filters", "candidates"} /\ U.todo = Tail(T.todo) /\ U.at = r
          /\ U.candidates = found
          /\ U.pass = T.pass /\ U.offered = T.offered /\ U.declined = T.declined
          /\ U.roster = T.roster /\ U.kind = T.kind
      <4> HIDE DEF r, around, found
      <4>1. Differs(T, U, reach) \/ Differs(T, U, come)
          BY <2>6, Becoming DEF Idle
      <4> QED
          BY <4>1 DEF Differs, Idle
    <3>2. /\ U.at = Head(T.todo).router
          /\ U.candidates = Ordering.handlers[Head(T.todo).router][T.pass]
        BY <2>4, <3>1
    <3> HIDE DEF U, T, r, found
    <3>3. Lined(T, Ordering)
        BY DEF T
    <3>4. Lined(U, Ordering)
        BY <1>1, <1>3, <3>1, <3>2, <3>3, ReachIsLined
    <3> QED
        BY <3>4 DEF U
  <2> QED
      BY <2>1, <2>5, <2>6
<1> QED
    BY <1>2, <1>3

(* The walk goes on below a router.                                        *)
LEMMA OnwardLines ==
    ASSUME TreeInv, Linked, TurnsInv, NEW t \in Turns, NEW out, NEW keys,
           Exhausted(t) \/ (ObserverFilters(t, out, keys) /\ out \in {"no", "skip"}),
           Lined(turn[t], Ordering)
    PROVE  Lined(turn'[t], Ordering)
<1> DEFINE T == turn[t]
           U == turn'[t]
           below == Below(T.at, T.around)
           mark == [declined |-> T.declined \cup {T.at}]
<1>1. Fits(T) /\ T.at \in Routers /\ T.around \in Seq(Middlewares) /\ T.todo \in Seq(Entries)
    BY OnItsWay DEF TurnsInv
<1>2. EntriesOf(children[T.at], below) /\ Kids(Ordering, T.at, children[T.at]) /\ Sane(Ordering)
    BY <1>1, BelowIs, OrderingIsSane
<1>3. /\ U.pc = "walk" /\ U.todo = below \o T.todo /\ U.pass = T.pass /\ U.offered = T.offered
      /\ U.roster = T.roster /\ U.kind = T.kind
      /\ \/ T.pc = "candidates" /\ T.candidates = <<>> /\ U.declined = T.declined
         \/ T.pc = "filters" /\ U.declined = T.declined \cup {T.at}
  <2>1. Onward(t) = [pc |-> "walk", todo |-> below \o T.todo, handler |-> NoHandler, data |-> {},
                     seen |-> {}, candidates |-> <<>>]
      BY DEF Onward
  <2>0. {"kind", "pc", "todo", "pass", "offered", "roster", "declined"} \subseteq DOMAIN Idle
      BY DEF Idle
  <2> HIDE DEF below
  <2>2. DOMAIN Onward(t) = {"pc", "todo", "handler", "data", "seen", "candidates"}
      BY DEF Onward
  <2>3. CASE Exhausted(t)
    <3>1. Become(t, Onward(t)) /\ T.pc = "candidates" /\ T.candidates = <<>>
        BY <2>3 DEF Exhausted
    <3>2. Differs(T, U, Onward(t))
        BY <2>1, <3>1, Becoming DEF Idle
    <3>3. \A f \in DOMAIN Idle : U[f] = IF f \in DOMAIN Onward(t) THEN Onward(t)[f] ELSE T[f]
        BY <3>2 DEF Differs
    <3>4. /\ U.pc = Onward(t).pc /\ U.todo = Onward(t).todo /\ U.pass = T.pass
          /\ U.offered = T.offered /\ U.roster = T.roster /\ U.declined = T.declined
          /\ U.kind = T.kind
        BY <2>0, <2>2, <3>3
    <3> QED
        BY <2>1, <3>1, <3>4
  <2>4. CASE ObserverFilters(t, out, keys) /\ out \in {"no", "skip"}
    <3>1. Become(t, Over(mark, Onward(t))) /\ T.pc = "filters"
        BY <2>4 DEF ObserverFilters
    <3>2. DOMAIN Over(mark, Onward(t)) \subseteq DOMAIN Idle
        BY DEF Over, Onward, Idle
    <3>3. Differs(T, U, Over(mark, Onward(t)))
        BY <3>1, <3>2, Becoming
    <3>4. \A f \in DOMAIN Idle : U[f] = IF f \in DOMAIN mark THEN mark[f]
                                        ELSE IF f \in DOMAIN Onward(t) THEN Onward(t)[f] ELSE T[f]
        BY <3>3, Twice
    <3>5. DOMAIN mark = {"declined"} /\ mark.declined = T.declined \cup {T.at}
        OBVIOUS
    <3> HIDE DEF mark
    <3>6. /\ U.pc = Onward(t).pc /\ U.todo = Onward(t).todo /\ U.pass = T.pass
          /\ U.offered = T.offered /\ U.roster = T.roster /\ U.declined = mark.declined
          /\ U.kind = T.kind
        BY <2>0, <2>2, <3>4, <3>5
    <3> QED
        BY <2>1, <3>1, <3>5, <3>6
  <2> QED
      BY <2>3, <2>4
<1> HIDE DEF U, below
<1>4. Lined(U, Ordering)
    BY <1>1, <1>2, <1>3, OnwardIsLined
<1> QED
    BY <1>4 DEF U

(* A chain of filters answers, an observer's or a handler's.               *)
LEMMA FilterLines ==
    ASSUME TreeInv, Linked, TurnsInv, NEW t \in Turns, NEW out, NEW keys,
           \/ ObserverFilters(t, out, keys) \/ HandlerFilters(t, out, keys)
           \/ EventFilters(t, out, keys),
           Lined(turn[t], Ordering)
    PROVE  Lined(turn'[t], Ordering)
<1> DEFINE T == turn[t]
           U == turn'[t]
<1>1. out \in {"no", "skip", "stop", "error", "yes"}
    BY DEF ObserverFilters, HandlerFilters, EventFilters, Filters
<1>2. CASE ObserverFilters(t, out, keys)
  <2>1. CASE out \in {"no", "skip"}
      BY <1>2, <2>1, OnwardLines
  <2>2. CASE out \notin {"no", "skip"}
    <3> DEFINE c == [pc |-> "candidates", seen |-> BaseKeys \cup keys]
    <3>1. /\ T.pc = "filters"
          /\ Become(t, c) \/ Become(t, Stopped(t)) \/ Become(t, Failed(t, "filter"))
        BY <1>1, <1>2, <2>2 DEF ObserverFilters
    <3>2. Calm(t, c)
        BY <3>1 DEF Calm, Within, Line, Idle
    <3> HIDE DEF c
    <3> QED
        BY <3>1, <3>2, Calming, CalmIsLined
  <2> QED
      BY <2>1, <2>2
<1>3. CASE HandlerFilters(t, out, keys) \/ EventFilters(t, out, keys)
  <2> DEFINE h == Head(T.candidates)
             rest == [candidates |-> Tail(T.candidates),
                      offered |-> Append(T.offered, <<T.at, h>>)]
             chosen == [pc |-> "frame", handler |-> h, depth |-> 1,
                        data |-> T.seen \cup keys, retries |-> 0]
  <2>1. T.pc = "candidates" /\ T.candidates # <<>> /\ Within(T)
      BY <1>3 DEF HandlerFilters, EventFilters, Within
  <2>2. PICK c : /\ Become(t, Over(rest, c))
                 /\ \/ c = chosen \/ c = NextCandidate(t)
                    \/ c = Stopped(t) \/ c = Failed(t, "filter")
                    \/ c = [pc |-> "finally"] \/ c = [pc |-> "finally", raises |-> TRUE]
      BY <1>1, <1>3 DEF HandlerFilters, EventFilters
  <2>3. Calm(t, chosen)
      BY <2>1 DEF Calm, Line, Idle
  <2>4. Calm(t, c) /\ "pc" \in DOMAIN c
    <3>1. Calm(t, c)
        BY <2>1, <2>2, <2>3, Calming
    <3>2. "pc" \in DOMAIN c
        BY <2>2 DEF NextCandidate, Stopped, Failed
    <3> QED
        BY <3>1, <3>2
  <2>5. /\ DOMAIN rest = {"candidates", "offered"}
        /\ rest.candidates = Tail(T.candidates)
        /\ rest.offered = Append(T.offered, <<T.at, h>>)
      OBVIOUS
  <2> HIDE DEF rest, chosen
  <2>6. Differs(T, U, Over(rest, c))
    <3>1. DOMAIN Over(rest, c) = DOMAIN rest \cup DOMAIN c
        BY DEF Over
    <3>2. DOMAIN rest \subseteq DOMAIN Idle
        BY <2>5 DEF Idle
    <3>3. DOMAIN Over(rest, c) \subseteq DOMAIN Idle
        BY <2>4, <3>1, <3>2 DEF Calm
    <3> QED
        BY <2>2, <3>3, Becoming
  <2>7. \A f \in DOMAIN Idle : U[f] = IF f \in DOMAIN rest THEN rest[f]
                                      ELSE IF f \in DOMAIN c THEN c[f] ELSE T[f]
      BY <2>6, Twice
  <2>8. Line \subseteq DOMAIN Idle /\ {"candidates", "offered", "pc"} \subseteq DOMAIN Idle
      BY DEF Line, Idle
  <2>9. /\ U.candidates = Tail(T.candidates) /\ U.offered = Append(T.offered, <<T.at, h>>)
        /\ U.pc = c.pc
      BY <2>4, <2>5, <2>7, <2>8
  <2>10. U.pc \notin {"walk", "filters"}
      BY <2>4, <2>9 DEF Calm
  <2>11. \A f \in Line \ {"candidates", "offered"} : U[f] = T[f]
      BY <2>4, <2>5, <2>7, <2>8 DEF Calm
  <2>12. /\ T.at \in Routers /\ T.pass \in Observers /\ T.todo \in Seq(Entries)
         /\ T.candidates \in Seq(Handlers) /\ Sane(Ordering)
      BY <2>1, OnItsWay, OrderingIsSane DEF TurnsInv, Walking
  <2> HIDE DEF U
  <2>13. Lined(U, Ordering)
      BY <2>1, <2>9, <2>10, <2>11, <2>12, OfferIsLined
  <2> QED
      BY <2>13 DEF U
<1> QED
    BY <1>2, <1>3

(* The frames around a handler, and what becomes of the outcome.           *)
LEMMA CallLines ==
    ASSUME TurnsInv, NEW t \in Turns, Lined(turn[t], Ordering),
           \/ Unmatched(t) \/ Resolve(t) \/ ResolveEvent(t) \/ Returned(t) \/ EventReturned(t)
           \/ \E out : Middleware(t, out) \/ Unwind(t, out) \/ Body(t, out)
    PROVE  Lined(turn'[t], Ordering)
<1> SUFFICES \E c : Calm(t, c) /\ Become(t, c)
    BY CalmIsLined
<1> DEFINE T == turn[t]
           n == Frames(t)
<1>0. CASE Unmatched(t)
  <2>1. \/ Become(t, [pc |-> "finally", raises |-> TRUE])
        \/ Become(t, Failed(t, "unknown"))
        \/ Become(t, [pc |-> "finally"])
      BY <1>0 DEF Unmatched
  <2> QED
      BY <2>1, Calming
<1>1. CASE Resolve(t) \/ ResolveEvent(t)
  <2>1. /\ T.pc = "frame"
        /\ \/ Become(t, [pc |-> "body"])
           \/ Become(t, [pc |-> "unwind", depth |-> n, out |-> "error"])
           \/ Become(t, [pc |-> "unwind", depth |-> n, out |-> "error",
                         stage |-> "dependency_resolution"])
      BY <1>1 DEF Resolve, ResolveEvent
  <2>2. /\ Calm(t, [pc |-> "body"]) /\ Calm(t, [pc |-> "unwind", depth |-> n, out |-> "error"])
        /\ Calm(t, [pc |-> "unwind", depth |-> n, out |-> "error",
                    stage |-> "dependency_resolution"])
      BY <2>1 DEF Calm, Within, Line, Idle
  <2> QED
      BY <2>1, <2>2
<1>2. CASE Returned(t) \/ EventReturned(t)
  <2>1. T.pc = "unwind" /\ Within(T)
      BY <1>2 DEF Returned, EventReturned, Within
  <2>2. T.out \in Outcomes
      BY <2>1 DEF TurnsInv, Fits, Typed
  <2>3. PICK c : /\ Become(t, c)
                 /\ \/ c = [pc |-> "finally", answer |-> T.handler]
                    \/ c = NextCandidate(t) \/ c = Stopped(t) \/ (\E stage : c = Failed(t, stage))
                    \/ c = [pc |-> "finally"] \/ c = [pc |-> "finally", raises |-> TRUE]
      BY <1>2, <2>2 DEF Returned, EventReturned, Outcomes
  <2>4. Calm(t, [pc |-> "finally", answer |-> T.handler])
      BY DEF Calm, Line, Idle
  <2> QED
      BY <2>1, <2>3, <2>4, Calming
<1>3. ASSUME NEW out, Middleware(t, out) PROVE \E c : Calm(t, c) /\ Become(t, c)
  <2>1. PICK c : /\ Become(t, c) /\ T.pc = "frame"
                 /\ \/ c = [depth |-> T.depth + 1, data |-> T.data \cup {T.around[T.depth]}]
                    \/ c = [pc |-> "unwind", depth |-> T.depth - 1, out |-> out,
                            stage |-> "unknown", meddled |-> TRUE]
      BY <1>3 DEF Middleware
  <2>2. Calm(t, c)
      BY <2>1 DEF Calm, Within, Line, Idle
  <2> QED
      BY <2>1, <2>2
<1>4. ASSUME NEW out, Unwind(t, out) PROVE \E c : Calm(t, c) /\ Become(t, c)
  <2>1. PICK c : /\ Become(t, c) /\ T.pc = "unwind"
                 /\ \/ c = [pc |-> "frame", depth |-> T.depth + 1,
                            retries |-> T.retries + 1, meddled |-> TRUE]
                    \/ c = [depth |-> T.depth - 1]
                    \/ c = [depth |-> T.depth - 1, out |-> out, stage |-> "unknown",
                            meddled |-> TRUE]
      BY <1>4 DEF Unwind
  <2>2. Calm(t, c)
      BY <2>1 DEF Calm, Within, Line, Idle
  <2> QED
      BY <2>1, <2>2
<1>5. ASSUME NEW out, Body(t, out) PROVE \E c : Calm(t, c) /\ Become(t, c)
  <2> DEFINE c == [pc |-> "unwind", depth |-> n, out |-> out,
                   stage |-> IF out = "error" THEN "handler" ELSE "unknown",
                   done |-> IF out = "result" THEN T.done \cup {T.handler} ELSE T.done]
  <2>1. Become(t, c) /\ T.pc = "body"
      BY <1>5 DEF Body
  <2>2. Calm(t, c)
      BY <2>1 DEF Calm, Within, Line, Idle
  <2> QED
      BY <2>1, <2>2
<1> QED
    BY <1>0, <1>1, <1>2, <1>3, <1>4, <1>5

-----------------------------------------------------------------------------
(* Before the first router is included.                                    *)
LEMMA InitOrderInv == Init => OrderInv
<1> SUFFICES ASSUME Init PROVE OrderInv
    OBVIOUS
<1>1. /\ \A r \in Routers : children[r] = <<>> /\ parent[r] = NoRouter
      /\ turn = [t \in Turns |-> Idle]
    BY DEF Init, TreeInit, DispatchInit
<1>2. ASSUME NEW r \in Routers, NEW s \in Routers, r \in Path(s) PROVE r = s
  <2>1. \A x \in {s} : parent[x] \in Routers => parent[x] \in {s}
      BY <1>1, TreeAssumption
  <2> QED
      BY <1>2, <2>1 DEF Path
<1>3. Linked
    BY <1>1, <1>2, TreeAssumption DEF Linked
<1>4. /\ Idle.offered = <<>> /\ Idle.declined = {} /\ Idle.roster = {} /\ ~Walking(Idle)
      /\ Idle.kind # "workspace"
    BY DEF Idle, Walking
<1>5. \A t \in Turns : turn[t] = Idle
    BY <1>1
<1> QED
    BY <1>3, <1>4, <1>5, NothingIsLined DEF OrderInv

(* While the tree is as it was, the order is.                              *)
LEMMA OrderStays ==
    ASSUME OrderInv, UNCHANGED tree, \A t \in Turns : Lined(turn'[t], Ordering)
    PROVE  OrderInv'
<1>1. \A r : Path(r)' = Path(r)
    BY DEF Path, tree
<1>2. Linked'
    BY <1>1 DEF OrderInv, Linked, tree
<1>3. Ordering' = Ordering
  <2>1. \A r, s : Beside(r, s)' <=> Beside(r, s)
      BY <1>1 DEF Beside, tree
  <2>2. /\ Ordering.up = {p \in Routers \X Routers : p[1] \in Path(p[2])}
        /\ Ordering.beside = {p \in Routers \X Routers : Beside(p[1], p[2])}
        /\ Ordering.handlers = handlers /\ DOMAIN Ordering = {"up", "beside", "handlers"}
        /\ Ordering = [up |-> Ordering.up, beside |-> Ordering.beside,
                       handlers |-> Ordering.handlers]
      BY DEF Ordering
  <2>3. /\ Ordering'.up = {p \in Routers \X Routers : (p[1] \in Path(p[2]))'}
        /\ Ordering'.beside = {p \in Routers \X Routers : Beside(p[1], p[2])'}
        /\ Ordering'.handlers = handlers'
        /\ Ordering' = [up |-> Ordering'.up, beside |-> Ordering'.beside,
                        handlers |-> Ordering'.handlers]
      BY DEF Ordering
  <2>4. Ordering'.up = Ordering.up
      BY <1>1, <2>2, <2>3
  <2>5. Ordering'.beside = Ordering.beside
      BY <2>1, <2>2, <2>3
  <2>6. Ordering'.handlers = Ordering.handlers
      BY <2>2, <2>3 DEF tree
  <2> QED
      BY <2>2, <2>3, <2>4, <2>5, <2>6, Zenon
<1>4. ASSUME NEW t \in Turns PROVE Lined(turn[t], Ordering)'
  <2>1. Lined(turn'[t], Ordering')
      BY <1>3
  <2> QED
      BY <2>1
<1> QED
    BY <1>2, <1>4 DEF OrderInv

(* After a step as well.                                                   *)
LEMMA SaneNext == TreeInv' /\ Linked' => Sane(Ordering)'
<1>1. TreeInv /\ Linked => Sane(Ordering)
    BY OrderingIsSane
<1> QED
    BY <1>1, PTL

(* The tree grows under the turns that walk it.                            *)
LEMMA GrowKeepsOrder ==
    ASSUME DispatchInv, OrderInv, Grow
    PROVE  OrderInv'
<1>1. TreeInv /\ Linked /\ TurnsInv
    BY DEF DispatchInv, OrderInv
<1>2. TreeInv'
    BY <1>1, GrowKeeps
<1>3. Grows
    BY <1>1, GrowGrows
<1>4. Linked'
    BY <1>3 DEF Grows
<1>5. Sane(Ordering) /\ Extends(Ordering, Ordering')
    BY <1>1, <1>3, OrderingIsSane, OrderingGrows
<1>6. Sane(Ordering')
    BY <1>2, <1>4, SaneNext
<1>7. ASSUME NEW t \in Turns PROVE Lined(turn[t], Ordering)'
  <2>1. turn' = turn
      BY DEF Grow
  <2>2. /\ turn[t].at \in Routers /\ turn[t].candidates \in Seq(Handlers)
        /\ Walking(turn[t]) => turn[t].pass \in Observers
      BY <1>1, OnItsWay DEF TurnsInv
  <2>3. Lined(turn[t], Ordering)
      BY DEF OrderInv
  <2>4. Lined(turn[t], Ordering')
      BY <1>5, <1>6, <2>2, <2>3, LinedStays
  <2> QED
      BY <2>1, <2>4
<1> QED
    BY <1>4, <1>7 DEF OrderInv

(* A step of either dispatcher within a turn. *)
LEMMA ProceedKeepsOrder ==
    ASSUME DispatchInv, OrderInv, NEW t \in Turns, Proceed(t)
    PROVE  OrderInv'
<1>1. TreeInv /\ Linked /\ TurnsInv /\ Lined(turn[t], Ordering)
    BY DEF DispatchInv, OrderInv
<1>2. \/ Moves(t) /\ Lined(turn'[t], Ordering)
      \/ End(t)
  <2>1. CASE turn[t].kind = "workspace"
    <3>1. EventStep(t)
        BY <2>1 DEF Proceed
    <3>2. CASE WalkEvents(t)
        BY <1>1, <2>1, <3>2, WalkLines, WalkingMoves
    <3>3. CASE Exhausted(t)
        BY <1>1, <3>3, OnwardLines, WalkingMoves
    <3>4. CASE ResolveEvent(t) \/ EventReturned(t)
        BY <1>1, <3>4, CallLines, CallingMoves
    <3>5. ASSUME NEW out, NEW keys, EventFilters(t, out, keys)
          PROVE  Moves(t) /\ Lined(turn'[t], Ordering)
        BY <1>1, <3>5, FilterLines, FilteringMoves
    <3>6. ASSUME NEW out, Middleware(t, out) \/ Unwind(t, out) \/ Body(t, out)
          PROVE  Moves(t) /\ Lined(turn'[t], Ordering)
        BY <1>1, <3>6, CallLines, CallingMoves
    <3> QED
        BY <3>1, <3>2, <3>3, <3>4, <3>5, <3>6 DEF EventStep
  <2>2. CASE turn[t].kind # "workspace"
    <3>1. Step(t)
        BY <2>2 DEF Proceed
    <3>2. CASE Select(t)
        BY <1>1, <2>2, <3>2, SelectLines, WalkingMoves
    <3>3. CASE Unmatched(t)
        BY <1>1, <3>3, CallLines, WalkingMoves
    <3>4. CASE Walk(t)
        BY <1>1, <3>4, WalkLines, WalkingMoves
    <3>5. CASE Exhausted(t)
        BY <1>1, <3>5, OnwardLines, WalkingMoves
    <3>6. CASE Resolve(t) \/ Returned(t)
        BY <1>1, <3>6, CallLines, CallingMoves
    <3>7. ASSUME NEW out, NEW keys, ObserverFilters(t, out, keys) \/ HandlerFilters(t, out, keys)
          PROVE  Moves(t) /\ Lined(turn'[t], Ordering)
        BY <1>1, <3>7, FilterLines, FilteringMoves
    <3>8. ASSUME NEW out, Middleware(t, out) \/ Unwind(t, out) \/ Body(t, out)
          PROVE  Moves(t) /\ Lined(turn'[t], Ordering)
        BY <1>1, <3>8, CallLines, CallingMoves
    <3> QED
        BY <3>1, <3>2, <3>3, <3>4, <3>5, <3>6, <3>7, <3>8 DEF Step
  <2> QED
      BY <2>1, <2>2
<1>3. \A u \in Turns : Lined(turn[u], Ordering)
    BY DEF OrderInv
<1>4. CASE Moves(t) /\ Lined(turn'[t], Ordering)
  <2>1. UNCHANGED tree /\ \A u \in Turns : u # t => turn'[u] = turn[u]
      BY <1>4 DEF Moves
  <2>2. \A u \in Turns : Lined(turn'[u], Ordering)
      BY <1>3, <1>4, <2>1
  <2> QED
      BY <2>1, <2>2, OrderStays
<1>5. CASE End(t)
  <2>1. UNCHANGED tree /\ turn'[t] = Idle /\ \A u \in Turns : u # t => turn'[u] = turn[u]
      BY <1>1, <1>5 DEF End, TurnsInv
  <2>2. Lined(Idle, Ordering)
      BY NothingIsLined DEF Idle, Walking
  <2>3. \A u \in Turns : Lined(turn'[u], Ordering)
      BY <1>3, <2>1, <2>2
  <2> QED
      BY <2>1, <2>3, OrderStays
<1> QED
    BY <1>2, <1>4, <1>5

(* A cancelled turn offers nothing more.                                   *)
LEMMA CancelledKeepsOrder ==
    ASSUME DispatchInv, OrderInv, NEW t \in Turns, Cancelled(t)
    PROVE  OrderInv'
<1> DEFINE gone == [pc |-> "finally", raises |-> TRUE, answer |-> NoHandler, out |-> "cancel"]
<1>1. TurnsInv /\ \A u \in Turns : Lined(turn[u], Ordering)
    BY DEF DispatchInv, OrderInv
<1>2. UNCHANGED tree /\ \A u \in Turns : turn'[u] = turn[u] \/ turn'[u] = Over(gone, turn[u])
  <2>1. CASE Cancel(t)
      BY <1>1, <2>1 DEF Cancel, Become, TurnsInv
  <2>2. CASE CancelNested(t)
    <3>1. turn[t].by # t
      <4>1. Live(t) /\ turn[t].by # NoTurn
          BY <2>2 DEF CancelNested
      <4> QED
          BY <4>1 DEF DispatchInv, Nested
    <3>2. /\ turn' = [turn EXCEPT ![t] = Over(gone, @), ![turn[t].by] = Over(gone, @)]
          /\ UNCHANGED tree
        BY <2>2 DEF CancelNested
    <3> HIDE DEF gone
    <3> QED
        BY <1>1, <3>1, <3>2 DEF TurnsInv
  <2> QED
      BY <2>1, <2>2 DEF Cancelled
<1>3. ASSUME NEW u \in Turns PROVE Lined(Over(gone, turn[u]), Ordering)
  <2>1. /\ \A f \in Line : Over(gone, turn[u])[f] = turn[u][f]
        /\ Over(gone, turn[u]).pc = "finally"
    <3>1. Line \cap DOMAIN gone = {} /\ Line \subseteq DOMAIN turn[u]
        BY <1>1 DEF Line, Idle, TurnsInv, Fits, Typed
    <3> QED
        BY <3>1 DEF Over
  <2> QED
      BY <1>1, <2>1, StillLined DEF Walking
<1>4. \A u \in Turns : Lined(turn'[u], Ordering)
    BY <1>1, <1>2, <1>3
<1> QED
    BY <1>2, <1>4, OrderStays

(* A turn that begins has offered nothing.                                 *)
LEMMA FedKeepsOrder ==
    ASSUME DispatchInv, OrderInv, NEW t \in Turns, Fed(t)
    PROVE  OrderInv'
<1>1. TreeInv /\ TurnsInv /\ \A u \in Turns : Lined(turn[u], Ordering)
    BY DEF DispatchInv, OrderInv
<1>2. CASE FeedEvent(t)
  <2>1. UNCHANGED tree /\ \A u \in Turns : u # t => turn'[u] = turn[u]
      BY <1>1, <1>2 DEF FeedEvent, Become, TurnsInv
  <2>2. Lined(turn'[t], Ordering)
      BY <1>1, <1>2, FeedEventLines
  <2>3. \A u \in Turns : Lined(turn'[u], Ordering)
      BY <1>1, <2>1, <2>2
  <2> QED
      BY <2>1, <2>3, OrderStays
<1>3. ASSUME NEW kind \in Kinds, NEW p, NEW bot, Feed(t, kind, p, bot)
      PROVE  OrderInv'
  <2> DEFINE task == IF p = NoTurn THEN t ELSE p
             begun == [pc |-> "select", kind |-> kind, by |-> p, bot |-> bot,
                       saved |-> current[task], left |-> Passes(kind)]
  <2>1. /\ UNCHANGED tree /\ turn' = [turn EXCEPT ![t] = Over(begun, @)] /\ turn[t].pc = "idle"
      BY <1>3 DEF Feed
  <2>2. turn[t] = Idle
      BY <1>1, <2>1 DEF TurnsInv, Fits, Honest
  <2>3. turn'[t] = Over(begun, Idle) /\ \A u \in Turns : u # t => turn'[u] = turn[u]
      BY <1>1, <2>1, <2>2 DEF TurnsInv
  <2>4. kind # "workspace"
      BY DEF Kinds, Specific
  <2>5. Lined(turn'[t], Ordering)
    <3> DEFINE U == Over(begun, Idle)
    <3>1. /\ U.offered = <<>> /\ U.declined = {} /\ U.roster = {} /\ U.pc = "select"
          /\ U.kind = kind
        BY DEF Over, Idle
    <3> HIDE DEF U
    <3>2. Lined(U, Ordering)
        BY <2>4, <3>1, NothingIsLined DEF Walking
    <3> QED
        BY <2>3, <3>2 DEF U
  <2>6. \A u \in Turns : Lined(turn'[u], Ordering)
      BY <1>1, <2>3, <2>5
  <2> QED
      BY <2>1, <2>6, OrderStays
<1> QED
    BY <1>2, <1>3, KindsAssumption DEF Fed

(* The order is kept by every step.                                        *)
LEMMA NextOrderInv == DispatchInv /\ OrderInv /\ [Next]_vars => OrderInv'
<1> SUFFICES ASSUME DispatchInv, OrderInv, [Next]_vars PROVE OrderInv'
    OBVIOUS
<1>1. ASSUME UNCHANGED dispatchVars PROVE OrderInv'
  <2>1. UNCHANGED tree /\ turn' = turn
      BY <1>1 DEF dispatchVars
  <2> QED
      BY <2>1, OrderStays DEF OrderInv
<1>2. CASE UNCHANGED vars
    BY <1>1, <1>2 DEF vars
<1>3. CASE Grow
    BY <1>3, GrowKeepsOrder
<1>4. CASE Lifespan
    BY <1>1, <1>4 DEF Lifespan
<1>5. ASSUME NEW t \in Turns, Fed(t) \/ Proceed(t) \/ Cancelled(t) PROVE OrderInv'
    BY <1>5, FedKeepsOrder, ProceedKeepsOrder, CancelledKeepsOrder
<1> QED
    BY <1>2, <1>3, <1>4, <1>5 DEF Next

(* What comes first in the order of a turn does in the documented one.     *)
LEMMA ComesIsBefore ==
    ASSUME TreeInv, NEW x \in Routers \X Handlers, NEW y \in Routers \X Handlers,
           NEW o \in Observers
    PROVE  Comes(Ordering, x, y, o) <=> Before(x, y, o)
<1>1. First(Ordering, x[1], y[1]) <=> Precedes(x[1], y[1])
    BY OrderingIs
<1>2. handlers[x[1]][o] \in Seq(Handlers)
    BY DEF TreeInv
<1>3. DOMAIN handlers[x[1]][o] = 1..Len(handlers[x[1]][o])
    BY <1>2
<1> QED
    BY <1>1, <1>3, OrderingIs DEF Comes, Before

(* Which gives the property.                                               *)
LEMMA OrderInvSuffices == DispatchInv /\ OrderInv => OfferedInOrder
<1> SUFFICES ASSUME DispatchInv, OrderInv, NEW t \in Turns
             PROVE  LET offered == turn[t].offered
                        Missed(x) == x \notin Range(offered) /\ x[1] \notin turn[t].declined
                    IN  /\ \A i, j \in DOMAIN offered :
                              i < j => Before(offered[i], offered[j], turn[t].pass)
                        /\ \A i \in DOMAIN offered : offered[i][1] \notin turn[t].declined
                        /\ \A x \in turn[t].roster : Missed(x) =>
                              \A i \in DOMAIN offered : Before(offered[i], x, turn[t].pass)
                        /\ turn[t].pc = "walk" /\ turn[t].todo = <<>> =>
                              \A x \in turn[t].roster : ~Missed(x)
    BY DEF OfferedInOrder
<1> DEFINE T == turn[t]
           offered == T.offered
<1>1. TreeInv /\ Lined(T, Ordering)
    BY DEF DispatchInv, OrderInv
<1>2. Listed(T, Ordering) /\ Ordered(T, Ordering)
    BY <1>1 DEF Lined
<1> HIDE DEF T
<1>3. /\ offered \in Seq(Routers \X Handlers) /\ T.roster \subseteq Routers \X Handlers
      /\ offered # <<>> => T.pass \in Observers
    BY <1>2 DEF Listed
<1>4. DOMAIN offered = 1..Len(offered) /\ \A i \in 1..Len(offered) :
          offered[i] \in Routers \X Handlers /\ T.pass \in Observers
    BY <1>3
<1>5. \A x : Had(T, x) => x \in Range(offered)
    BY <1>4 DEF Had, Range
<1>6. ASSUME NEW i \in DOMAIN offered, NEW j \in DOMAIN offered, i < j
      PROVE  Before(offered[i], offered[j], T.pass)
  <2>1. Comes(Ordering, offered[i], offered[j], T.pass)
      BY <1>2, <1>4, <1>6 DEF Ordered
  <2> QED
      BY <1>1, <1>4, <2>1, ComesIsBefore
<1>7. \A i \in DOMAIN offered : offered[i][1] \notin T.declined
    BY <1>2, <1>4 DEF Ordered
<1>8. ASSUME NEW x \in T.roster, x \notin Range(offered), x[1] \notin T.declined,
             NEW i \in DOMAIN offered
      PROVE  Before(offered[i], x, T.pass)
  <2>1. Comes(Ordering, offered[i], x, T.pass)
      BY <1>2, <1>4, <1>5, <1>8 DEF Ordered
  <2> QED
      BY <1>1, <1>3, <1>4, <2>1, ComesIsBefore
<1>9. ASSUME T.pc = "walk", T.todo = <<>>, NEW x \in T.roster
      PROVE  x \in Range(offered) \/ x[1] \in T.declined
  <2>1. Complete(T, Ordering) /\ ~Within(T) /\ \A i \in 1..Len(T.todo) : FALSE
      BY <1>1, <1>9 DEF Lined, Walking, Within
  <2> QED
      BY <1>5, <2>1 DEF Complete, Pending
<1> QED
    BY <1>6, <1>7, <1>8, <1>9 DEF T

(* Handlers are offered an event in the documented order, none of those    *)
(* that were there is passed over, whatever routers and handlers are added  *)
(* while the turn is under way, in any tree.                               *)
THEOREM HandlersAreOfferedInOrder == Spec => []OfferedInOrder
BY InitDispatchInv, NextDispatchInv, InitOrderInv, NextOrderInv, OrderInvSuffices, PTL DEF Spec

(* The order that OfferedInOrder speaks of is one: a router comes first or  *)
(* second of any two, never both, and never before itself.                 *)
OrderIsStrict ==
    LET attached == {r \in Routers : Root \in Path(r)}
    IN  /\ \A r \in Routers : ~Precedes(r, r)
        /\ \A r, s, b \in Routers : Precedes(r, s) /\ Precedes(s, b) => Precedes(r, b)
        /\ \A r, s \in attached : r # s => Precedes(r, s) \/ Precedes(s, r)

THEOREM DocumentedOrderIsStrict == Spec => []OrderIsStrict
<1>1. DispatchInv /\ OrderInv => OrderIsStrict
  <2> SUFFICES ASSUME TreeInv, Linked PROVE OrderIsStrict
      BY DEF DispatchInv, OrderInv
  <2>1. ASSUME NEW r \in Routers, NEW s \in Routers, Root \in Path(r), Root \in Path(s), r # s
        PROVE  Precedes(r, s) \/ Precedes(s, r)
      BY <2>1, PrecedesIsTotal
  <2> QED
      BY <2>1, NothingPrecedesItself, PrecedesIsTransitive DEF OrderIsStrict
<1> QED
    BY <1>1, InitDispatchInv, NextDispatchInv, InitOrderInv, NextOrderInv, PTL DEF Spec

(* Whatever is included where and when, no router is ever above itself, and *)
(* each hangs in its parent's list, once.                                  *)
THEOREM RoutersStayATree == Spec => []Linked
<1>1. OrderInv => Linked
    BY DEF OrderInv
<1> QED
    BY <1>1, InitDispatchInv, NextDispatchInv, InitOrderInv, NextOrderInv, PTL DEF Spec
=============================================================================
