--------------------------- MODULE KeyedLocks_proofs ---------------------------
(***************************************************************************)
(* Proofs about KeyedLocks: two updates of one card never overlap and are  *)
(* served in the order they asked, for any number of tasks and names and   *)
(* any reuse of lock identities.                                           *)
(***************************************************************************)
EXTENDS KeyedLocks, FiniteSetTheorems, TLAPS

Queueing == {"waiting", "woken", "cancelled", "lateCancelled"}

BusyWith(n) == {t \in Tasks : Busy(t) /\ name[t] = n}

(* Everybody busy with a name uses the registered object, no two names     *)
(* share one, and the count that keeps it registered counts these tasks.   *)
Registered == \A t \in Tasks : Busy(t) => lock[t] = locks[name[t]]
Distinct == \A n, m \in Names : locks[n] = locks[m] /\ locks[n] # NoLock => n = m
Counted == \A n \in Names : /\ IsFiniteSet(BusyWith(n))
                            /\ waiters[n] = Cardinality(BusyWith(n))

(* The queue of an object holds the tasks that await it, each once.        *)
Once(q) == \A i, j \in 1..Len(q) : q[i] = q[j] => i = j
Queued == /\ \A l \in LockIds : /\ Once(queue[l])
                                /\ \A i \in 1..Len(queue[l]) :
                                      /\ lock[queue[l][i]] = l
                                      /\ pc[queue[l][i]] \in Queueing
          /\ \A t \in Tasks : pc[t] \in Queueing =>
                \E i \in 1..Len(queue[lock[t]]) : queue[lock[t]][i] = t

(* A holder has closed its lock, alone; a task that was woken is the first *)
(* of the queue of a lock that is open.                                    *)
Held == \A t \in Tasks : pc[t] = "holding" => locked[lock[t]]
OneHolder == \A t, u \in Tasks :
                pc[t] = "holding" /\ pc[u] = "holding" /\ lock[t] = lock[u] => t = u
WokenFirst == \A t \in Tasks : pc[t] \in {"woken", "lateCancelled"} =>
                 /\ ~locked[lock[t]]
                 /\ queue[lock[t]] # <<>>
                 /\ queue[lock[t]][1] = t

IInv == /\ TypeOK
        /\ Registered
        /\ Distinct
        /\ Counted
        /\ Queued
        /\ Held
        /\ OneHolder
        /\ WokenFirst

-----------------------------------------------------------------------------
(* The queue without the one entry of a task (deque.remove).               *)
LEMMA Removed ==
    ASSUME NEW S, NEW q \in Seq(S), Once(q), NEW i \in 1..Len(q)
    PROVE  LET r == RemoveFirst(q, q[i]) IN
              /\ r \in Seq(S)
              /\ Len(r) = Len(q) - 1
              /\ \A j \in 1..Len(r) : r[j] = q[IF j < i THEN j ELSE j + 1]
<1> DEFINE I == {j \in 1..Len(q) : q[j] = q[i]}
<1>1. I = {i}
    BY DEF Once
<1>2. Min(I) = i
    BY <1>1 DEF Min
<1>3. RemoveFirst(q, q[i]) = SubSeq(q, 1, i - 1) \o SubSeq(q, i + 1, Len(q))
    BY <1>1, <1>2 DEF RemoveFirst, RemoveAt, SelectInSeq
<1> DEFINE front == SubSeq(q, 1, i - 1)
           back == SubSeq(q, i + 1, Len(q))
<1>4. front \in Seq(S) /\ Len(front) = i - 1 /\ \A j \in 1..(i - 1) : front[j] = q[j]
    OBVIOUS
<1>5. /\ back \in Seq(S) /\ Len(back) = Len(q) - i
      /\ \A j \in 1..(Len(q) - i) : back[j] = q[j + i]
    OBVIOUS
<1>6. /\ front \o back \in Seq(S)
      /\ Len(front \o back) = Len(q) - 1
      /\ \A j \in 1..(Len(q) - 1) : (front \o back)[j] = q[IF j < i THEN j ELSE j + 1]
  <2> HIDE DEF front, back
  <2>1. front \o back \in Seq(S) /\ Len(front \o back) = Len(q) - 1
      BY <1>4, <1>5
  <2>2. ASSUME NEW j \in 1..(Len(q) - 1), j < i
        PROVE  (front \o back)[j] = q[j]
      BY <1>4, <1>5, <2>2
  <2>3. ASSUME NEW j \in 1..(Len(q) - 1), ~(j < i)
        PROVE  (front \o back)[j] = q[j + 1]
    <3>1. j - (i - 1) \in 1..(Len(q) - i)
        BY <2>3
    <3>2. (front \o back)[j] = back[j - (i - 1)]
        BY <1>4, <1>5, <2>3
    <3> QED
        BY <3>1, <3>2, <1>5, <2>3
  <2> QED
      BY <2>1, <2>2, <2>3
<1> QED
    BY <1>3, <1>6

(* A task that awaits a lock is in its queue; the queue it leaves keeps the *)
(* others, and its first one unless that was the task itself.              *)
LEMMA Leaves ==
    ASSUME IInv, NEW t \in Tasks, pc[t] \in Queueing
    PROVE  LET q == queue[lock[t]]
               r == RemoveFirst(q, t) IN
              /\ r \in Seq(Tasks) /\ Once(r)
              /\ \A j \in 1..Len(r) : r[j] # t /\ \E k \in 1..Len(q) : r[j] = q[k]
              /\ \A k \in 1..Len(q) : q[k] # t => \E j \in 1..Len(r) : r[j] = q[k]
              /\ q[1] # t => r # <<>> /\ r[1] = q[1]
<1> DEFINE q == queue[lock[t]]
           r == RemoveFirst(q, t)
<1>1. q \in Seq(Tasks) /\ Once(q)
    BY DEF IInv, TypeOK, Queued
<1>2. PICK i \in 1..Len(q) : q[i] = t
    BY DEF IInv, Queued
<1>3. /\ r \in Seq(Tasks)
      /\ Len(r) = Len(q) - 1
      /\ \A j \in 1..Len(r) : r[j] = q[IF j < i THEN j ELSE j + 1]
    BY <1>1, <1>2, Removed
<1> HIDE DEF r, q
<1>4. \A j \in 1..Len(r) : /\ (IF j < i THEN j ELSE j + 1) \in 1..Len(q)
                           /\ (IF j < i THEN j ELSE j + 1) # i
    BY <1>1, <1>3
<1>5. Once(r)
    BY <1>1, <1>3, <1>4 DEF Once
<1>6. \A j \in 1..Len(r) : r[j] # t /\ \E k \in 1..Len(q) : r[j] = q[k]
    BY <1>1, <1>2, <1>3, <1>4 DEF Once
<1>7. ASSUME NEW k \in 1..Len(q), q[k] # t
      PROVE  \E j \in 1..Len(r) : r[j] = q[k]
  <2> DEFINE j == IF k < i THEN k ELSE k - 1
  <2>1. j \in 1..Len(r) /\ r[j] = q[k]
      BY <1>1, <1>2, <1>3, <1>7
  <2> QED
      BY <2>1
<1>8. q[1] # t => r # <<>> /\ r[1] = q[1]
    BY <1>1, <1>2, <1>3
<1> QED
    BY <1>3, <1>5, <1>6, <1>7, <1>8 DEF r, q

(* _wake_up_first changes the first task of the queue, if that waits.      *)
LEMMA Wakes ==
    ASSUME NEW states \in [Tasks -> States], NEW q \in Seq(Tasks)
    PROVE  LET woken == WakeFirst(states, q) IN
              /\ woken \in [Tasks -> States]
              /\ \A u \in Tasks :
                    \/ woken[u] = states[u]
                    \/ /\ q # <<>> /\ u = q[1]
                       /\ states[u] = "waiting" /\ woken[u] = "woken"
BY DEF WakeFirst, States

(* The count after one of the tasks busy with a name is done.              *)
LEMMA DroppedCount ==
    ASSUME NEW S, IsFiniteSet(S), NEW x \in S
    PROVE  /\ IsFiniteSet(S \ {x})
           /\ Cardinality(S \ {x}) = Dropped(Cardinality(S))
           /\ Dropped(Cardinality(S)) = 0 => S = {x}
<1>1. /\ IsFiniteSet(S \ {x}) /\ Cardinality(S) \in Nat /\ Cardinality(S \ {x}) \in Nat
      /\ Cardinality(S \ {x}) = Cardinality(S) - 1
    BY FS_RemoveElement, FS_CardinalityType
<1>2. Cardinality(S \ {x}) = 0 => S \ {x} = {}
    BY <1>1, FS_EmptySet
<1> QED
    BY <1>1, <1>2 DEF Dropped

-----------------------------------------------------------------------------
LEMMA InitIInv == Init => IInv
<1> SUFFICES ASSUME Init PROVE IInv
    OBVIOUS
<1>1. TypeOK
    BY DEF Init, TypeOK, States
<1>2. \A n \in Names : BusyWith(n) = {}
    BY DEF Init, BusyWith, Busy
<1>3. Counted
    BY <1>2, FS_EmptySet DEF Counted, Init
<1>4. \A l \in LockIds : queue[l] = <<>>
    BY DEF Init
<1>5. Queued
    BY <1>4 DEF Queued, Once, Init, Queueing
<1> QED
    BY <1>1, <1>3, <1>5
    DEF Init, IInv, Registered, Distinct, Held, OneHolder, WokenFirst, Busy

LEMMA AcquireKeepsIInv ==
    ASSUME IInv, NEW t \in Tasks, NEW n \in Names, Acquire(t, n)
    PROVE  IInv'
<1>t. TypeOK
    BY DEF IInv
<1>1. PICK l \in LockIds :
        /\ IF locks[n] = NoLock THEN Unreferenced(l) ELSE l = locks[n]
        /\ locks' = [locks EXCEPT ![n] = l]
        /\ lock' = [lock EXCEPT ![t] = l]
        /\ IF ~locked[l] /\ \A u \in ToSet(queue[l]) : pc[u] = "cancelled"
           THEN /\ locked' = [locked EXCEPT ![l] = TRUE]
                /\ pc' = [pc EXCEPT ![t] = "holding"]
                /\ UNCHANGED queue
           ELSE /\ queue' = [queue EXCEPT ![l] = Append(@, t)]
                /\ pc' = [pc EXCEPT ![t] = "waiting"]
                /\ UNCHANGED locked
    BY DEF Acquire
<1>2. /\ pc[t] = "out"
      /\ name' = [name EXCEPT ![t] = n]
      /\ waiters' = [waiters EXCEPT ![n] = @ + 1]
    BY DEF Acquire
<1>3. pc' = [pc EXCEPT ![t] = pc'[t]] /\ pc'[t] \in {"holding", "waiting"}
    BY <1>1, <1>t DEF TypeOK
<1>4. TypeOK'
  <2>1. locked' \in [LockIds -> BOOLEAN]
    <3>1. \/ locked' = locked
          \/ locked' = [locked EXCEPT ![l] = TRUE]
        BY <1>1
    <3> QED
        BY <3>1, <1>t DEF TypeOK
  <2>4. queue' \in [LockIds -> Seq(Tasks)]
    <3>1. \/ queue' = queue
          \/ queue' = [queue EXCEPT ![l] = Append(queue[l], t)]
        BY <1>1
    <3>2. Append(queue[l], t) \in Seq(Tasks)
        BY <1>t DEF TypeOK
    <3> QED
        BY <3>1, <3>2, <1>t DEF TypeOK
  <2>2. pc' \in [Tasks -> States]
      BY <1>3, <1>t DEF TypeOK, States
  <2>3. /\ locks' \in [Names -> LockIds \cup {NoLock}] /\ lock' \in [Tasks -> LockIds]
        /\ name' \in [Tasks -> Names] /\ waiters' \in [Names -> Nat]
      BY <1>1, <1>2, <1>t DEF TypeOK
  <2> QED
      BY <2>1, <2>2, <2>3, <2>4 DEF TypeOK
<1>5. Distinct'
    BY <1>1, <1>t, NoLockAssumption DEF IInv, Distinct, Unreferenced, TypeOK
<1>6. Registered'
    BY <1>1, <1>2, <1>3, <1>t, NoLockAssumption
    DEF IInv, Registered, Unreferenced, TypeOK, Busy
<1>7. Counted'
  <2>1. /\ t \notin BusyWith(n) /\ BusyWith(n)' = BusyWith(n) \cup {t}
        /\ \A m \in Names \ {n} : BusyWith(m)' = BusyWith(m)
      BY <1>2, <1>3, <1>t DEF BusyWith, Busy, TypeOK
  <2>2. /\ IsFiniteSet(BusyWith(n)')
        /\ Cardinality(BusyWith(n)') = Cardinality(BusyWith(n)) + 1
      BY <2>1, FS_AddElement DEF IInv, Counted
  <2> QED
      BY <2>1, <2>2, <1>2, <1>t DEF IInv, Counted, TypeOK
<1>8. \A u \in Tasks : u # t => /\ pc'[u] = pc[u]
                                /\ lock'[u] = lock[u]
    BY <1>1, <1>3, <1>t DEF TypeOK
<1>9. \A k \in LockIds : \A i \in 1..Len(queue[k]) : queue[k][i] \in Tasks \ {t}
  <2> TAKE k \in LockIds
  <2> TAKE i \in 1..Len(queue[k])
  <2>1. queue[k] \in Seq(Tasks) /\ queue[k][i] \in Tasks
      BY <1>t DEF TypeOK
  <2>2. pc[queue[k][i]] # "out"
      BY DEF IInv, Queued, Queueing
  <2> QED
      BY <2>1, <2>2, <1>2
<1>10. CASE ~locked[l] /\ \A u \in ToSet(queue[l]) : pc[u] = "cancelled"
  <2>1. pc'[t] = "holding" /\ lock'[t] = l /\ queue' = queue
        /\ locked' = [locked EXCEPT ![l] = TRUE]
      BY <1>1, <1>10, <1>t DEF TypeOK
  <2>2. \A u \in Tasks : pc[u] \in {"woken", "lateCancelled"} => lock[u] # l
    <3> SUFFICES ASSUME NEW u \in Tasks, pc[u] \in {"woken", "lateCancelled"}, lock[u] = l
                 PROVE  FALSE
        OBVIOUS
    <3>1. queue[l] # <<>> /\ queue[l][1] = u /\ queue[l] \in Seq(Tasks)
        BY <1>t DEF IInv, WokenFirst, TypeOK
    <3>2. u \in ToSet(queue[l])
        BY <3>1 DEF ToSet
    <3> QED
        BY <3>2, <1>10
  <2>3. Queued'
      BY <2>1, <1>8, <1>9 DEF IInv, Queued, Queueing
  <2>4. Held' /\ OneHolder'
    <3>1. \A u \in Tasks : pc[u] = "holding" => lock[u] # l
        BY <1>10 DEF IInv, Held
    <3>2. Held'
        BY <2>1, <1>8, <1>t DEF IInv, Held, TypeOK
    <3>3. OneHolder'
        BY <2>1, <3>1, <1>8 DEF IInv, OneHolder
    <3> QED
        BY <3>2, <3>3
  <2>5. WokenFirst'
    <3>1. ASSUME NEW u \in Tasks, pc'[u] \in {"woken", "lateCancelled"}
          PROVE  ~locked'[lock'[u]] /\ queue'[lock'[u]] # <<>> /\ queue'[lock'[u]][1] = u
      <4>1. /\ u # t /\ lock'[u] = lock[u] /\ lock[u] \in LockIds \ {l}
            /\ ~locked[lock[u]] /\ queue[lock[u]] # <<>> /\ queue[lock[u]][1] = u
          BY <3>1, <2>1, <2>2, <1>8, <1>t DEF IInv, WokenFirst, TypeOK
      <4> QED
          BY <4>1, <2>1, <1>t DEF TypeOK
    <3> QED
        BY <3>1 DEF WokenFirst
  <2> QED
      BY <2>3, <2>4, <2>5, <1>4, <1>5, <1>6, <1>7 DEF IInv
<1>11. CASE ~(~locked[l] /\ \A u \in ToSet(queue[l]) : pc[u] = "cancelled")
  <2>1. /\ pc'[t] = "waiting" /\ lock'[t] = l /\ locked' = locked
        /\ queue' = [queue EXCEPT ![l] = Append(@, t)]
      BY <1>1, <1>11, <1>t DEF TypeOK
  <2>2. /\ queue[l] \in Seq(Tasks)
        /\ Len(queue'[l]) = Len(queue[l]) + 1
        /\ queue'[l][Len(queue[l]) + 1] = t
        /\ \A i \in 1..Len(queue[l]) : queue'[l][i] = queue[l][i]
        /\ \A k \in LockIds : k # l => queue'[k] = queue[k]
      BY <2>1, <1>t DEF TypeOK
  <2>3. \A k \in LockIds : Once(queue'[k])
    <3>1. \A k \in LockIds : Once(queue[k])
        BY DEF IInv, Queued
    <3>2. ASSUME NEW i \in 1..Len(queue'[l]), NEW j \in 1..Len(queue'[l]),
                 queue'[l][i] = queue'[l][j]
          PROVE  i = j
      <4>0. Len(queue[l]) \in Nat
          BY <2>2
      <4>1. CASE i \in 1..Len(queue[l]) /\ j \in 1..Len(queue[l])
        <5>1. queue[l][i] = queue[l][j]
            BY <4>1, <3>2, <2>2
        <5> QED
            BY <5>1, <4>1, <3>1, <1>t DEF Once
      <4>2. CASE i = Len(queue[l]) + 1 /\ j # i
        <5>1. j \in 1..Len(queue[l])
            BY <4>0, <4>2, <3>2, <2>2
        <5>2. queue[l][j] # t
            BY <5>1, <1>9, <1>t
        <5> QED
            BY <5>1, <5>2, <4>2, <3>2, <2>2
      <4>3. CASE j = Len(queue[l]) + 1 /\ j # i
        <5>1. i \in 1..Len(queue[l])
            BY <4>0, <4>3, <3>2, <2>2
        <5>2. queue[l][i] # t
            BY <5>1, <1>9, <1>t
        <5> QED
            BY <5>1, <5>2, <4>3, <3>2, <2>2
      <4> QED
          BY <4>0, <4>1, <4>2, <4>3, <3>2, <2>2
    <3>3. Once(queue'[l])
        BY <3>2 DEF Once
    <3> QED
        BY <3>1, <3>3, <2>2
  <2>4. \A k \in LockIds : \A i \in 1..Len(queue'[k]) :
           lock'[queue'[k][i]] = k /\ pc'[queue'[k][i]] \in Queueing
    <3>1. \A k \in LockIds : \A i \in 1..Len(queue[k]) :
             lock'[queue[k][i]] = k /\ pc'[queue[k][i]] \in Queueing
      <4> TAKE k \in LockIds
      <4> TAKE i \in 1..Len(queue[k])
      <4>1. queue[k][i] \in Tasks \ {t}
          BY <1>9
      <4>2. lock[queue[k][i]] = k /\ pc[queue[k][i]] \in Queueing
          BY DEF IInv, Queued
      <4> QED
          BY <4>1, <4>2, <1>8
    <3>2. ASSUME NEW i \in 1..Len(queue'[l])
          PROVE  lock'[queue'[l][i]] = l /\ pc'[queue'[l][i]] \in Queueing
      <4>1. CASE i \in 1..Len(queue[l])
          BY <4>1, <3>1, <2>2, <1>t
      <4>2. CASE i = Len(queue[l]) + 1
          BY <4>2, <2>1, <2>2 DEF Queueing
      <4> QED
          BY <4>1, <4>2, <2>2
    <3> QED
        BY <3>1, <3>2, <2>2
  <2>5. \A u \in Tasks : pc'[u] \in Queueing =>
           \E i \in 1..Len(queue'[lock'[u]]) : queue'[lock'[u]][i] = u
    <3>1. \E i \in 1..Len(queue'[lock'[t]]) : queue'[lock'[t]][i] = t
        BY <2>1, <2>2
    <3>2. ASSUME NEW u \in Tasks, u # t, pc'[u] \in Queueing
          PROVE  \E i \in 1..Len(queue'[lock'[u]]) : queue'[lock'[u]][i] = u
      <4>1. PICK i \in 1..Len(queue[lock[u]]) : queue[lock[u]][i] = u
          BY <3>2, <1>8 DEF IInv, Queued
      <4>2. /\ lock[u] \in LockIds /\ lock'[u] = lock[u]
            /\ i \in 1..Len(queue'[lock[u]]) /\ queue'[lock[u]][i] = u
        <5>1. lock[u] \in LockIds /\ lock'[u] = lock[u]
            BY <3>2, <1>8, <1>t DEF TypeOK
        <5>2. CASE lock[u] = l
            BY <4>1, <5>1, <5>2, <2>2
        <5>3. CASE lock[u] # l
            BY <4>1, <5>1, <5>3, <2>2
        <5> QED
            BY <5>1, <5>2, <5>3
      <4> QED
          BY <4>2
    <3> QED
        BY <3>1, <3>2
  <2>6. Queued'
      BY <2>3, <2>4, <2>5 DEF Queued
  <2>7. Held' /\ OneHolder'
      BY <2>1, <1>8 DEF IInv, Held, OneHolder
  <2>8. WokenFirst'
    <3>1. ASSUME NEW u \in Tasks, pc'[u] \in {"woken", "lateCancelled"}
          PROVE  ~locked'[lock'[u]] /\ queue'[lock'[u]] # <<>> /\ queue'[lock'[u]][1] = u
      <4>1. /\ u # t /\ lock'[u] = lock[u] /\ lock[u] \in LockIds
            /\ ~locked[lock[u]] /\ queue[lock[u]] # <<>> /\ queue[lock[u]][1] = u
          BY <3>1, <2>1, <1>8, <1>t DEF IInv, WokenFirst, TypeOK
      <4>2. queue[lock[u]] \in Seq(Tasks) /\ 1 \in 1..Len(queue[lock[u]])
          BY <4>1, <1>t DEF TypeOK
      <4>3. CASE lock[u] = l
          BY <4>1, <4>2, <4>3, <2>1, <2>2
      <4>4. CASE lock[u] # l
          BY <4>1, <4>4, <2>1, <2>2
      <4> QED
          BY <4>3, <4>4
    <3> QED
        BY <3>1 DEF WokenFirst
  <2> QED
      BY <2>6, <2>7, <2>8, <1>4, <1>5, <1>6, <1>7 DEF IInv
<1> QED
    BY <1>10, <1>11

LEMMA LeavingKeepsQueued ==
    ASSUME IInv, NEW t \in Tasks, pc[t] \in Queueing,
           queue' = [queue EXCEPT ![lock[t]] = RemoveFirst(@, t)], lock' = lock,
           pc'[t] \notin Queueing,
           \A u \in Tasks : u # t => (pc'[u] \in Queueing <=> pc[u] \in Queueing)
    PROVE  Queued'
<1> DEFINE l == lock[t]
           rest == RemoveFirst(queue[l], t)
<1>t. TypeOK
    BY DEF IInv
<1>1. /\ rest \in Seq(Tasks) /\ Once(rest)
      /\ \A j \in 1..Len(rest) : rest[j] # t /\ \E k \in 1..Len(queue[l]) : rest[j] = queue[l][k]
      /\ \A k \in 1..Len(queue[l]) : queue[l][k] # t => \E j \in 1..Len(rest) : rest[j] = queue[l][k]
    BY Leaves
<1>2. /\ l \in LockIds /\ queue'[l] = rest
      /\ \A k \in LockIds : k # l => queue'[k] = queue[k]
    BY <1>t DEF TypeOK
<1> HIDE DEF rest
<1>3. ASSUME NEW k \in LockIds
      PROVE  /\ Once(queue'[k])
             /\ \A i \in 1..Len(queue'[k]) :
                   lock[queue'[k][i]] = k /\ pc'[queue'[k][i]] \in Queueing
  <2>1. CASE k = l
    <3>1. ASSUME NEW i \in 1..Len(rest)
          PROVE  lock[rest[i]] = l /\ pc'[rest[i]] \in Queueing
      <4>1. rest[i] # t /\ rest[i] \in Tasks /\ \E j \in 1..Len(queue[l]) : rest[i] = queue[l][j]
          BY <1>1
      <4>2. lock[rest[i]] = l /\ pc[rest[i]] \in Queueing
          BY <4>1, <1>2 DEF IInv, Queued
      <4> QED
          BY <4>1, <4>2
    <3> QED
        BY <3>1, <2>1, <1>1, <1>2
  <2>2. CASE k # l
    <3>1. ASSUME NEW i \in 1..Len(queue[k])
          PROVE  lock[queue[k][i]] = k /\ pc'[queue[k][i]] \in Queueing
      <4>1. queue[k][i] \in Tasks
          BY <1>t DEF TypeOK
      <4>2. lock[queue[k][i]] = k /\ pc[queue[k][i]] \in Queueing
          BY DEF IInv, Queued
      <4> QED
          BY <4>1, <4>2, <2>2
    <3> QED
        BY <3>1, <2>2, <1>2 DEF IInv, Queued
  <2> QED
      BY <2>1, <2>2
<1>4. ASSUME NEW u \in Tasks, pc'[u] \in Queueing
      PROVE  \E i \in 1..Len(queue'[lock[u]]) : queue'[lock[u]][i] = u
  <2>1. u # t /\ lock[u] \in LockIds /\ \E i \in 1..Len(queue[lock[u]]) : queue[lock[u]][i] = u
      BY <1>4, <1>t DEF IInv, Queued, TypeOK
  <2>2. CASE lock[u] = l
    <3>1. PICK k \in 1..Len(queue[l]) : queue[l][k] = u
        BY <2>1, <2>2
    <3>2. \E j \in 1..Len(rest) : rest[j] = u
        BY <3>1, <2>1, <1>1
    <3> QED
        BY <3>2, <2>2, <1>2
  <2>3. CASE lock[u] # l
      BY <2>1, <2>3, <1>2
  <2> QED
      BY <2>2, <2>3
<1> QED
    BY <1>3, <1>4 DEF Queued

LEMMA ResumeKeepsIInv ==
    ASSUME IInv, NEW t \in Tasks, Resume(t)
    PROVE  IInv'
<1> DEFINE l == lock[t]
           rest == RemoveFirst(queue[l], t)
<1>t. TypeOK
    BY DEF IInv
<1>1. /\ pc[t] = "woken" /\ l \in LockIds
      /\ queue' = [queue EXCEPT ![l] = rest]
      /\ locked' = [locked EXCEPT ![l] = TRUE]
      /\ pc' = [pc EXCEPT ![t] = "holding"]
      /\ locks' = locks /\ waiters' = waiters /\ name' = name /\ lock' = lock
    BY <1>t DEF Resume, taskOf, TypeOK
<1>2. rest \in Seq(Tasks)
    BY <1>1, Leaves DEF Queueing
<1> HIDE DEF l, rest
<1>3. pc'[t] = "holding" /\ \A u \in Tasks : u # t => pc'[u] = pc[u]
    BY <1>1, <1>t DEF TypeOK
<1>4. queue'[l] = rest /\ \A k \in LockIds : k # l => queue'[k] = queue[k]
    BY <1>1, <1>t DEF TypeOK
<1>5. TypeOK'
    BY <1>1, <1>2, <1>t DEF TypeOK, States
<1>6. Registered' /\ Distinct'
    BY <1>1, <1>3 DEF IInv, Registered, Distinct, Busy
<1>7. Counted'
  <2>1. \A n \in Names : BusyWith(n)' = BusyWith(n)
      BY <1>1, <1>3 DEF BusyWith, Busy
  <2> QED
      BY <2>1, <1>1 DEF IInv, Counted
<1>8. Queued'
    BY <1>1, <1>3, LeavingKeepsQueued DEF Queueing, l, rest
<1>9. \A u \in Tasks : lock[u] = l /\ u # t => pc[u] \notin {"holding", "woken", "lateCancelled"}
    BY <1>1 DEF IInv, Held, WokenFirst, l
<1>10. Held' /\ OneHolder'
  <2>1. Held'
      BY <1>1, <1>3, <1>t DEF IInv, Held, TypeOK, l
  <2>2. OneHolder'
      BY <1>1, <1>3, <1>9 DEF IInv, OneHolder, l
  <2> QED
      BY <2>1, <2>2
<1>11. WokenFirst'
    BY <1>1, <1>3, <1>4, <1>9, <1>t DEF IInv, WokenFirst, TypeOK
<1> QED
    BY <1>5, <1>6, <1>7, <1>8, <1>10, <1>11 DEF IInv

LEMMA CancelKeepsIInv ==
    ASSUME IInv, NEW t \in Tasks, Cancel(t)
    PROVE  IInv'
<1>t. TypeOK
    BY DEF IInv
<1>1. /\ locks' = locks /\ waiters' = waiters /\ locked' = locked
      /\ queue' = queue /\ name' = name /\ lock' = lock
      /\ \/ pc[t] = "waiting" /\ pc' = [pc EXCEPT ![t] = "cancelled"]
         \/ pc[t] = "woken" /\ pc' = [pc EXCEPT ![t] = "lateCancelled"]
    BY DEF Cancel, taskOf
<1>2. /\ \/ pc[t] = "waiting" /\ pc'[t] = "cancelled"
         \/ pc[t] = "woken" /\ pc'[t] = "lateCancelled"
      /\ \A u \in Tasks : u # t => pc'[u] = pc[u]
    BY <1>1, <1>t DEF TypeOK
<1>3. TypeOK'
    BY <1>1, <1>t DEF TypeOK, States
<1>4. Registered' /\ Distinct'
    BY <1>1, <1>2 DEF IInv, Registered, Distinct, Busy
<1>5. Counted'
  <2>1. \A n \in Names : BusyWith(n)' = BusyWith(n)
      BY <1>1, <1>2 DEF BusyWith, Busy
  <2> QED
      BY <2>1, <1>1 DEF IInv, Counted
<1>6. Queued'
  <2>1. ASSUME NEW l \in LockIds, NEW i \in 1..Len(queue[l])
        PROVE  pc'[queue[l][i]] \in Queueing
    <3>1. queue[l][i] \in Tasks /\ pc[queue[l][i]] \in Queueing
        BY <1>t DEF IInv, Queued, TypeOK
    <3> QED
        BY <3>1, <1>2 DEF Queueing
  <2> QED
      BY <2>1, <1>1, <1>2 DEF IInv, Queued, Queueing
<1>7. Held' /\ OneHolder' /\ WokenFirst'
    BY <1>1, <1>2 DEF IInv, Held, OneHolder, WokenFirst
<1> QED
    BY <1>3, <1>4, <1>5, <1>6, <1>7 DEF IInv

LEMMA ResumeCancelledKeepsIInv ==
    ASSUME IInv, NEW t \in Tasks, ResumeCancelled(t)
    PROVE  IInv'
<1> DEFINE l == lock[t]
           rest == RemoveFirst(queue[l], t)
           gone == [pc EXCEPT ![t] = "out"]
<1>t. TypeOK
    BY DEF IInv
<1>0. PICK n \in Names : n = name[t]
    BY <1>t DEF TypeOK
<1>1. /\ pc[t] \in {"cancelled", "lateCancelled"} /\ l \in LockIds /\ n \in Names
      /\ queue' = [queue EXCEPT ![l] = rest]
      /\ pc' = IF locked[l] THEN gone ELSE WakeFirst(gone, rest)
      /\ waiters' = [waiters EXCEPT ![n] = Dropped(@)]
      /\ locks' = locks /\ locked' = locked /\ name' = name /\ lock' = lock
    BY <1>0, <1>t DEF ResumeCancelled, taskOf, TypeOK
<1>2. /\ rest \in Seq(Tasks)
      /\ \A j \in 1..Len(rest) : rest[j] # t /\ \E k \in 1..Len(queue[l]) : rest[j] = queue[l][k]
      /\ queue[l][1] # t => rest # <<>> /\ rest[1] = queue[l][1]
    BY <1>1, Leaves DEF Queueing
<1>3. queue'[l] = rest /\ \A k \in LockIds : k # l => queue'[k] = queue[k]
    BY <1>1, <1>t DEF TypeOK
<1> HIDE DEF l, rest
<1>4. /\ gone \in [Tasks -> States] /\ gone[t] = "out"
      /\ \A u \in Tasks : u # t => gone[u] = pc[u]
    BY <1>t DEF TypeOK, States
<1>5. /\ pc' \in [Tasks -> States] /\ pc'[t] = "out"
      /\ \A u \in Tasks : u # t =>
            \/ pc'[u] = pc[u]
            \/ /\ ~locked[l] /\ rest # <<>> /\ u = rest[1]
               /\ pc[u] = "waiting" /\ pc'[u] = "woken"
  <2> HIDE DEF gone
  <2>1. LET woken == WakeFirst(gone, rest) IN
           /\ woken \in [Tasks -> States]
           /\ \A u \in Tasks : \/ woken[u] = gone[u]
                               \/ /\ rest # <<>> /\ u = rest[1]
                                  /\ gone[u] = "waiting" /\ woken[u] = "woken"
      BY <1>2, <1>4, Wakes
  <2>2. CASE locked[l]
      BY <2>2, <1>1, <1>4
  <2>3. CASE ~locked[l]
      BY <2>3, <2>1, <1>1, <1>4
  <2> QED
      BY <2>2, <2>3
<1> HIDE DEF gone
<1>6. TypeOK'
    BY <1>1, <1>2, <1>5, <1>t DEF TypeOK, Dropped
<1>7. Registered' /\ Distinct'
    BY <1>1, <1>5 DEF IInv, Registered, Distinct, Busy
<1>8. Counted'
  <2>1. /\ t \in BusyWith(n) /\ BusyWith(n)' = BusyWith(n) \ {t}
        /\ \A m \in Names \ {n} : BusyWith(m)' = BusyWith(m)
      BY <1>0, <1>1, <1>5 DEF BusyWith, Busy
  <2>2. /\ IsFiniteSet(BusyWith(n)')
        /\ Cardinality(BusyWith(n)') = Dropped(Cardinality(BusyWith(n)))
      BY <2>1, <1>1, DroppedCount DEF IInv, Counted
  <2>3. waiters'[n] = Dropped(waiters[n]) /\ \A m \in Names \ {n} : waiters'[m] = waiters[m]
      BY <1>1, <1>t DEF TypeOK
  <2>4. \A m \in Names : /\ IsFiniteSet(BusyWith(m)')
                         /\ waiters'[m] = Cardinality(BusyWith(m)')
    <3> TAKE m \in Names
    <3>1. IsFiniteSet(BusyWith(m)) /\ waiters[m] = Cardinality(BusyWith(m))
        BY DEF IInv, Counted
    <3>2. CASE m = n
        BY <3>1, <3>2, <2>1, <2>2, <2>3
    <3>3. CASE m # n
        BY <3>1, <3>3, <2>1, <2>2, <2>3
    <3> QED
        BY <3>2, <3>3
  <2> QED
      BY <2>4 DEF Counted
<1>9. Queued'
    BY <1>1, <1>5, LeavingKeepsQueued DEF Queueing, l, rest
<1>10. Held' /\ OneHolder'
    BY <1>1, <1>5 DEF IInv, Held, OneHolder
<1>11. WokenFirst'
  <2>1. ASSUME NEW u \in Tasks, pc'[u] \in {"woken", "lateCancelled"}
        PROVE  ~locked[lock[u]] /\ queue'[lock[u]] # <<>> /\ queue'[lock[u]][1] = u
    <3>1. u # t
        BY <2>1, <1>5
    <3>2. CASE pc'[u] = pc[u]
      <4>1. /\ lock[u] \in LockIds /\ ~locked[lock[u]]
            /\ queue[lock[u]] # <<>> /\ queue[lock[u]][1] = u
          BY <2>1, <3>2, <1>t DEF IInv, WokenFirst, TypeOK
      <4> QED
          BY <4>1, <3>1, <1>2, <1>3
    <3>3. CASE ~locked[l] /\ rest # <<>> /\ u = rest[1]
      <4>1. 1 \in 1..Len(rest)
          BY <3>3, <1>2
      <4>2. lock[u] = l
          BY <4>1, <3>3, <1>1, <1>2 DEF IInv, Queued
      <4> QED
          BY <4>2, <3>3, <1>3
    <3> QED
        BY <3>1, <3>2, <3>3, <1>5
  <2> QED
      BY <2>1, <1>1 DEF WokenFirst
<1> QED
    BY <1>6, <1>7, <1>8, <1>9, <1>10, <1>11 DEF IInv

LEMMA ReleaseKeepsIInv ==
    ASSUME IInv, NEW t \in Tasks, Release(t)
    PROVE  IInv'
<1>0. PICK n \in Names : n = name[t]
    BY DEF IInv, TypeOK
<1> DEFINE l == lock[t]
           count == Dropped(waiters[n])
           gone == [pc EXCEPT ![t] = "out"]
<1>t. TypeOK
    BY DEF IInv
<1>1. /\ pc[t] = "holding" /\ l \in LockIds /\ n \in Names /\ locks[n] = l
      /\ waiters' = [waiters EXCEPT ![n] = count]
      /\ locked' = [locked EXCEPT ![l] = FALSE]
      /\ pc' = WakeFirst(gone, queue[l])
      /\ locks' = [locks EXCEPT ![n] = IF count = 0 THEN NoLock ELSE @]
      /\ queue' = queue /\ name' = name /\ lock' = lock
  <2>1. pc[t] = "holding" /\ n = name[t]
      BY <1>0 DEF Release, taskOf
  <2>2. l \in LockIds /\ n \in Names /\ locks[n] = l
      BY <2>1, <1>t DEF TypeOK, IInv, Registered, Busy
  <2> QED
      BY <2>1, <2>2 DEF Release, taskOf
<1>2. /\ t \in BusyWith(n)
      /\ IsFiniteSet(BusyWith(n) \ {t}) /\ Cardinality(BusyWith(n) \ {t}) = count
      /\ count = 0 => BusyWith(n) = {t}
  <2>1. t \in BusyWith(n)
      BY <1>0, <1>1 DEF BusyWith, Busy
  <2>2. IsFiniteSet(BusyWith(n)) /\ waiters[n] = Cardinality(BusyWith(n))
      BY <1>1 DEF IInv, Counted
  <2> QED
      BY <2>1, <2>2, DroppedCount
<1> HIDE DEF l, count
<1>3. queue[l] \in Seq(Tasks)
    BY <1>1, <1>t DEF TypeOK
<1>4. /\ gone \in [Tasks -> States] /\ gone[t] = "out"
      /\ \A u \in Tasks : u # t => gone[u] = pc[u]
    BY <1>t DEF TypeOK, States
<1>5. /\ pc' \in [Tasks -> States] /\ pc'[t] = "out"
      /\ \A u \in Tasks : u # t =>
            \/ pc'[u] = pc[u]
            \/ /\ queue[l] # <<>> /\ u = queue[l][1]
               /\ pc[u] = "waiting" /\ pc'[u] = "woken"
  <2> HIDE DEF gone
  <2>1. LET woken == WakeFirst(gone, queue[l]) IN
           /\ woken \in [Tasks -> States]
           /\ \A u \in Tasks : \/ woken[u] = gone[u]
                               \/ /\ queue[l] # <<>> /\ u = queue[l][1]
                                  /\ gone[u] = "waiting" /\ woken[u] = "woken"
      BY <1>3, <1>4, Wakes
  <2> QED
      BY <2>1, <1>1, <1>4
<1> HIDE DEF gone
<1>6. TypeOK'
  <2>1. count \in Nat
      BY <1>1, <1>t DEF TypeOK, Dropped, count
  <2> QED
      BY <2>1, <1>1, <1>5, <1>t DEF TypeOK
<1>7. \A u \in Tasks : u # t /\ pc'[u] # "out" => pc[u] # "out" /\ (count = 0 => name[u] # n)
    BY <1>2, <1>5 DEF BusyWith, Busy
<1>8. Registered'
  <2>1. ASSUME NEW u \in Tasks, pc'[u] # "out"
        PROVE  lock[u] = locks'[name[u]]
    <3>1. u # t /\ lock[u] = locks[name[u]] /\ name[u] \in Names
        BY <2>1, <1>5, <1>7, <1>t DEF IInv, Registered, Busy, TypeOK
    <3> QED
        BY <3>1, <2>1, <1>1, <1>7, <1>t DEF TypeOK
  <2> QED
      BY <2>1, <1>1 DEF Registered, Busy
<1>9. Distinct'
    BY <1>1, <1>t DEF IInv, Distinct, TypeOK
<1>10. Counted'
  <2>1. /\ BusyWith(n)' = BusyWith(n) \ {t}
        /\ \A m \in Names \ {n} : BusyWith(m)' = BusyWith(m)
    <3>1. \A u \in Tasks : pc'[u] # "out" <=> (u # t /\ pc[u] # "out")
        BY <1>5
    <3> QED
        BY <3>1, <1>0, <1>1 DEF BusyWith, Busy
  <2>2. waiters'[n] = count /\ \A m \in Names \ {n} : waiters'[m] = waiters[m]
      BY <1>1, <1>t DEF TypeOK
  <2>4. \A m \in Names : /\ IsFiniteSet(BusyWith(m)')
                         /\ waiters'[m] = Cardinality(BusyWith(m)')
    <3> TAKE m \in Names
    <3>1. IsFiniteSet(BusyWith(m)) /\ waiters[m] = Cardinality(BusyWith(m))
        BY DEF IInv, Counted
    <3>2. CASE m = n
        BY <3>1, <3>2, <2>1, <2>2, <1>2
    <3>3. CASE m # n
        BY <3>1, <3>3, <2>1, <2>2
    <3> QED
        BY <3>2, <3>3
  <2> QED
      BY <2>4 DEF Counted
<1>11. Queued'
  <2>1. \A u \in Tasks : pc'[u] \in Queueing <=> pc[u] \in Queueing
      BY <1>1, <1>5 DEF Queueing
  <2>2. ASSUME NEW k \in LockIds, NEW i \in 1..Len(queue[k])
        PROVE  lock[queue[k][i]] = k /\ pc'[queue[k][i]] \in Queueing
    <3>1. queue[k][i] \in Tasks
        BY <1>t DEF TypeOK
    <3> QED
        BY <3>1, <2>1 DEF IInv, Queued
  <2> QED
    <3>1. \A k \in LockIds : Once(queue'[k])
        BY <1>1 DEF IInv, Queued
    <3>2. \A k \in LockIds : \A i \in 1..Len(queue'[k]) :
             lock'[queue'[k][i]] = k /\ pc'[queue'[k][i]] \in Queueing
        BY <2>2, <1>1
    <3>3. \A u \in Tasks : pc'[u] \in Queueing =>
             \E i \in 1..Len(queue'[lock'[u]]) : queue'[lock'[u]][i] = u
        BY <2>1, <1>1 DEF IInv, Queued
    <3> QED
        BY <3>1, <3>2, <3>3 DEF Queued
<1>12. \A u \in Tasks : lock[u] = l /\ u # t => pc[u] \notin {"holding", "woken", "lateCancelled"}
    BY <1>1 DEF IInv, Held, OneHolder, WokenFirst, l
<1>13. Held' /\ OneHolder'
  <2>1. Held'
    <3>1. ASSUME NEW u \in Tasks, pc'[u] = "holding"
          PROVE  locked'[lock'[u]]
      <4>1. u # t /\ pc[u] = "holding"
          BY <3>1, <1>5
      <4>2. locked[lock[u]] /\ lock[u] # l /\ lock[u] \in LockIds /\ lock'[u] = lock[u]
          BY <4>1, <1>1, <1>12, <1>t DEF IInv, Held, TypeOK
      <4>3. locked'[lock[u]] = locked[lock[u]]
          BY <4>2, <1>1, <1>t DEF TypeOK
      <4> QED
          BY <4>2, <4>3
    <3> QED
        BY <3>1 DEF Held
  <2>2. OneHolder'
      BY <1>1, <1>5 DEF IInv, OneHolder
  <2> QED
      BY <2>1, <2>2
<1>14. WokenFirst'
  <2>1. ASSUME NEW u \in Tasks, pc'[u] \in {"woken", "lateCancelled"}
        PROVE  ~locked'[lock[u]] /\ queue[lock[u]] # <<>> /\ queue[lock[u]][1] = u
    <3>1. u # t /\ lock[u] \in LockIds
        BY <2>1, <1>5, <1>t DEF TypeOK
    <3>2. CASE pc'[u] = pc[u]
        BY <2>1, <3>1, <3>2, <1>1, <1>t DEF IInv, WokenFirst, TypeOK
    <3>3. CASE queue[l] # <<>> /\ u = queue[l][1]
      <4>1. 1 \in 1..Len(queue[l])
          BY <3>3, <1>3
      <4>2. lock[u] = l
          BY <4>1, <3>3, <1>1 DEF IInv, Queued
      <4> QED
          BY <4>2, <3>3, <1>1, <1>t DEF TypeOK
    <3> QED
        BY <3>1, <3>2, <3>3, <1>5
  <2> QED
      BY <2>1, <1>1 DEF WokenFirst
<1> QED
    BY <1>6, <1>8, <1>9, <1>10, <1>11, <1>13, <1>14 DEF IInv

LEMMA NextIInv == IInv /\ [Next]_vars => IInv'
<1> SUFFICES ASSUME IInv, [Next]_vars PROVE IInv'
    OBVIOUS
<1>1. CASE UNCHANGED vars
  <2>2. \A n \in Names : BusyWith(n)' = BusyWith(n)
      BY <1>1 DEF BusyWith, Busy, vars
  <2> QED
      BY <1>1, <2>2 DEF IInv, TypeOK, Registered, Distinct, Counted, Queued, Held,
         OneHolder, WokenFirst, Busy, vars
<1>2. ASSUME NEW t \in Tasks, NEW n \in Names, Acquire(t, n) PROVE IInv'
    BY <1>2, AcquireKeepsIInv
<1>3. ASSUME NEW t \in Tasks, Cancel(t) PROVE IInv'
    BY <1>3, CancelKeepsIInv
<1>4. ASSUME NEW t \in Tasks, Runs(t) PROVE IInv'
    BY <1>4, ResumeKeepsIInv, ResumeCancelledKeepsIInv, ReleaseKeepsIInv DEF Runs
<1> QED
    BY <1>1, <1>2, <1>3, <1>4 DEF Next

-----------------------------------------------------------------------------
(* The tasks busy with a name and the registry agree, whatever is acquired, *)
(* released and cancelled.                                                 *)
THEOREM RegistryIsKept == Spec => []RegistryMatchesTasks
<1>1. IInv => RegistryMatchesTasks
  <2> SUFFICES ASSUME IInv PROVE RegistryMatchesTasks
      OBVIOUS
  <2> QED
      BY DEF IInv, Registered, Counted, BusyWith, RegistryMatchesTasks
<1> QED
    BY <1>1, InitIInv, NextIInv, PTL DEF Spec

(* Two updates of one card never overlap: the tasks busy with a name share  *)
(* one lock object, and an object has one holder at most.                  *)
THEOREM UpdatesExcludeEachOther == Spec => []MutualExclusion
<1>1. IInv => MutualExclusion
    BY DEF IInv, Registered, OneHolder, MutualExclusion, Busy
<1> QED
    BY <1>1, InitIInv, NextIInv, PTL DEF Spec

(* A task gets the lock of a name only ahead of everybody who waits for it: *)
(* it is the first of the queue, or finds nobody there who was not          *)
(* cancelled.                                                              *)
THEOREM UpdatesAreServedInOrder == Spec => FirstComeFirstServed
<1> DEFINE Served == \A t \in Tasks :
              pc[t] # "holding" /\ pc'[t] = "holding" =>
                  \A u \in Tasks \ {t} :
                      pc[u] \in {"waiting", "woken"} /\ name[u] = name'[t] =>
                          \E i, j \in DOMAIN queue[lock[u]] :
                              /\ i < j
                              /\ queue[lock[u]][i] = t
                              /\ queue[lock[u]][j] = u
<1>1. IInv /\ [Next]_vars => [Served]_vars
  <2> SUFFICES ASSUME IInv, Next PROVE Served
      BY DEF vars
  <2> SUFFICES ASSUME NEW t \in Tasks, pc[t] # "holding", pc'[t] = "holding",
                      NEW u \in Tasks \ {t}, pc[u] \in {"waiting", "woken"}, name[u] = name'[t]
               PROVE  \E i, j \in DOMAIN queue[lock[u]] :
                         i < j /\ queue[lock[u]][i] = t /\ queue[lock[u]][j] = u
      OBVIOUS
  <2>t. TypeOK
      BY DEF IInv
  <2>1. PICK v \in Tasks : (\E n \in Names : Acquire(v, n)) \/ Cancel(v) \/ Runs(v)
      BY DEF Next
  <2>2. /\ queue[lock[u]] \in Seq(Tasks)
        /\ \E j \in 1..Len(queue[lock[u]]) : queue[lock[u]][j] = u
        /\ lock[u] = locks[name[u]]
      BY <2>t DEF IInv, TypeOK, Queued, Queueing, Registered, Busy
  <2>3. CASE Resume(v)
    <3>1. v = t /\ pc[t] = "woken" /\ name' = name
        BY <2>3, <2>t DEF Resume, taskOf, TypeOK
    <3>2. lock[t] = lock[u] /\ queue[lock[t]] # <<>> /\ queue[lock[t]][1] = t
        BY <3>1, <2>2 DEF IInv, Registered, WokenFirst, Busy
    <3>3. PICK j \in 1..Len(queue[lock[u]]) : queue[lock[u]][j] = u
        BY <2>2
    <3>4. 1 \in DOMAIN queue[lock[u]] /\ j \in DOMAIN queue[lock[u]] /\ 1 < j
        BY <3>2, <3>3, <2>2
    <3> QED
        BY <3>2, <3>3, <3>4
  <2>4. ASSUME NEW n \in Names, Acquire(v, n) PROVE FALSE
    <3>1. /\ v = t /\ name'[t] = n
          /\ \E l \in LockIds : /\ IF locks[n] = NoLock THEN Unreferenced(l) ELSE l = locks[n]
                                /\ \A w \in ToSet(queue[l]) : pc[w] = "cancelled"
        BY <2>4, <2>t DEF Acquire, TypeOK
    <3>2. lock[u] = locks[n] /\ lock[u] # NoLock
        BY <3>1, <2>2, <2>t, NoLockAssumption DEF TypeOK
    <3>3. u \in ToSet(queue[lock[u]])
        BY <2>2 DEF ToSet
    <3> QED
        BY <3>1, <3>2, <3>3
  <2>5. CASE Cancel(v)
      BY <2>5, <2>t DEF Cancel, TypeOK
  <2>6. CASE ResumeCancelled(v)
    <3>1. PICK l \in LockIds : pc' \in {[pc EXCEPT ![v] = "out"],
                       WakeFirst([pc EXCEPT ![v] = "out"], RemoveFirst(queue[l], v))}
        BY <2>6, <2>t DEF ResumeCancelled, TypeOK
    <3> QED
        BY <3>1, <2>t DEF WakeFirst, TypeOK
  <2>7. CASE Release(v)
      BY <2>7, <2>t DEF Release, WakeFirst, TypeOK
  <2> QED
      BY <2>1, <2>3, <2>4, <2>5, <2>6, <2>7 DEF Runs
<1>2. Spec => [][Served]_vars
    BY <1>1, InitIInv, NextIInv, PTL DEF Spec
<1> QED
    BY <1>2 DEF FirstComeFirstServed
=============================================================================
