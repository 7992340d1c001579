-------------------------- MODULE BotLifecycle_proofs --------------------------
(***************************************************************************)
(* Proofs about BotLifecycle: for any number of calls and of callers of    *)
(* close(), the shared resolutions of an identity run its provider once at *)
(* a time, and no client is published after close() began or left open     *)
(* when it returns.                                                        *)
(***************************************************************************)
EXTENDS BotLifecycle, TLAPS

Active == {"ready", "provider", "waiting"}

(* A task under way is in its slot, so that nobody can start another.      *)
Kept == /\ \A s \in Slots : task[s] \in Active => s \in filled
        /\ \A s \in filled : task[s] # "none"

(* Whoever waits, waits for a task under way, whether it is awaited from   *)
(* its slot or not; whoever was told the end of one either finds that very *)
(* task still in its slot or counts as stale and drops nothing.            *)
Heard == /\ \A w \in Waiters : got[w] = "pending" => task[awaits[w]] \in Active
         /\ \A w \in Waiters \ stale : got[w] \in Results =>
                awaits[w] \in filled /\ task[awaits[w]] = got[w]

(* The providers running are those that the tasks under way wait for, and  *)
(* auth_mode.                                                              *)
InThread(i) == IF task[cred(i)] = "provider" THEN 1 ELSE 0
OnTheLoop(i) == IF blocking /\ i = "app" THEN 1 ELSE 0
Counted == \A i \in Ids : inflight[i] = InThread(i) + OnTheLoop(i)

(* A call of close() that is past its first check has set _closed; one     *)
(* that returned has left no client open, and no task can publish another. *)
Shut == /\ \A x \in Closers :
              closer[x] \in {"awaiting", "closing", "returned"} => closed
        /\ ReturnedMeansClosed

IInv == TypeOK /\ Kept /\ Heard /\ Counted /\ Shut

-----------------------------------------------------------------------------
(* The slots of two tasks differ.                                          *)
LEMMA SlotsDiffer ==
    /\ \A i \in Ids : cred(i) \in Slots /\ init(i) \in Slots
    /\ \A i, j \in Ids : cred(i) # init(j)
    /\ \A i, j \in Ids : cred(i) = cred(j) => i = j
    /\ \A i, j \in Ids : init(i) = init(j) => i = j
    /\ \A s \in Slots : \E i \in Ids : s = cred(i) \/ s = init(i)
BY DEF cred, init, Slots

(* The first slot is the APP credentials'. *)
LEMMA AppSlot == "app" \in Ids /\ cred("app") \in Slots
BY IdsAssumption, SlotsDiffer

(* All that a step about waiting may change, and what it leaves alone.     *)
LEMMA Taking ==
    ASSUME TypeOK, Kept, Heard, NEW w \in Waiters, NEW s \in Slots, NEW own,
           own \in [Slots -> {"none"} \cup Active \cup Results],
           \A t \in Slots : \/ own[t] = task[t]
                            \/ task[t] \in Active /\ own[t] \in Active,
           Await(w, s, own)
    PROVE  /\ filled' \in SUBSET Slots
           /\ task' \in [Slots -> {"none"} \cup Active \cup Results]
           /\ awaits' \in [Waiters -> Slots]
           /\ got' \in [Waiters -> {"idle", "pending"} \cup Results]
           /\ stale' \subseteq Waiters
           /\ Kept' /\ Heard'
           /\ \A t \in Slots : task'[t] = own[t] \/ (t = s /\ s \notin filled /\ task'[t] = "ready")
<1>1. /\ filled' \in SUBSET Slots
      /\ task' \in [Slots -> {"none"} \cup Active \cup Results]
      /\ awaits' \in [Waiters -> Slots]
      /\ got' \in [Waiters -> {"idle", "pending"} \cup Results]
      /\ stale' \subseteq Waiters
    BY DEF TypeOK, Await, Active
<1>2. \A t \in Slots : task'[t] = IF t = s /\ s \notin filled THEN "ready" ELSE own[t]
    BY DEF Await
<1>3. Kept'
    BY <1>2 DEF Kept, Await, Active, TypeOK, Results, Failures
<1>4. Heard'
  <2>1. ASSUME NEW v \in Waiters, v # w
        PROVE  awaits'[v] = awaits[v] /\ got'[v] = got[v] /\ (v \in stale' <=> v \in stale)
      BY <2>1 DEF Await, TypeOK
  <2>2. awaits'[w] = s /\ w \notin stale'
        /\ got'[w] = IF s \in filled /\ task[s] \in Results THEN task[s] ELSE "pending"
      BY DEF Await, TypeOK
  <2>3. ASSUME NEW v \in Waiters, got'[v] = "pending"
        PROVE  task'[awaits'[v]] \in Active
    <3>1. CASE v = w
        BY <1>2, <2>2, <2>3, <3>1 DEF Kept, TypeOK, Active, Results, Failures
    <3>2. CASE v # w
        BY <1>2, <2>1, <2>3, <3>2 DEF Heard, TypeOK, Active, Results, Failures
    <3>3. QED  BY <3>1, <3>2
  <2>4. ASSUME NEW v \in Waiters \ stale', got'[v] \in Results
        PROVE  awaits'[v] \in filled' /\ task'[awaits'[v]] = got'[v]
    <3>1. CASE v = w
        BY <1>2, <2>2, <2>4, <3>1 DEF Await, TypeOK, Active, Results, Failures
    <3>2. CASE v # w
        BY <1>2, <2>1, <2>4, <3>2 DEF Heard, Await, TypeOK, Active, Results, Failures
    <3>3. QED  BY <3>1, <3>2
  <2>5. QED  BY <2>3, <2>4 DEF Heard
<1>5. QED  BY <1>1, <1>2, <1>3, <1>4

(* The end of a task that drops no other.                                  *)
LEMMA Ending ==
    ASSUME TypeOK, Kept, Heard, NEW s \in Slots, NEW r \in Results,
           task[s] \in Active, task' = [task EXCEPT ![s] = r],
           NEW w \in Waiters, NEW freed,
           \/ got' = Told(s, r) /\ awaits' = awaits
           \/ /\ got' = [Told(s, r) EXCEPT ![w] = "idle"]
              /\ awaits' = [awaits EXCEPT ![w] = freed],
           freed \in Slots,
           filled' = filled, stale' = stale
    PROVE  /\ task' \in [Slots -> {"none"} \cup Active \cup Results]
           /\ awaits' \in [Waiters -> Slots]
           /\ got' \in [Waiters -> {"idle", "pending"} \cup Results]
           /\ Kept' /\ Heard'
<1>1. /\ task' \in [Slots -> {"none"} \cup Active \cup Results]
      /\ awaits' \in [Waiters -> Slots]
      /\ got' \in [Waiters -> {"idle", "pending"} \cup Results]
  <2>1. Told(s, r) \in [Waiters -> {"idle", "pending"} \cup Results]
      BY DEF TypeOK, Told
  <2>2. task' \in [Slots -> {"none"} \cup Active \cup Results]
      BY DEF TypeOK, Active
  <2>3. awaits' \in [Waiters -> Slots]
      BY DEF TypeOK
  <2>4. QED  BY <2>1, <2>2, <2>3
<1>2. Kept'
    BY DEF Kept, TypeOK, Active, Results, Failures
<1>3. Heard'
  <2>1. \A v \in Waiters :
           \/ got'[v] = "idle"
           \/ /\ awaits'[v] = awaits[v]
              /\ got'[v] = IF awaits[v] = s /\ got[v] = "pending" THEN r ELSE got[v]
      BY DEF Told, TypeOK
  <2>2. \A v \in Waiters : got'[v] = "pending" => task'[awaits'[v]] \in Active
      BY <2>1 DEF Heard, TypeOK, Active, Results, Failures
  <2>3. \A v \in Waiters \ stale' : got'[v] \in Results =>
           awaits'[v] \in filled' /\ task'[awaits'[v]] = got'[v]
      BY <2>1 DEF Heard, Kept, TypeOK, Active, Results, Failures
  <2>4. QED  BY <2>2, <2>3 DEF Heard
<1>4. QED  BY <1>1, <1>2, <1>3

(* A waiter that was told of a failure drops the task it heard of, and     *)
(* fails too if it is a task itself: the slot it clears holds no task that *)
(* is under way, and everybody else who heard of that task is stale now.   *)
LEMMA Dropping ==
    ASSUME TypeOK, Kept, Heard, NEW w \in Waiters, got[w] \in Failures,
           filled' = filled \ Dropped(w),
           stale' = (stale \cup (IF w \in stale THEN {} ELSE Outdated(w))) \ {w},
           Resumed(w),
           \/ task' = task /\ got' = [got EXCEPT ![w] = "idle"]
           \/ /\ w \in Slots /\ task[w] = "waiting"
              /\ task' = [task EXCEPT ![w] = got[w]]
              /\ got' = [Told(w, got[w]) EXCEPT ![w] = "idle"]
    PROVE  /\ filled' \in SUBSET Slots
           /\ task' \in [Slots -> {"none"} \cup Active \cup Results]
           /\ awaits' \in [Waiters -> Slots]
           /\ got' \in [Waiters -> {"idle", "pending"} \cup Results]
           /\ stale' \subseteq Waiters
           /\ Kept' /\ Heard'
<1>1. awaits' \in [Waiters -> Slots]
    BY AppSlot DEF TypeOK, Resumed
<1>2. /\ filled' \in SUBSET Slots
      /\ task' \in [Slots -> {"none"} \cup Active \cup Results]
      /\ got' \in [Waiters -> {"idle", "pending"} \cup Results]
      /\ stale' \subseteq Waiters
  <2>1. ASSUME w \in Slots
        PROVE  Told(w, got[w]) \in [Waiters -> {"idle", "pending"} \cup Results]
      BY DEF TypeOK, Told, Results
  <2>2. got' \in [Waiters -> {"idle", "pending"} \cup Results]
      BY <2>1 DEF TypeOK
  <2>3. task' \in [Slots -> {"none"} \cup Active \cup Results]
      BY DEF TypeOK, Active, Results
  <2>4. filled' \in SUBSET Slots /\ stale' \subseteq Waiters
      BY DEF TypeOK, Outdated
  <2>5. QED  BY <2>2, <2>3, <2>4
<1>3. w \notin stale => task[awaits[w]] = got[w]
    BY DEF Heard, Results
<1>4. \A t \in Slots : \/ task'[t] = task[t]
                       \/ task[t] = "waiting" /\ task'[t] \in Results
    BY DEF TypeOK, Results
<1>5. \A t \in filled \ filled' : w \notin stale /\ t = awaits[w] /\ task[t] \in Results
    BY <1>3 DEF Dropped, Results
<1>6. Kept'
    BY <1>4, <1>5 DEF Kept, TypeOK, Active, Results, Failures
<1>7. Heard'
  <2>1. got'[w] = "idle"
      BY DEF TypeOK, Told
  <2>2. ASSUME NEW v \in Waiters, v # w
        PROVE  /\ awaits'[v] = awaits[v]
               /\ \/ got'[v] = got[v] /\ (got[v] = "pending" => task'[awaits[v]] = task[awaits[v]])
                  \/ /\ got[v] = "pending" /\ got'[v] = got[w]
                     /\ task'[awaits[v]] = got[w] /\ task[awaits[v]] = "waiting"
               /\ v \notin stale' => v \notin stale
    <3>1. awaits'[v] = awaits[v] /\ (v \notin stale' => v \notin stale)
        BY <2>2 DEF Resumed, TypeOK
    <3>2. awaits[v] \in Slots
        BY DEF TypeOK
    <3>3. QED  BY <2>2, <3>1, <3>2 DEF Told, TypeOK
  <2>3. ASSUME NEW v \in Waiters, got'[v] = "pending"
        PROVE  task'[awaits'[v]] \in Active
      BY <2>1, <2>2, <2>3 DEF Heard, Failures
  <2>4. ASSUME NEW v \in Waiters \ stale', got'[v] \in Results
        PROVE  awaits'[v] \in filled' /\ task'[awaits'[v]] = got'[v]
    <3>1. v # w /\ v \notin stale /\ awaits'[v] = awaits[v]
        BY <2>1, <2>2, <2>4 DEF Results, Failures
    <3>2. CASE got'[v] = got[v]
      <4>1. awaits[v] \in filled /\ task[awaits[v]] = got[v]
          BY <2>4, <3>1, <3>2 DEF Heard
      <4>2. awaits[v] \in filled'
          BY <1>5, <2>4, <3>1, <3>2, <4>1 DEF Outdated
      <4>3. awaits[v] \in Slots
          BY DEF TypeOK
      <4>4. task'[awaits[v]] = task[awaits[v]]
          BY <1>4, <2>4, <3>2, <4>1, <4>3 DEF Results, Failures
      <4>5. QED  BY <3>1, <3>2, <4>1, <4>2, <4>4
    <3>3. CASE got'[v] # got[v]
      <4>1. /\ task'[awaits[v]] = got'[v]
            /\ task[awaits[v]] = "waiting"
          BY <2>2, <3>1, <3>3
      <4>2. awaits[v] \in filled
          BY <4>1 DEF Kept, Active, TypeOK
      <4>3. awaits[v] \in filled'
          BY <1>5, <4>1, <4>2 DEF Results, Failures
      <4>4. QED  BY <3>1, <4>1, <4>3
    <3>4. QED  BY <3>2, <3>3
  <2>5. QED  BY <2>3, <2>4 DEF Heard
<1>8. QED  BY <1>1, <1>2, <1>6, <1>7

(* A wait that is over, with nothing dropped. *)
LEMMA Leaving ==
    ASSUME TypeOK, Kept, Heard, NEW w \in Waiters, UNCHANGED <<filled, task>>,
           got' = [got EXCEPT ![w] = "idle"], Resumed(w),
           stale' = stale \/ stale' = stale \ {w}
    PROVE  /\ awaits' \in [Waiters -> Slots]
           /\ got' \in [Waiters -> {"idle", "pending"} \cup Results]
           /\ stale' \subseteq Waiters
           /\ Kept' /\ Heard'
<1>1. /\ awaits' \in [Waiters -> Slots]
      /\ got' \in [Waiters -> {"idle", "pending"} \cup Results]
      /\ stale' \subseteq Waiters
    BY AppSlot DEF TypeOK, Resumed
<1>2. Kept'
    BY DEF Kept
<1>3. \A v \in Waiters : \/ got'[v] = "idle"
                         \/ /\ awaits'[v] = awaits[v] /\ got'[v] = got[v]
                            /\ v \notin stale' => v \notin stale
    BY DEF Resumed, TypeOK
<1>4. Heard'
    BY <1>3 DEF Heard, Results, Failures
<1>5. QED  BY <1>1, <1>2, <1>4

-----------------------------------------------------------------------------
(* What a step of each kind leaves true of the tasks and their waiters.    *)
Sharing == /\ filled \subseteq Slots
           /\ task \in [Slots -> {"none"} \cup Active \cup Results]
           /\ awaits \in [Waiters -> Slots]
           /\ got \in [Waiters -> {"idle", "pending"} \cup Results]
           /\ stale \subseteq Waiters
           /\ Kept /\ Heard

(* The steps that change neither tasks nor their waiters. *)
LEMMA Apart == ASSUME IInv, UNCHANGED <<filled, task, waiting>>
               PROVE  Sharing'
BY DEF IInv, Sharing, TypeOK, Kept, Heard, waiting, Active

(* Every step of a task that resolves credentials. *)
LEMMA ResolvesShares == ASSUME IInv, NEW i \in Ids, Resolves(i)  PROVE  Sharing'
<1> USE DEF IInv
<1>1. CASE ResolveStarts(i)
  <2>1. CASE Provided(i)
    <3>1. /\ task[cred(i)] = "ready"
          /\ task' = [task EXCEPT ![cred(i)] = "provider"]
          /\ UNCHANGED <<filled, awaits, got, stale>>
        BY <1>1, <2>1 DEF ResolveStarts, waiting
    <3>2. task' \in [Slots -> {"none"} \cup Active \cup Results]
        BY <3>1 DEF TypeOK, Active
    <3>3. Kept'
        BY <3>1 DEF Kept, TypeOK, Active
    <3>4. Heard'
        BY <3>1 DEF Heard, TypeOK, Active, Results, Failures
    <3>5. QED  BY <3>1, <3>2, <3>3, <3>4 DEF Sharing, TypeOK
  <2>2. CASE ~Provided(i)
    <3> DEFINE own == [task EXCEPT ![cred(i)] = "waiting"]
    <3>1. task[cred(i)] = "ready" /\ Await(cred(i), cred("app"), own)
        BY <1>1, <2>2 DEF ResolveStarts
    <3>2. /\ own \in [Slots -> {"none"} \cup Active \cup Results]
          /\ \A t \in Slots : \/ own[t] = task[t]
                              \/ task[t] \in Active /\ own[t] \in Active
        BY <3>1 DEF TypeOK, Active
    <3>3. cred(i) \in Waiters
        BY SlotsDiffer DEF Waiters
    <3> HIDE DEF own
    <3>4. QED  BY <3>1, <3>2, <3>3, Taking, AppSlot DEF Sharing
  <2>3. QED  BY <2>1, <2>2
<1>2. CASE ResolveAnswers(i)
  <2> DEFINE r == IF closed THEN "closed" ELSE "ok"
  <2>1. /\ task[cred(i)] = "ready"
        /\ task' = [task EXCEPT ![cred(i)] = r] /\ got' = Told(cred(i), r)
        /\ awaits' = awaits /\ filled' = filled /\ stale' = stale
      BY <1>2 DEF ResolveAnswers, Ends
  <2>2. r \in Results /\ cred(i) \in Slots /\ cred(i) \in Waiters
      BY SlotsDiffer DEF Results, Failures, Waiters
  <2> HIDE DEF r
  <2>3. QED  BY <2>1, <2>2, Ending, AppSlot DEF Sharing, Active, TypeOK
<1>3. CASE ProviderEnds(i)
  <2>1. PICK r \in {"ok", "failed"} :
           task' = [task EXCEPT ![cred(i)] = r] /\ got' = Told(cred(i), r)
      BY <1>3 DEF ProviderEnds, Ends
  <2>2. /\ task[cred(i)] = "provider"
        /\ awaits' = awaits /\ filled' = filled /\ stale' = stale
      BY <1>3 DEF ProviderEnds
  <2>3. r \in Results /\ cred(i) \in Slots /\ cred(i) \in Waiters
      BY SlotsDiffer DEF Results, Failures, Waiters
  <2>4. QED  BY <2>1, <2>2, <2>3, Ending, AppSlot DEF Sharing, Active, TypeOK
<1>4. CASE Propagates(cred(i))
  <2>1. cred(i) \in Slots /\ cred(i) \in Waiters
      BY SlotsDiffer DEF Waiters
  <2>2. QED  BY <1>4, <2>1, Dropping DEF Propagates, Ends, Sharing
<1>5. CASE ResolveDerives(i)
  <2>1. cred(i) \in Slots /\ cred(i) \in Waiters /\ "ok" \in Results
      BY SlotsDiffer DEF Waiters, Results
  <2>2. /\ task[cred(i)] = "waiting"
        /\ task' = [task EXCEPT ![cred(i)] = "ok"]
        /\ got' = [Told(cred(i), "ok") EXCEPT ![cred(i)] = "idle"]
        /\ awaits' = [awaits EXCEPT ![cred(i)] = cred("app")]
        /\ filled' = filled /\ stale' = stale
      BY <1>5 DEF ResolveDerives, Ends, Resumed
  <2>3. QED  BY <2>1, <2>2, Ending, AppSlot DEF Sharing, Active, TypeOK
<1>6. QED  BY <1>1, <1>2, <1>3, <1>4, <1>5 DEF Resolves

(* Every step of a task that builds a client. *)
LEMMA InitializesShares == ASSUME IInv, NEW i \in Ids, Initializes(i)  PROVE  Sharing'
<1> USE DEF IInv
<1>0. init(i) \in Slots /\ init(i) \in Waiters /\ cred(i) \in Slots
    BY SlotsDiffer DEF Waiters
<1>1. CASE InitStarts(i)
  <2>1. CASE closed
    <3>1. /\ task[init(i)] = "ready"
          /\ task' = [task EXCEPT ![init(i)] = "closed"]
          /\ got' = Told(init(i), "closed")
          /\ awaits' = awaits /\ filled' = filled /\ stale' = stale
        BY <1>1, <2>1 DEF InitStarts, Ends
    <3>2. "closed" \in Results
        BY DEF Results, Failures
    <3>3. QED  BY <1>0, <3>1, <3>2, Ending, AppSlot DEF Sharing, Active, TypeOK
  <2>2. CASE ~closed
    <3> DEFINE own == [task EXCEPT ![init(i)] = "waiting"]
    <3>1. task[init(i)] = "ready" /\ Await(init(i), cred(i), own)
        BY <1>1, <2>2 DEF InitStarts
    <3>2. /\ own \in [Slots -> {"none"} \cup Active \cup Results]
          /\ \A t \in Slots : \/ own[t] = task[t]
                              \/ task[t] \in Active /\ own[t] \in Active
        BY <3>1 DEF TypeOK, Active
    <3> HIDE DEF own
    <3>3. QED  BY <1>0, <3>1, <3>2, Taking DEF Sharing
  <2>3. QED  BY <2>1, <2>2
<1>2. ASSUME NEW r \in Results, task[init(i)] = "waiting", InitEnds(i, r)
      PROVE  Sharing'
  <2>1. /\ task' = [task EXCEPT ![init(i)] = r]
        /\ got' = [Told(init(i), r) EXCEPT ![init(i)] = "idle"]
        /\ awaits' = [awaits EXCEPT ![init(i)] = cred("app")]
        /\ filled' = filled /\ stale' = stale
      BY <1>2 DEF InitEnds, Ends, Resumed
  <2>2. QED  BY <1>0, <1>2, <2>1, Ending, AppSlot DEF Sharing, Active, TypeOK
<1>3. CASE Builds(i)
    BY <1>2, <1>3 DEF Builds, Results
<1>4. CASE BuildFails(i)
    BY <1>2, <1>4 DEF BuildFails, Results
<1>5. CASE Propagates(init(i))
    BY <1>0, <1>5, Dropping DEF Propagates, Ends, Sharing
<1>6. QED  BY <1>1, <1>3, <1>4, <1>5 DEF Initializes

(* Every step of an API call. *)
LEMMA CallsShare ==
    ASSUME IInv, NEW c \in Calls, NEW i \in Ids,
           \/ Execute(c, i) \/ GetRaw(c, i) \/ Resumes(c) \/ CancelCall(c)
    PROVE  Sharing'
<1> USE DEF IInv
<1>0. c \in Waiters /\ cred(i) \in Slots
    BY SlotsDiffer DEF Waiters
<1>1. ASSUME NEW s \in Slots, Await(c, s, task)
      PROVE  Sharing'
  <2>1. task \in [Slots -> {"none"} \cup Active \cup Results]
      BY DEF TypeOK, Active
  <2>2. QED  BY <1>0, <1>1, <2>1, Taking DEF Sharing
<1>2. ASSUME UNCHANGED <<filled, task>>, got' = [got EXCEPT ![c] = "idle"],
             Resumed(c), stale' = stale \/ stale' = stale \ {c}
      PROVE  Sharing'
  <2>1. task' \in [Slots -> {"none"} \cup Active \cup Results] /\ filled' \in SUBSET Slots
      BY <1>2 DEF TypeOK, Active
  <2>2. QED  BY <1>0, <1>2, <2>1, Leaving DEF Sharing
<1>3. ASSUME NEW j \in Ids, GetClient(c, j)
      PROVE  Sharing'
  <2>1. CASE client[j] # "none"
      BY <1>2, <1>3, <2>1 DEF GetClient
  <2>2. CASE client[j] = "none"
    <3>1. init(j) \in Slots
        BY SlotsDiffer
    <3>2. QED  BY <1>1, <1>3, <2>2, <3>1 DEF GetClient
  <2>3. QED  BY <2>1, <2>2
<1>4. CASE Execute(c, i)
    BY <1>0, <1>1, <1>4 DEF Execute
<1>5. CASE GetRaw(c, i)
    BY <1>3, <1>5 DEF GetRaw
<1>6. CASE Preflighted(c)
  <2>1. target[c] \in Ids
      BY DEF TypeOK
  <2>2. QED  BY <1>3, <1>6, <2>1 DEF Preflighted
<1>7. CASE HasClient(c)
    BY <1>2, <1>7 DEF HasClient
<1>8. CASE CallEnds(c)
    BY <1>2, <1>8 DEF CallEnds
<1>9. CASE CallFails(c)
    BY <1>0, <1>9, Dropping DEF CallFails, Sharing
<1>10. CASE CancelCall(c)
    BY <1>2, <1>10 DEF CancelCall
<1>11. QED  BY <1>4, <1>5, <1>6, <1>7, <1>8, <1>9, <1>10 DEF Resumes

(* Tasks stay in their slots, and waiters stay with them, over any step.   *)
LEMMA SharingKept == IInv /\ [Next]_vars => Sharing'
<1> SUFFICES ASSUME IInv, [Next]_vars  PROVE  Sharing'
    OBVIOUS
<1>1. ASSUME NEW i \in Ids, Resolves(i) \/ Initializes(i)
      PROVE  Sharing'
    BY <1>1, ResolvesShares, InitializesShares
<1>2. CASE SyncAuthMode \/ SyncAnswered
    BY <1>2, Apart DEF SyncAuthMode, SyncAnswered
<1>3. ASSUME NEW c \in Calls,
             \/ \E i \in Ids : Execute(c, i) \/ GetRaw(c, i)
             \/ Resumes(c) \/ CancelCall(c)
      PROVE  Sharing'
    BY <1>3, CallsShare, IdsAssumption
<1>4. ASSUME NEW x \in Closers,
             CloseAgain(x) \/ Close(x) \/ Closes(x) \/ CloseBreaks(x)
      PROVE  Sharing'
  <2>1. UNCHANGED <<filled, task, waiting>>
      BY <1>4 DEF CloseAgain, Close, Closes, Gathered, CloseRaises, CloseTransport,
                  CloseReturns, CloseBreaks
  <2>2. QED  BY <2>1, Apart
<1>5. CASE UNCHANGED vars
    BY <1>5, Apart DEF vars, waiting
<1>6. QED  BY <1>1, <1>2, <1>3, <1>4, <1>5 DEF Next, OnLoop, LoopStep

-----------------------------------------------------------------------------
(* Taking the task in a slot, or filling an empty slot, starts or ends no  *)
(* provider: what was in an empty slot is over.                            *)
LEMMA TakingStartsNone ==
    ASSUME IInv, NEW w \in Waiters, NEW s \in Slots, NEW own,
           own \in [Slots -> {"none"} \cup Active \cup Results],
           \A t \in Slots : \/ own[t] = task[t]
                            \/ task[t] \in {"ready", "waiting"} /\ own[t] \in {"ready", "waiting"},
           Await(w, s, own)
    PROVE  \A t \in Slots : task'[t] = "provider" <=> task[t] = "provider"
<1>1. \A t \in Slots : task'[t] = own[t] \/ (t = s /\ s \notin filled /\ task'[t] = "ready")
    BY Taking DEF IInv, Active
<1>2. QED  BY <1>1 DEF IInv, Kept, Active

(* The loop's tasks start and end no provider but the one they wait for. *)
LEMMA LoopCounts ==
    ASSUME IInv, LoopStep, blocking' = blocking  PROVE  Counted'
<1> USE DEF IInv, InThread, OnTheLoop
<1>0. ASSUME inflight' = inflight,
             \A t \in Slots : task'[t] = "provider" <=> task[t] = "provider"
      PROVE  Counted'
    BY <1>0, SlotsDiffer DEF Counted
<1>1. ASSUME NEW i \in Ids, ResolveStarts(i)
      PROVE  Counted'
  <2>1. CASE Provided(i)
    <3>1. /\ task[cred(i)] = "ready"
          /\ task' = [task EXCEPT ![cred(i)] = "provider"]
          /\ inflight' = [inflight EXCEPT ![i] = @ + 1]
        BY <1>1, <2>1 DEF ResolveStarts
    <3>2. ASSUME NEW j \in Ids
          PROVE  inflight'[j] = InThread(j)' + OnTheLoop(j)'
      <4>1. CASE j = i
          BY <3>1, <4>1, SlotsDiffer DEF Counted, TypeOK
      <4>2. CASE j # i
          BY <3>1, <4>2, SlotsDiffer DEF Counted, TypeOK
      <4>3. QED  BY <4>1, <4>2
    <3>3. QED  BY <3>2 DEF Counted
  <2>2. CASE ~Provided(i)
    <3> DEFINE own == [task EXCEPT ![cred(i)] = "waiting"]
    <3>1. /\ task[cred(i)] = "ready" /\ Await(cred(i), cred("app"), own)
          /\ inflight' = inflight
        BY <1>1, <2>2 DEF ResolveStarts
    <3>2. /\ own \in [Slots -> {"none"} \cup Active \cup Results]
          /\ \A t \in Slots : \/ own[t] = task[t]
                              \/ /\ task[t] \in {"ready", "waiting"}
                                 /\ own[t] \in {"ready", "waiting"}
        BY <3>1 DEF TypeOK, Active
    <3>3. cred(i) \in Waiters
        BY SlotsDiffer DEF Waiters
    <3> HIDE DEF own
    <3>4. QED  BY <1>0, <3>1, <3>2, <3>3, TakingStartsNone, AppSlot
  <2>3. QED  BY <2>1, <2>2
<1>2. ASSUME NEW i \in Ids, ProviderEnds(i)
      PROVE  Counted'
  <2>1. PICK r \in {"ok", "failed"} : task' = [task EXCEPT ![cred(i)] = r]
      BY <1>2 DEF ProviderEnds, Ends
  <2>2. task[cred(i)] = "provider" /\ inflight' = [inflight EXCEPT ![i] = @ - 1]
      BY <1>2 DEF ProviderEnds
  <2>3. ASSUME NEW j \in Ids
        PROVE  inflight'[j] = InThread(j)' + OnTheLoop(j)'
    <3>1. CASE j = i
      <4>1. InThread(i) = 1 /\ InThread(i)' = 0 /\ OnTheLoop(i)' = OnTheLoop(i)
          BY <2>1, <2>2, SlotsDiffer DEF TypeOK
      <4>2. inflight[i] = InThread(i) + OnTheLoop(i) /\ OnTheLoop(i) \in Nat
          BY DEF Counted
      <4>3. inflight'[i] = inflight[i] - 1
          BY <2>2 DEF TypeOK
      <4> HIDE DEF InThread, OnTheLoop
      <4>4. QED  BY <3>1, <4>1, <4>2, <4>3
    <3>2. CASE j # i
        BY <2>1, <2>2, <3>2, SlotsDiffer DEF Counted, TypeOK
    <3>3. QED  BY <3>1, <3>2
  <2>4. QED  BY <2>3 DEF Counted
<1>3. ASSUME NEW s \in Slots, NEW r \in Results, task[s] \in {"ready", "waiting"},
             task' = [task EXCEPT ![s] = r], inflight' = inflight
      PROVE  Counted'
  <2>1. \A t \in Slots : task'[t] = "provider" <=> task[t] = "provider"
      BY <1>3 DEF TypeOK, Results, Failures
  <2>2. QED  BY <1>0, <1>3, <2>1
<1>4. ASSUME NEW i \in Ids, ResolveAnswers(i)
      PROVE  Counted'
  <2> DEFINE r == IF closed THEN "closed" ELSE "ok"
  <2>1. /\ task[cred(i)] = "ready"
        /\ task' = [task EXCEPT ![cred(i)] = r] /\ inflight' = inflight
      BY <1>4 DEF ResolveAnswers, Ends, provided
  <2>2. r \in Results /\ cred(i) \in Slots
      BY SlotsDiffer DEF Results, Failures
  <2> HIDE DEF r
  <2>3. QED  BY <1>3, <2>1, <2>2
<1>5. ASSUME NEW s \in Slots, Propagates(s)
      PROVE  Counted'
    BY <1>3, <1>5 DEF Propagates, Ends, provided, Results
<1>6. ASSUME NEW i \in Ids, ResolveDerives(i)
      PROVE  Counted'
    BY <1>3, <1>6, SlotsDiffer DEF ResolveDerives, Ends, Results
<1>7. ASSUME NEW i \in Ids, InitStarts(i)
      PROVE  Counted'
  <2>0. init(i) \in Slots /\ init(i) \in Waiters /\ cred(i) \in Slots
      BY SlotsDiffer DEF Waiters
  <2>1. CASE closed
      BY <1>3, <1>7, <2>0, <2>1 DEF InitStarts, Ends, provided, Results, Failures
  <2>2. CASE ~closed
    <3> DEFINE own == [task EXCEPT ![init(i)] = "waiting"]
    <3>1. /\ task[init(i)] = "ready" /\ Await(init(i), cred(i), own)
          /\ inflight' = inflight
        BY <1>7, <2>2 DEF InitStarts, provided
    <3>2. /\ own \in [Slots -> {"none"} \cup Active \cup Results]
          /\ \A t \in Slots : \/ own[t] = task[t]
                              \/ /\ task[t] \in {"ready", "waiting"}
                                 /\ own[t] \in {"ready", "waiting"}
        BY <3>1 DEF TypeOK, Active
    <3> HIDE DEF own
    <3>3. QED  BY <1>0, <2>0, <3>1, <3>2, TakingStartsNone
  <2>3. QED  BY <2>1, <2>2
<1>8. ASSUME NEW i \in Ids, Builds(i) \/ BuildFails(i)
      PROVE  Counted'
    BY <1>3, <1>8, SlotsDiffer DEF Builds, BuildFails, InitEnds, Ends, provided, Results
<1>9. ASSUME NEW c \in Calls, NEW s \in Slots, Await(c, s, task), inflight' = inflight
      PROVE  Counted'
  <2>1. task \in [Slots -> {"none"} \cup Active \cup Results] /\ c \in Waiters
      BY DEF TypeOK, Active, Waiters
  <2>2. QED  BY <1>0, <1>9, <2>1, TakingStartsNone
<1>10. ASSUME NEW c \in Calls, NEW i \in Ids, GetClient(c, i), inflight' = inflight
       PROVE  Counted'
    BY <1>0, <1>9, <1>10, SlotsDiffer DEF GetClient
<1>11. ASSUME NEW c \in Calls,
              \/ \E i \in Ids : Execute(c, i) \/ GetRaw(c, i)
              \/ Resumes(c) \/ CancelCall(c)
       PROVE  Counted'
  <2>1. ASSUME NEW i \in Ids, Execute(c, i)
        PROVE  Counted'
      BY <1>9, <2>1, SlotsDiffer DEF Execute, provided
  <2>2. ASSUME NEW i \in Ids, GetRaw(c, i)
        PROVE  Counted'
      BY <1>10, <2>2 DEF GetRaw, provided
  <2>3. CASE Preflighted(c)
    <3>1. target[c] \in Ids
        BY DEF TypeOK
    <3>2. QED  BY <1>10, <2>3, <3>1 DEF Preflighted, provided
  <2>4. CASE HasClient(c) \/ CallEnds(c) \/ CallFails(c) \/ CancelCall(c)
    <3>1. inflight' = inflight /\ task' = task
        BY <2>4 DEF HasClient, CallEnds, CallFails, CancelCall, provided
    <3>2. QED  BY <1>0, <3>1
  <2>5. QED  BY <1>11, <2>1, <2>2, <2>3, <2>4 DEF Resumes
<1>12. ASSUME NEW x \in Closers,
              CloseAgain(x) \/ Close(x) \/ Closes(x) \/ CloseBreaks(x)
       PROVE  Counted'
  <2>1. UNCHANGED <<task, provided>>
      BY <1>12 DEF CloseAgain, Close, Closes, Gathered, CloseRaises, CloseTransport,
                   CloseReturns, CloseBreaks
  <2>2. QED  BY <1>0, <2>1 DEF provided
<1>13. ASSUME NEW i \in Ids, Resolves(i) \/ Initializes(i)
       PROVE  Counted'
    BY <1>1, <1>2, <1>4, <1>5, <1>6, <1>7, <1>8, <1>13, SlotsDiffer DEF Resolves, Initializes
<1>14. QED  BY <1>11, <1>12, <1>13 DEF LoopStep

(* The providers that run are still those somebody waits for: auth_mode    *)
(* counts its own call, whatever a thread does.                            *)
LEMMA CountedKept == IInv /\ [Next]_vars => Counted'
<1> SUFFICES ASSUME IInv, [Next]_vars  PROVE  Counted'
    OBVIOUS
<1> USE IdsAssumption DEF IInv, Counted, InThread, OnTheLoop, TypeOK
<1>1. CASE OnLoop(LoopStep)
  <2>1. LoopStep /\ blocking' = blocking
      BY <1>1 DEF OnLoop
  <2>2. QED  BY <2>1, LoopCounts
<1>2. CASE SyncAuthMode
    BY <1>2 DEF SyncAuthMode
<1>3. CASE SyncAnswered
    BY <1>3 DEF SyncAnswered
<1>4. CASE UNCHANGED vars
    BY <1>4 DEF vars
<1>5. QED  BY <1>1, <1>2, <1>3, <1>4 DEF Next

-----------------------------------------------------------------------------
(* What a step does to _closed, to the clients and to those who close.     *)
Shutting == /\ closed' \in BOOLEAN
            /\ client' \in [Ids -> {"none", "open", "closed"}]
            /\ Shut'
            /\ closed => \A i \in Ids : client[i] = "none" => client'[i] = "none"
            /\ closer' \in [Closers -> {"idle", "awaiting", "closing", "returned",
                                        "returned_at_once", "raised"}]

(* A client is published before _closed is set, and close() returns only   *)
(* when none is open.                                                      *)
LEMMA ShutKept == IInv /\ [Next]_vars => Shutting
<1> SUFFICES ASSUME IInv, [Next]_vars  PROVE  Shutting
    OBVIOUS
<1> USE DEF IInv
<1>0. ASSUME UNCHANGED <<closed, client, closer>>
      PROVE  Shutting
    BY <1>0 DEF Shutting, Shut, ReturnedMeansClosed, TypeOK
<1>1. ASSUME NEW i \in Ids, Builds(i)
      PROVE  Shutting
  <2>1. ~closed /\ client' = [client EXCEPT ![i] = "open"] /\ closed' = closed /\ closer' = closer
      BY <1>1 DEF Builds, InitEnds
  <2>2. QED  BY <2>1 DEF Shutting, Shut, ReturnedMeansClosed, TypeOK
<1>2. ASSUME NEW i \in Ids, Resolves(i) \/ InitStarts(i) \/ BuildFails(i) \/ Propagates(init(i))
      PROVE  Shutting
  <2>1. UNCHANGED <<closed, client, closer>>
      BY <1>2 DEF Resolves, ResolveStarts, ResolveAnswers, ProviderEnds, Propagates,
                  ResolveDerives, InitStarts, BuildFails, InitEnds, closing
  <2>2. QED  BY <1>0, <2>1
<1>3. ASSUME NEW c \in Calls,
             \/ \E i \in Ids : Execute(c, i) \/ GetRaw(c, i)
             \/ Resumes(c) \/ CancelCall(c)
      PROVE  Shutting
  <2>1. UNCHANGED <<closed, client, closer>>
      BY <1>3 DEF Execute, GetRaw, Resumes, Preflighted, HasClient, CallEnds, CallFails,
                  CancelCall, closing
  <2>2. QED  BY <1>0, <2>1
<1>4. CASE SyncAuthMode \/ SyncAnswered \/ UNCHANGED vars
    BY <1>0, <1>4 DEF SyncAuthMode, SyncAnswered, closing, vars
<1>5. ASSUME NEW x \in Closers, CloseAgain(x)
      PROVE  Shutting
    BY <1>5 DEF CloseAgain, Shutting, Shut, ReturnedMeansClosed, TypeOK
<1>6. ASSUME NEW x \in Closers, Close(x)
      PROVE  Shutting
    BY <1>6 DEF Close, Shutting, Shut, ReturnedMeansClosed, TypeOK
<1>7. ASSUME NEW x \in Closers, Gathered(x) \/ CloseRaises(x) \/ CloseBreaks(x)
      PROVE  Shutting
  <2>1. /\ closed' = closed /\ client' = client
        /\ closer[x] \in {"awaiting", "closing"}
        /\ \/ closer' = [closer EXCEPT ![x] = "closing"]
           \/ closer' = [closer EXCEPT ![x] = "raised"]
      BY <1>7 DEF Gathered, CloseRaises, CloseBreaks
  <2>2. QED  BY <2>1 DEF Shutting, Shut, ReturnedMeansClosed, TypeOK
<1>8. ASSUME NEW x \in Closers, NEW i \in Ids, CloseTransport(x, i)
      PROVE  Shutting
  <2>1. /\ client[i] = "open" /\ client' = [client EXCEPT ![i] = "closed"]
        /\ closed' = closed /\ closer' = closer
      BY <1>8 DEF CloseTransport, closing
  <2>2. QED  BY <2>1 DEF Shutting, Shut, ReturnedMeansClosed, TypeOK
<1>9. ASSUME NEW x \in Closers, CloseReturns(x)
      PROVE  Shutting
    BY <1>9 DEF CloseReturns, Shutting, Shut, ReturnedMeansClosed, TypeOK
<1>10. QED  BY <1>1, <1>2, <1>3, <1>4, <1>5, <1>6, <1>7, <1>8, <1>9
            DEF Next, OnLoop, LoopStep, Initializes, Closes

-----------------------------------------------------------------------------
(* The variables that are read but bind nothing together. *)
Outer == /\ resolved \subseteq Ids
         /\ pc \in [Calls -> {"idle", "cred", "init", "using"}]
         /\ target \in [Calls -> Ids]
         /\ seen \in [Slots -> {"absent", "pending"} \cup Results]

LEMMA OuterTyped == IInv /\ [Next]_vars => Outer'
<1> SUFFICES ASSUME IInv, [Next]_vars  PROVE  Outer'
    OBVIOUS
<1> USE IdsAssumption DEF IInv
<1>0. ASSUME UNCHANGED <<resolved, calls, seen>>
      PROVE  Outer'
    BY <1>0 DEF Outer, calls, TypeOK
<1>1. ASSUME NEW s \in Slots, NEW r \in Results, Ends(s, r), calls' = calls,
             resolved' \subseteq Ids
      PROVE  Outer'
    BY <1>1 DEF Ends, Seen, Outer, calls, TypeOK
<1>2. ASSUME NEW i \in Ids, Resolves(i)
      PROVE  Outer'
  <2>0. cred(i) \in Slots
      BY SlotsDiffer
  <2>1. CASE ResolveStarts(i)
      BY <1>0, <2>1 DEF ResolveStarts, closing
  <2>2. CASE ResolveAnswers(i)
    <3> DEFINE r == IF closed THEN "closed" ELSE "ok"
    <3>1. Ends(cred(i), r) /\ calls' = calls /\ resolved' = resolved
        BY <2>2 DEF ResolveAnswers, provided
    <3>2. r \in Results /\ resolved' \subseteq Ids
        BY <3>1 DEF Results, Failures, TypeOK
    <3> HIDE DEF r
    <3>3. QED  BY <1>1, <2>0, <3>1, <3>2
  <2>3. CASE ProviderEnds(i)
      BY <1>1, <2>0, <2>3 DEF ProviderEnds, Results, Failures, TypeOK
  <2>4. CASE Propagates(cred(i))
      BY <1>1, <2>0, <2>4 DEF Propagates, provided, Results, TypeOK
  <2>5. CASE ResolveDerives(i)
      BY <1>1, <2>0, <2>5 DEF ResolveDerives, Results, TypeOK
  <2>6. QED  BY <1>2, <2>1, <2>2, <2>3, <2>4, <2>5 DEF Resolves
<1>3. ASSUME NEW i \in Ids, Initializes(i)
      PROVE  Outer'
  <2>0. init(i) \in Slots
      BY SlotsDiffer
  <2>1. CASE InitStarts(i)
    <3>1. calls' = calls /\ resolved' = resolved
        BY <2>1 DEF InitStarts, provided
    <3>2. CASE closed
        BY <1>1, <2>0, <2>1, <3>1, <3>2 DEF InitStarts, Results, Failures, TypeOK
    <3>3. CASE ~closed
        BY <1>0, <2>1, <3>1, <3>3 DEF InitStarts
    <3>4. QED  BY <3>2, <3>3
  <2>2. ASSUME NEW r \in Results, InitEnds(i, r)
        PROVE  Outer'
      BY <1>1, <2>0, <2>2 DEF InitEnds, provided, TypeOK
  <2>3. CASE Builds(i)
      BY <2>2, <2>3 DEF Builds, Results
  <2>4. CASE BuildFails(i)
      BY <2>2, <2>4 DEF BuildFails, Results
  <2>5. CASE Propagates(init(i))
      BY <1>1, <2>0, <2>5 DEF Propagates, provided, Results, TypeOK
  <2>6. QED  BY <1>3, <2>1, <2>3, <2>4, <2>5 DEF Initializes
<1>4. ASSUME NEW c \in Calls,
             \/ \E i \in Ids : Execute(c, i) \/ GetRaw(c, i)
             \/ Resumes(c) \/ CancelCall(c)
      PROVE  Outer'
  <2>1. resolved' = resolved /\ seen' = seen
      BY <1>4 DEF Execute, GetRaw, Resumes, Preflighted, HasClient, CallEnds, CallFails,
                  CancelCall, closing, provided
  <2>2. /\ \/ pc' = pc
           \/ \E p \in {"idle", "cred", "init", "using"} : pc' = [pc EXCEPT ![c] = p]
        /\ \/ target' = target
           \/ \E i \in Ids : target' = [target EXCEPT ![c] = i]
      BY <1>4 DEF Execute, GetRaw, GetClient, Resumes, Preflighted, HasClient, CallEnds,
                  CallFails, CancelCall
  <2>3. QED  BY <2>1, <2>2 DEF Outer, TypeOK
<1>5. ASSUME NEW x \in Closers,
             CloseAgain(x) \/ Close(x) \/ Closes(x) \/ CloseBreaks(x)
      PROVE  Outer'
  <2>1. resolved' = resolved /\ calls' = calls
      BY <1>5 DEF CloseAgain, Close, Closes, Gathered, CloseRaises, CloseTransport,
                  CloseReturns, CloseBreaks, provided
  <2>2. seen' \in [Slots -> {"absent", "pending"} \cup Results]
    <3>1. CASE Close(x)
        BY <3>1 DEF Close
    <3>2. CASE ~Close(x)
      <4>1. seen' = seen \/ seen' = NoneAwaited
          BY <1>5, <3>2 DEF CloseAgain, Closes, Gathered, CloseRaises, CloseTransport,
                            CloseReturns, CloseBreaks, closing
      <4>2. QED  BY <4>1 DEF NoneAwaited, TypeOK
    <3>3. QED  BY <3>1, <3>2
  <2>3. QED  BY <2>1, <2>2 DEF Outer, calls, TypeOK
<1>6. CASE SyncAuthMode \/ SyncAnswered
    BY <1>6 DEF SyncAuthMode, SyncAnswered, Outer, calls, closing, TypeOK
<1>7. CASE UNCHANGED vars
    BY <1>0, <1>7 DEF vars, calls
<1>8. QED  BY <1>2, <1>3, <1>4, <1>5, <1>6, <1>7 DEF Next, OnLoop, LoopStep

(* A step counts one provider up or down, or leaves the counts alone.      *)
LEMMA CountsProviders ==
    ASSUME [Next]_vars
    PROVE  \/ inflight' = inflight
           \/ \E i \in Ids : \/ inflight' = [inflight EXCEPT ![i] = @ + 1]
                             \/ inflight' = [inflight EXCEPT ![i] = @ - 1]
<1>1. ASSUME NEW i \in Ids, ResolveStarts(i) \/ ProviderEnds(i)
      PROVE  \/ inflight' = inflight
             \/ inflight' = [inflight EXCEPT ![i] = @ + 1]
             \/ inflight' = [inflight EXCEPT ![i] = @ - 1]
    BY <1>1 DEF ResolveStarts, ProviderEnds
<1>2. ASSUME NEW i \in Ids,
             \/ ResolveAnswers(i) \/ Propagates(cred(i)) \/ ResolveDerives(i)
             \/ Initializes(i)
      PROVE  inflight' = inflight
    BY <1>2 DEF ResolveAnswers, Propagates, ResolveDerives, Initializes, InitStarts, Builds,
                BuildFails, InitEnds, provided
<1>3. ASSUME NEW c \in Calls,
             \/ \E i \in Ids : Execute(c, i) \/ GetRaw(c, i)
             \/ Resumes(c) \/ CancelCall(c)
      PROVE  inflight' = inflight
    BY <1>3 DEF Execute, GetRaw, Resumes, Preflighted, HasClient, CallEnds, CallFails,
                CancelCall, provided
<1>4. ASSUME NEW x \in Closers,
             CloseAgain(x) \/ Close(x) \/ Closes(x) \/ CloseBreaks(x)
      PROVE  inflight' = inflight
    BY <1>4 DEF CloseAgain, Close, Closes, Gathered, CloseRaises, CloseTransport,
                CloseReturns, CloseBreaks, provided
<1>5. CASE UNCHANGED vars
    BY <1>5 DEF vars
<1>6. CASE SyncAuthMode \/ SyncAnswered
    BY <1>6, IdsAssumption DEF SyncAuthMode, SyncAnswered
<1>7. QED  BY <1>1, <1>2, <1>3, <1>4, <1>5, <1>6 DEF Next, OnLoop, LoopStep, Resolves

(* Nothing is there at the start. *)
LEMMA InitInv == Init => IInv
<1> SUFFICES ASSUME Init  PROVE  IInv
    OBVIOUS
<1>1. TypeOK
    BY AppSlot DEF Init, TypeOK
<1>2. Kept /\ Heard
    BY DEF Init, Kept, Heard, Active, Results, Failures
<1>3. Counted
  <2>1. ASSUME NEW i \in Ids
        PROVE  inflight[i] = InThread(i) + OnTheLoop(i)
    <3>1. inflight[i] = 0 /\ task[cred(i)] = "none" /\ blocking = FALSE
        BY SlotsDiffer DEF Init
    <3>2. InThread(i) = 0 /\ OnTheLoop(i) = 0
        BY <3>1 DEF InThread, OnTheLoop
    <3>3. QED  BY <3>1, <3>2
  <2>2. QED  BY <2>1 DEF Counted
<1>4. Shut
    BY DEF Init, Shut, ReturnedMeansClosed
<1>5. QED  BY <1>1, <1>2, <1>3, <1>4 DEF IInv

LEMMA StepInv == IInv /\ [Next]_vars => IInv'
<1> SUFFICES ASSUME IInv, [Next]_vars  PROVE  IInv'
    OBVIOUS
<1>1. Sharing' /\ Counted' /\ Shutting /\ Outer'
    BY SharingKept, CountedKept, ShutKept, OuterTyped
<1>2. inflight' \in [Ids -> Nat]
  <2>1. \A i \in Ids : inflight'[i] \in Nat
      BY <1>1 DEF Counted, InThread, OnTheLoop
  <2>2. \/ inflight' = inflight
        \/ \E i \in Ids : \/ inflight' = [inflight EXCEPT ![i] = @ + 1]
                          \/ inflight' = [inflight EXCEPT ![i] = @ - 1]
      BY CountsProviders
  <2>3. QED  BY <2>1, <2>2 DEF IInv, TypeOK
<1>3. blocking' \in BOOLEAN
    BY DEF Next, OnLoop, SyncAuthMode, SyncAnswered, vars, IInv, TypeOK
<1>4. QED  BY <1>1, <1>2, <1>3 DEF IInv, TypeOK, Sharing, Shutting, Outer, Active

LEMMA SpecInv == Spec => []IInv
BY InitInv, StepInv, PTL DEF Spec

-----------------------------------------------------------------------------
(* Every variable keeps its type, for any number of calls and closers.     *)
THEOREM TypeCorrect == Spec => []TypeOK
BY SpecInv, PTL DEF IInv

(* "single-flight": two calls of a provider never overlap, whatever number *)
(* of calls waits for it, is cancelled, or drops a failed task, in whatever *)
(* order they are resumed - but for the call auth_mode makes of its own.   *)
THEOREM ProvidersRunOnce == Spec => []SingleFlight
<1>1. ASSUME IInv, NEW i \in Ids
      PROVE  inflight[i] <= IF blocking /\ i = "app" THEN 2 ELSE 1
  <2>1. /\ inflight[i] = InThread(i) + OnTheLoop(i)
        /\ InThread(i) \in 0 .. 1
        /\ OnTheLoop(i) = IF blocking /\ i = "app" THEN 1 ELSE 0
      BY <1>1 DEF IInv, Counted, InThread, OnTheLoop
  <2>2. QED  BY <2>1
<1>2. IInv => SingleFlight
    BY <1>1 DEF SingleFlight
<1>3. QED  BY <1>2, SpecInv, PTL

(* When the close() that does the work returns, no client is open.         *)
THEOREM ClosedOnReturn == Spec => []ReturnedMeansClosed
BY SpecInv, PTL DEF IInv, Shut

(* Once close() began, no client is published any more.                    *)
THEOREM NothingPublishedAfterClose == Spec => NoClientAfterClose
<1>1. IInv /\ [Next]_vars
        => [closed => \A i \in Ids : client[i] = "none" => client'[i] = "none"]_vars
    BY ShutKept DEF Shutting
<1>2. QED  BY <1>1, SpecInv, PTL DEF Spec, NoClientAfterClose
=============================================================================
