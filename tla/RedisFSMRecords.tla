--------------------------- MODULE RedisFSMRecords --------------------------
(***************************************************************************)
(* BaseStorageFromRecord over RedisFSMRecordStorage                        *)
(* (src/src/chattice/fsm/record.py), one Redis command per step.           *)
(* get_record is a GET, and if that finds an expired document a loop of    *)
(* WATCH, GET and MULTI/DEL/EXEC that deletes what was read and nothing    *)
(* else.  compare_and_set is a loop of WATCH, GET and MULTI/SET/EXEC.      *)
(* EXEC fails when the key changed since WATCH, and the loop starts over.  *)
(*                                                                         *)
(* Redis is external: a key with a TTL disappears at some instant not      *)
(* before its time, and an expired key fails the transactions that watch   *)
(* it.  A command may fail before or after it was executed; a call may be  *)
(* cancelled with a command on its way, which is executed or is not.       *)
(*                                                                         *)
(* The module implements FSMRecords without Prompt, with record for the    *)
(* document Redis has (Prompt itself is of no account here): get_record    *)
(* takes effect at the GET or DEL that ends it, compare_and_set at its SET *)
(* or at the GET that finds another revision.                              *)
(***************************************************************************)
EXTENDS FSMRecords

VARIABLES cmd,    \* per call: the command it sends next
          raw,    \* per call: the expired document get_record read
          dirty   \* calls whose transaction cannot succeed any more

redisVars == <<record, now, life, op, pc, offer, seen, cmd, raw, dirty>>
clock == <<now, op>>

(* FSMRecords does not tell an answer that was lost from one that arrived. *)
Told == [c \in Calls |-> IF pc[c] = "unanswered" THEN "returned" ELSE pc[c]]

Records == INSTANCE FSMRecords WITH Prompt <- FALSE, pc <- Told

Ended == Outcomes \cup {"unanswered"}

RedisInit == /\ Init
             /\ cmd = [c \in Calls |-> "get"]
             /\ raw = [c \in Calls |-> NoRecord]
             /\ dirty = {}

Send(c, command) == cmd' = [cmd EXCEPT ![c] = command]

-----------------------------------------------------------------------------
(* Redis *)

Watching == {c \in Calls : /\ pc[c] \notin Ended
                           /\ cmd[c] \in {"get_expired", "del", "get_cas", "set"}}

RedisTick == Tick /\ UNCHANGED <<cmd, raw, dirty>>

Expire == /\ _expired(record, now)
          /\ record' = NoRecord
          /\ dirty' = dirty \cup Watching
          /\ UNCHANGED <<now, life, op, pc, offer, seen, cmd, raw>>

Watch(c, command) ==
    /\ Send(c, command)
    /\ dirty' = dirty \ {c}
    /\ UNCHANGED <<clock, record, life, pc, offer, seen, raw>>

(* c's transaction leaves r under the key. *)
Exec(c, r) == /\ c \notin dirty
              /\ record' = r
              /\ dirty' = dirty \cup (Watching \ {c})

-----------------------------------------------------------------------------
(* get_record *)

(* It returns r: finish looks for a record first, the others make their    *)
(* replacement of it.                                                      *)
Answer(c, r) ==
    /\ raw' = [raw EXCEPT ![c] = NoRecord]
    /\ IF pc[c] = "read" /\ op[c] # "get"
       THEN /\ \E e \in {Never, now + Ttl} :
                  offer' = [offer EXCEPT ![c] = Replacement(c, op[c], r, e)]
            /\ seen' = [seen EXCEPT ![c] = life]
            /\ Goto(c, "cas") /\ Send(c, "watch")
       ELSE /\ Goto(c, IF pc[c] = "check" /\ r # NoRecord THEN "read" ELSE "returned")
            /\ Send(c, "get")
            /\ UNCHANGED <<offer, seen>>

Getting(c, command) == pc[c] \in {"check", "read"} /\ cmd[c] = command

Get(c) ==
    /\ Getting(c, "get")
    /\ IF _expired(record, now)
       THEN /\ raw' = [raw EXCEPT ![c] = record]
            /\ Send(c, "watch_expired")
            /\ UNCHANGED <<pc, offer, seen>>
       ELSE Answer(c, record)
    /\ UNCHANGED <<clock, record, life, dirty>>

WatchExpired(c) == Getting(c, "watch_expired") /\ Watch(c, "get_expired")

GetExpiredUnchecked(c) ==
    /\ Getting(c, "get_expired")
    /\ Send(c, "del")
    /\ UNCHANGED <<clock, record, life, pc, offer, seen, raw, dirty>>

(* "replaced concurrently: the new value wins" *)
GetExpired(c) ==
    /\ Getting(c, "get_expired")
    /\ IF record = raw[c]
       THEN Send(c, "del") /\ UNCHANGED <<pc, offer, seen, raw>>
       ELSE Answer(c, Live(record, now))
    /\ UNCHANGED <<clock, record, life, dirty>>

Del(c) == /\ Getting(c, "del")
          /\ Exec(c, NoRecord)
          /\ Answer(c, NoRecord)
          /\ UNCHANGED <<clock, life>>

-----------------------------------------------------------------------------
(* compare_and_set *)

Casing(c, command) == pc[c] = "cas" /\ cmd[c] = command

WatchCas(c) == Casing(c, "watch") /\ Watch(c, "get_cas")

(* A conflict ends the call, but update_data reads again. *)
GetCas(c) ==
    /\ Casing(c, "get_cas")
    /\ IF Live(record, now).revision = offer[c].revision
       THEN Send(c, "set") /\ UNCHANGED pc
       ELSE /\ Goto(c, IF op[c] = "update_data" THEN "read" ELSE "conflict")
            /\ Send(c, "get")
    /\ UNCHANGED <<clock, record, life, offer, seen, raw, dirty>>

Set(c, outcome) ==
    /\ Casing(c, "set")
    /\ Exec(c, Stored(offer[c]))
    /\ life' = IF offer[c].revision = 0 THEN life + 1 ELSE life
    /\ Goto(c, outcome) /\ Send(c, "get")
    /\ UNCHANGED <<clock, offer, seen, raw>>

-----------------------------------------------------------------------------
WatchErrorStale(c) ==
    /\ pc[c] \notin Ended
    /\ c \in dirty
    /\ cmd[c] \in {"del", "set"}
    /\ UNCHANGED redisVars

(* "except WatchError: continue" *)
WatchError(c) ==
    /\ pc[c] \notin Ended
    /\ c \in dirty
    /\ \/ cmd[c] = "del" /\ Send(c, "watch_expired")
       \/ cmd[c] = "set" /\ Send(c, "watch")
    /\ UNCHANGED <<clock, record, life, pc, offer, seen, raw, dirty>>

(* The call is cancelled, or a command fails, without effect ...           *)
CommandFails(c) ==
    /\ pc[c] \notin Ended
    /\ Goto(c, "raised") /\ Send(c, "get")
    /\ raw' = [raw EXCEPT ![c] = NoRecord]
    /\ UNCHANGED <<clock, record, life, offer, seen, dirty>>

(* ... or the transaction on its way is executed, and the answer is lost.  *)
AnswerLost(c) ==
    \/ Set(c, "unanswered")
    \/ /\ Getting(c, "del")
       /\ Exec(c, NoRecord)
       /\ Goto(c, "raised") /\ Send(c, "get")
       /\ raw' = [raw EXCEPT ![c] = NoRecord]
       /\ UNCHANGED <<clock, life, offer, seen>>

-----------------------------------------------------------------------------
Command(c) == \/ Get(c) \/ WatchExpired(c) \/ GetExpired(c) \/ Del(c)
              \/ WatchCas(c) \/ GetCas(c) \/ Set(c, "returned") \/ WatchError(c)

RedisNext ==
    RedisTick \/ Expire \/ \E c \in Calls : Command(c) \/ CommandFails(c) \/ AnswerLost(c)

RedisSpec == RedisInit /\ [][RedisNext]_redisVars

(* Redis answers. *)
FairRedis == RedisSpec /\ \A c \in Calls : WF_redisVars(Command(c))

-----------------------------------------------------------------------------
(* The six methods over Redis behave as over an atomic record store,       *)
(* whatever their commands do to one another, and whatever fails: no lazy  *)
(* deletion destroys a record that is not expired, no write is lost or     *)
(* resurrects what was deleted, except where FSMRecords says so.           *)
ImplementsRecords == Records!Spec

(* The retry loops of get_record, compare_and_set and update_data end,     *)
(* when those they conflict with do.                                       *)
CallsEnd == \A c \in Calls : <>(pc[c] \in Ended)
=============================================================================
