----------------------------- MODULE PubSubPush -----------------------------
(***************************************************************************)
(* The push endpoints (src/src/chattice/integrations/fastapi/router.py):   *)
(* create_pubsub_router and create_workspace_events_router share           *)
(* _PushDeliveryCoordinator, and so this module.  A request is verified    *)
(* and parsed, claims its message, runs the handlers, completes or         *)
(* releases the claim, and answers: a 2xx acknowledges the message.  There *)
(* is no renewal, and a request may be cancelled at every await.           *)
(*                                                                         *)
(* The module composes the endpoint with the storage it calls: every step  *)
(* that waits for the storage is a step of IdempotencyContract for the     *)
(* same owner, and the contract's clock and expiry go on beside it.        *)
(* Messages are the contract's Keys, requests its Owners (new_owner makes  *)
(* a token per request).  The storage is one that outlives the process, so *)
(* a crash is the cancellation of the requests under way.                  *)
(*                                                                         *)
(* Pub/Sub is external: it posts a message again and again, also while an  *)
(* earlier request is under way, until a 2xx answer of it arrived.         *)
(***************************************************************************)
EXTENDS IdempotencyContract

CONSTANTS Invalid,  \* messages whose body or envelope cannot be parsed
          Unkeyed   \* messages without messageId (all, if the router has no
                    \* storage): they are not deduplicated

ASSUME MessagesAssumption == Invalid \subseteq Keys /\ Unkeyed \subseteq Keys

VARIABLES pc,       \* per request: the await it is suspended in
          acked,    \* messages Pub/Sub will not post any more
          handled,  \* messages whose handlers returned at least once
          ran,      \* requests that started the handlers
          spoiled   \* those of them whose run cannot absorb duplicates

push == <<pc, acked, handled, ran, spoiled>>
pushVars == <<vars, push>>

(* "late_": the request is over, but the storage command it was waiting    *)
(* for may still take effect.                                              *)
Late == {"late_claim", "late_complete", "late_release"}
Awaits == {"verify", "claim", "dispatch", "complete", "release"}

PushTypeOK == /\ TypeOK
              /\ pc \in [Owners -> Awaits \cup Late \cup {"idle", "over"}]
              /\ acked \subseteq Keys
              /\ handled \subseteq Keys
              /\ ran \subseteq Owners
              /\ spoiled \subseteq Owners

PushInit == /\ Init
            /\ pc = [r \in Owners |-> "idle"]
            /\ acked = {} /\ handled = {} /\ ran = {} /\ spoiled = {}

Goto(r, step) == pc' = [pc EXCEPT ![r] = step]

(* The answer is sent.  Only a 2xx that arrives acknowledges the message.  *)
Respond(r, status) ==
    /\ Goto(r, "over")
    /\ acked' \in {acked} \cup
          (IF status = 204 THEN {acked \cup {keyOf[r]}} ELSE {})

Dispatch(r) == Goto(r, "dispatch") /\ ran' = ran \cup {r}

-----------------------------------------------------------------------------
(* Verification, parsing, claim *)

Post(r) == /\ pc[r] = "idle"
           /\ keyOf[r] \notin acked
           /\ Goto(r, "verify")
           /\ UNCHANGED <<vars, acked, handled, ran, spoiled>>

(* 401 or 400: any message may fail verification, an invalid one never     *)
(* gets further than parsing.                                              *)
Refused(r) == /\ pc[r] = "verify"
              /\ Respond(r, 400)
              /\ UNCHANGED <<vars, handled, ran, spoiled>>

Parsed(r) == /\ pc[r] = "verify"
             /\ keyOf[r] \notin Invalid \cup Unkeyed
             /\ Goto(r, "claim")
             /\ UNCHANGED <<vars, acked, handled, ran, spoiled>>

ParsedUnkeyed(r) == /\ pc[r] = "verify"
                    /\ keyOf[r] \in Unkeyed \ Invalid
                    /\ Dispatch(r)
                    /\ UNCHANGED <<vars, acked, handled, spoiled>>

ClaimFirst(r) == /\ pc[r] = "claim"
                 /\ Grant(r) /\ phase'[r] = "first"
                 /\ Dispatch(r)
                 /\ UNCHANGED <<acked, handled, spoiled>>

(* COMPLETED -> 204, ACTIVE -> 429 *)
ClaimRefused(r) ==
    /\ pc[r] = "claim"
    /\ Refuse(r)
    /\ Respond(r, IF phase'[r] = "completed" THEN 204 ELSE 429)
    /\ UNCHANGED <<handled, ran, spoiled>>

(* claim raises: 500.  It may have taken effect, or do so later. *)
ClaimRaises(r) ==
    /\ pc[r] = "claim"
    /\ Abandon(r)
    /\ Goto(r, "late_claim")
    /\ UNCHANGED <<acked, handled, ran, spoiled>>

-----------------------------------------------------------------------------
(* Dispatch, complete, release *)

HandlerReturns(r) ==
    /\ pc[r] = "dispatch"
    /\ handled' = handled \cup {keyOf[r]}
    /\ IF keyOf[r] \in Unkeyed THEN Respond(r, 204)
                               ELSE Goto(r, "complete") /\ UNCHANGED acked
    /\ UNCHANGED <<vars, ran, spoiled>>

HandlerRaisesUnnoticed(r) ==
    /\ pc[r] = "dispatch"
    /\ IF keyOf[r] \in Unkeyed THEN Respond(r, 204)
                               ELSE Goto(r, "complete") /\ UNCHANGED acked
    /\ UNCHANGED <<vars, handled, ran, spoiled>>

HandlerRaises(r) ==
    /\ pc[r] = "dispatch"
    /\ spoiled' = spoiled \cup {r}
    /\ IF keyOf[r] \in Unkeyed THEN Respond(r, 500)
                               ELSE Goto(r, "release") /\ UNCHANGED acked
    /\ UNCHANGED <<vars, handled, ran>>

(* complete returns, or raises having taken effect: 204 either way.  It is *)
(* a silent no-op for a request whose lease lapsed.                        *)
Completes(r) ==
    /\ pc[r] = "complete"
    /\ Complete(r)
    /\ Respond(r, 204)
    /\ spoiled' = IF OwnedBy(claims[keyOf[r]], r) THEN spoiled
                                                  ELSE spoiled \cup {r}
    /\ UNCHANGED <<handled, ran>>

(* complete raises without effect: logged, and 204 all the same.           *)
CompleteRaises(r) ==
    /\ pc[r] = "complete"
    /\ CompleteFails(r)
    /\ Respond(r, 204)
    /\ spoiled' = spoiled \cup {r}
    /\ UNCHANGED <<handled, ran>>

(* The failed claim is released, or release raises and is logged: 500.     *)
Releases(r) ==
    /\ pc[r] = "release"
    /\ Release(r) \/ ReleaseFails(r)
    /\ Respond(r, 500)
    /\ UNCHANGED <<handled, ran, spoiled>>

(* Client disconnect, server shutdown or crash.  CancelledError is no      *)
(* Exception: nothing is released and nothing is answered.                 *)
Cancelled(r) ==
    /\ pc[r] \in Awaits
    /\ Abandon(r)
    /\ Goto(r, CASE pc[r] = "claim" -> "late_claim"
                 [] pc[r] = "complete" -> "late_complete"
                 [] pc[r] = "release" -> "late_release"
                 [] OTHER -> "over")
    /\ spoiled' = IF r \in ran THEN spoiled \cup {r} ELSE spoiled
    /\ UNCHANGED <<acked, handled, ran>>

(* The command of a request that is over takes effect. *)
LateEffect(r) ==
    /\ \/ pc[r] = "late_claim" /\ Grant(r)
       \/ pc[r] = "late_complete" /\ Complete(r)
       \/ pc[r] = "late_release" /\ Release(r)
    /\ Goto(r, "over")
    /\ UNCHANGED <<acked, handled, ran, spoiled>>

-----------------------------------------------------------------------------
(* The storage drops what it may drop.  A completed run whose document is  *)
(* forgotten absorbs no duplicates any more.                               *)
Expiry(k) ==
    /\ Lapse(k) \/ Forget(k)
    /\ spoiled' = IF claims[k].completed THEN spoiled \cup {claims[k].owner}
                                         ELSE spoiled
    /\ UNCHANGED <<pc, acked, handled, ran>>

Request(r) == \/ Post(r) \/ Refused(r) \/ Parsed(r) \/ ParsedUnkeyed(r)
              \/ ClaimFirst(r) \/ ClaimRefused(r) \/ ClaimRaises(r)
              \/ HandlerReturns(r) \/ HandlerRaises(r)
              \/ Completes(r) \/ CompleteRaises(r) \/ Releases(r)
              \/ Cancelled(r) \/ LateEffect(r)

PushNext == \/ Tick /\ UNCHANGED push
            \/ \E k \in Keys : Expiry(k)
            \/ \E r \in Owners : Request(r)

PushSpec == PushInit /\ [][PushNext]_pushVars

-----------------------------------------------------------------------------
(* "incomplete work is never acknowledged": a 2xx answer, whether from the *)
(* request that did the work or from a duplicate absorbed as COMPLETED,    *)
(* means that the handlers of that message returned.                       *)
AckedMeansHandled == acked \subseteq handled

(* What absorbs duplicates is never ahead of the work: a completed record  *)
(* exists only for handled messages, and none for an invalid envelope,     *)
(* which would be "swallowed as a duplicate on retry".                     *)
RecordedMeansHandled ==
    \A k \in Keys : claims[k] # NoClaim /\ claims[k].completed => k \in handled

(* The handlers of a message run again only for a reason.  Of all its runs *)
(* at most one is neither over its lease, failed, cancelled, unrecorded    *)
(* (complete raised, or came after the claim was lost) nor forgotten: the  *)
(* endpoint of itself never handles a message twice, however requests      *)
(* overlap and redeliveries race the answer.                               *)
Absorbing(r) == /\ r \in ran \ spoiled
                /\ pc[r] \in {"dispatch", "complete"} => now < until[r]

HandledOnce ==
    \A r1, r2 \in Owners :
        /\ Absorbing(r1) /\ Absorbing(r2)
        /\ keyOf[r1] = keyOf[r2] /\ keyOf[r1] \notin Unkeyed
        => r1 = r2
=============================================================================
