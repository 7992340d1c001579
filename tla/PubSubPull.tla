----------------------------- MODULE PubSubPull -----------------------------
(***************************************************************************)
(* The per-delivery state machine of PubSubPullRunner                      *)
(* (src/src/chattice/transports/pubsub_runner.py): claim -> handle ->      *)
(* answer -> complete -> ACK, with release and NACK or poison-ACK on       *)
(* failure, a renewal task beside it, several deliveries of one message    *)
(* under way at once, storage failures, cancellation and process crashes.  *)
(*                                                                         *)
(* The code between two awaits is one step.  The idempotency storage is    *)
(* used through its contract (see IdempotencyContract).  Owner tokens are  *)
(* unique, so a finished attempt's token is only known not to be anyone's: *)
(* Nobody.                                                                 *)
(*                                                                         *)
(* Time passes in ticks, for every lease and for every renewal task.  A    *)
(* renewal is due RenewInterval ticks after the storage granted or renewed *)
(* the claim, and reaches the storage at most Lateness ticks after that:   *)
(* the delay of the event loop, of the answer and of the command together. *)
(*                                                                         *)
(* Pub/Sub is external: it delivers a message again and again, also while  *)
(* an earlier delivery is under way, until it was acknowledged.            *)
(***************************************************************************)
EXTENDS Naturals

CONSTANTS Messages,
          Attempts,          \* bound: deliveries handled at the same time
          Nobody,            \* owner of claims whose attempt is over
          NoClaim,
          MaxDeliveryAttempts,  \* max_delivery_attempts
          HasDeliveryAttempt,\* the subscription has a dead-letter policy, so
                             \* that message.delivery_attempt is a number
          HasHooks,          \* observability hooks are configured
          HasBot,            \* a Bot is configured (answers can be sent)
          Lease,             \* _DEFAULT_LEASE_SECONDS, in ticks
          renew_interval,    \* the argument of that name, in ticks; 0: None
          Lateness,          \* bound: how many ticks late a renewal may be
          Durable,           \* the storage outlives the process (Redis)
          MaxFaults          \* bound: storage failures, cancels and crashes

ASSUME ConstantsAssumption ==
    /\ Nobody \notin Attempts
    /\ MaxDeliveryAttempts \in Nat /\ MaxDeliveryAttempts > 0
    /\ {HasDeliveryAttempt, HasHooks, HasBot, Durable} \subseteq BOOLEAN
    /\ Lease \in Nat /\ Lease > 0
    /\ renew_interval \in Nat /\ Lateness \in Nat
    /\ MaxFaults \in Nat

(* left: the ticks until lease_until. *)
Claim == [owner : Attempts \cup {Nobody}, left : 0 .. Lease,
          completed : BOOLEAN]

ASSUME NoClaimAssumption == NoClaim \notin Claim

VARIABLES acked,     \* messages Pub/Sub will not deliver any more
          delivered, \* deliveries of a message, up to MaxDeliveryAttempts
          claims,    \* the idempotency storage, by message
          pc,        \* where each attempt is: the await it is suspended in
          msg,       \* the message of an attempt
          tries,     \* its message.delivery_attempt
          renewal,   \* its renewal task runs
          waited,    \* ticks since the storage granted or renewed its claim
          settled,   \* what it told Pub/Sub: subset of {"ack", "nack"}
          result,    \* how the messages ended: outcomes reached so far
          faults

vars == <<acked, delivered, claims, pc, msg, tries, renewal, waited, settled,
          result, faults>>
broker == <<acked, delivered>>
identity == <<msg, tries>>
renewals == <<renewal, waited>>

RenewIntervalIsLease == IF renew_interval > 0 THEN renew_interval ELSE Lease

(* "renew_interval or (_DEFAULT_LEASE_SECONDS / 2)" *)
RenewInterval == IF renew_interval > 0 THEN renew_interval ELSE Lease \div 2

Steps == {"idle", "claim", "dispatch", "answer", "reject", "complete",
          "completeRejected", "ackedHook", "release", "poison", "nackedHook"}

Outcomes == {"handled", "rejected", "poisoned"}

TypeOK == /\ acked \in [Messages -> BOOLEAN]
          /\ delivered \in [Messages -> 0 .. MaxDeliveryAttempts]
          /\ claims \in [Messages -> Claim \cup {NoClaim}]
          /\ pc \in [Attempts -> Steps]
          /\ msg \in [Attempts -> Messages]
          /\ tries \in [Attempts -> 0 .. MaxDeliveryAttempts]
          /\ renewal \in [Attempts -> BOOLEAN]
          /\ waited \in [Attempts -> 0 .. RenewInterval + Lateness]
          /\ settled \in [Attempts -> SUBSET {"ack", "nack"}]
          /\ result \in [Messages -> SUBSET Outcomes]
          /\ faults \in 0 .. MaxFaults

Init == /\ acked = [m \in Messages |-> FALSE]
        /\ delivered = [m \in Messages |-> 0]
        /\ claims = [m \in Messages |-> NoClaim]
        /\ pc = [a \in Attempts |-> "idle"]
        /\ msg \in [Attempts -> Messages]
        /\ tries = [a \in Attempts |-> 0]
        /\ renewal = [a \in Attempts |-> FALSE]
        /\ waited = [a \in Attempts |-> 0]
        /\ settled = [a \in Attempts |-> {}]
        /\ result = [m \in Messages |-> {}]
        /\ faults = 0

Fault == faults < MaxFaults /\ faults' = faults + 1
NoFault == UNCHANGED faults

-----------------------------------------------------------------------------
(* The storage, as one attempt sees it. *)

Owns(a) == claims[msg[a]] # NoClaim /\ claims[msg[a]].owner = a

Recorded(a) == IF Owns(a) THEN [claims EXCEPT ![msg[a]].completed = TRUE]
                          ELSE claims

(* renew: the lease starts again, also one that was not pruned yet. *)
Renewable(a) == Owns(a) /\ ~claims[msg[a]].completed

Extended(a) == IF Renewable(a) THEN [claims EXCEPT ![msg[a]].left = Lease]
                               ELSE claims

Dropped(a) == IF Owns(a) THEN [claims EXCEPT ![msg[a]] = NoClaim] ELSE claims

(* The claims c once the tokens of the attempts in S are out of use. *)
Orphaned(c, S) ==
    [m \in Messages |-> IF c[m] # NoClaim /\ c[m].owner \in S
                        THEN [c[m] EXCEPT !.owner = Nobody] ELSE c[m]]

FreeFor(m) ==
    claims[m] # NoClaim => claims[m].left = 0 /\ ~claims[m].completed

Granted(a) == [claims EXCEPT ![msg[a]] =
                  [owner |-> a, left |-> Lease, completed |-> FALSE]]

-----------------------------------------------------------------------------
(* Ways a step of _handle ends. *)

Goto(a, step) == pc' = [pc EXCEPT ![a] = step]

Ack(a) == /\ settled' = [settled EXCEPT ![a] = @ \cup {"ack"}]
          /\ acked' = [acked EXCEPT ![msg[a]] = TRUE]

Nack(a) == /\ settled' = [settled EXCEPT ![a] = @ \cup {"nack"}]
           /\ UNCHANGED acked

Unsettled == UNCHANGED <<settled, acked>>

(* _handle returns or raises: the finally block has cancelled the renewal  *)
(* task.  c is the storage left behind.                                    *)
Leave(a, c) == /\ Goto(a, "idle")
               /\ renewal' = [renewal EXCEPT ![a] = FALSE]
               /\ waited' = [waited EXCEPT ![a] = 0]
               /\ claims' = Orphaned(c, {a})

Outcome(a, o) == result' = [result EXCEPT ![msg[a]] = @ \cup {o}]

-----------------------------------------------------------------------------
(* Pub/Sub hands a delivery to _schedule; _handle starts and calls claim.  *)
Deliver(m, a) ==
    /\ ~acked[m]
    /\ pc[a] = "idle"
    /\ delivered' = [delivered EXCEPT ![m] =
                       IF @ < MaxDeliveryAttempts THEN @ + 1 ELSE @]
    /\ msg' = [msg EXCEPT ![a] = m]
    /\ tries' = [tries EXCEPT ![a] = delivered'[m]]
    /\ settled' = [settled EXCEPT ![a] = {}]
    /\ Goto(a, "claim")
    /\ UNCHANGED <<acked, claims, renewals, result, faults>>

ClaimFirst(a) ==
    /\ pc[a] = "claim"
    /\ FreeFor(msg[a])
    /\ claims' = Granted(a)
    /\ renewal' = [renewal EXCEPT ![a] = TRUE]
    /\ Goto(a, "dispatch")
    /\ Unsettled /\ NoFault
    /\ UNCHANGED <<delivered, identity, waited, result>>

ClaimCompleted(a) ==
    /\ pc[a] = "claim"
    /\ ~FreeFor(msg[a])
    /\ claims[msg[a]].completed
    /\ Ack(a)
    /\ Leave(a, claims) /\ NoFault
    /\ UNCHANGED <<delivered, identity, result>>

ClaimActiveAcks(a) ==
    /\ pc[a] = "claim"
    /\ ~FreeFor(msg[a])
    /\ ~claims[msg[a]].completed
    /\ Ack(a)
    /\ Leave(a, claims) /\ NoFault
    /\ UNCHANGED <<delivered, identity, result>>

ClaimActive(a) ==
    /\ pc[a] = "claim"
    /\ ~FreeFor(msg[a])
    /\ ~claims[msg[a]].completed
    /\ Nack(a)
    /\ Leave(a, claims) /\ NoFault
    /\ UNCHANGED <<delivered, identity, result>>

(* claim raises: NACK.  The claim may have been recorded all the same. *)
ClaimFails(a) ==
    /\ pc[a] = "claim"
    /\ Fault
    /\ Nack(a)
    /\ \/ Leave(a, claims)
       \/ FreeFor(msg[a]) /\ Leave(a, Granted(a))
    /\ UNCHANGED <<delivered, identity, result>>

-----------------------------------------------------------------------------
DispatchedAndRecorded(a) ==
    /\ pc[a] = "dispatch"
    /\ Goto(a, "answer")
    /\ claims' = Recorded(a)
    /\ Unsettled /\ NoFault
    /\ UNCHANGED <<delivered, identity, renewals, result>>

(* parse and feed_update return an answer to send ... *)
Dispatched(a) ==
    /\ pc[a] = "dispatch"
    /\ Goto(a, "answer")
    /\ Unsettled /\ NoFault
    /\ UNCHANGED <<delivered, claims, identity, renewals, result>>

(* ... or one of parsing, the handler, the answer and the message that     *)
(* tells the space of a rejected capability raises.                        *)
WorkFails(a) ==
    /\ pc[a] \in {"dispatch", "answer", "reject"}
    /\ pc[a] # "dispatch" => HasBot
    /\ Goto(a, "release")
    /\ Unsettled /\ NoFault
    /\ UNCHANGED <<delivered, claims, identity, renewals, result>>

(* _answer: sent, or dropped because there is nothing to send or nobody to *)
(* send it to.                                                             *)
Answered(a) ==
    /\ pc[a] = "answer"
    /\ Outcome(a, "handled")
    /\ Goto(a, "complete")
    /\ Unsettled /\ NoFault
    /\ UNCHANGED <<delivered, claims, identity, renewals>>

(* _answer raises CapabilityNotSupported: a Dialog or ActionStatus result. *)
(* The space is told when there is a bot and a space.                      *)
Rejected(a) ==
    /\ pc[a] = "answer"
    /\ \/ HasBot /\ Goto(a, "reject") /\ UNCHANGED result
       \/ Goto(a, "completeRejected") /\ Outcome(a, "rejected")
    /\ Unsettled /\ NoFault
    /\ UNCHANGED <<delivered, claims, identity, renewals>>

RejectionSent(a) ==
    /\ pc[a] = "reject"
    /\ Outcome(a, "rejected")
    /\ Goto(a, "completeRejected")
    /\ Unsettled /\ NoFault
    /\ UNCHANGED <<delivered, claims, identity, renewals>>

-----------------------------------------------------------------------------
(* complete, then ACK.  complete does nothing for anyone but the owner.    *)
Complete(a) ==
    /\ pc[a] \in {"complete", "completeRejected"}
    /\ Ack(a)
    /\ IF pc[a] = "complete" /\ HasHooks
       THEN Goto(a, "ackedHook") /\ claims' = Recorded(a) /\ UNCHANGED renewals
       ELSE Leave(a, Recorded(a))
    /\ NoFault
    /\ UNCHANGED <<delivered, identity, result>>

(* complete raises, with or without having been recorded. *)
CompleteFails(a) ==
    /\ pc[a] \in {"complete", "completeRejected"}
    /\ Fault
    /\ claims' \in {claims, Recorded(a)}
    /\ Goto(a, "release")
    /\ Unsettled
    /\ UNCHANGED <<delivered, identity, renewals, result>>

AfterReleaseNeverPoison(a, c) ==
    /\ Nack(a)
    /\ IF HasHooks
       THEN Goto(a, "nackedHook") /\ claims' = c /\ UNCHANGED renewals
       ELSE Leave(a, c)

(* What follows the release of a failed attempt, c being the storage: the  *)
(* comparison of delivery_attempt with max_delivery_attempts raises when   *)
(* there is no number; the last attempt is poison; others are handed back. *)
AfterRelease(a, c) ==
    \/ /\ ~HasDeliveryAttempt
       /\ Unsettled /\ Leave(a, c)
    \/ /\ HasDeliveryAttempt /\ tries[a] >= MaxDeliveryAttempts
       /\ Goto(a, "poison") /\ claims' = c
       /\ Unsettled /\ UNCHANGED renewals
    \/ /\ HasDeliveryAttempt /\ tries[a] < MaxDeliveryAttempts
       /\ Nack(a)
       /\ IF HasHooks
          THEN Goto(a, "nackedHook") /\ claims' = c /\ UNCHANGED renewals
          ELSE Leave(a, c)

Release(a) ==
    /\ pc[a] = "release"
    /\ AfterRelease(a, Dropped(a))
    /\ NoFault
    /\ UNCHANGED <<delivered, identity, result>>

(* release raises (it is logged), with or without having taken effect. *)
ReleaseFails(a) ==
    /\ pc[a] = "release"
    /\ Fault
    /\ \E c \in {claims, Dropped(a)} : AfterRelease(a, c)
    /\ UNCHANGED <<delivered, identity, result>>

(* _notify_poison is over, successful or not. *)
PoisonAck(a) ==
    /\ pc[a] = "poison"
    /\ Outcome(a, "poisoned")
    /\ Ack(a)
    /\ Leave(a, claims) /\ NoFault
    /\ UNCHANGED <<delivered, identity>>

HookReturns(a) ==
    /\ pc[a] \in {"ackedHook", "nackedHook"}
    /\ Leave(a, claims)
    /\ Unsettled /\ NoFault
    /\ UNCHANGED <<delivered, identity, result>>

-----------------------------------------------------------------------------
(* The renewal task: it sleeps for RenewInterval, renews, and starts over. *)

RenewalIsDue(a) == renewal[a] /\ waited[a] >= RenewInterval

(* renew answers True: the lease starts again. *)
Renewed(a) ==
    /\ RenewalIsDue(a)
    /\ Renewable(a)
    /\ claims' = Extended(a)
    /\ waited' = [waited EXCEPT ![a] = 0]
    /\ UNCHANGED <<broker, pc, identity, renewal, settled, result, faults>>

(* renew answers False, or raises with or without having taken effect: the *)
(* loop ends, the attempt goes on.                                         *)
RenewalStops(a) ==
    /\ RenewalIsDue(a)
    /\ \/ ~Renewable(a) /\ UNCHANGED claims /\ NoFault
       \/ Fault /\ claims' \in {claims, Extended(a)}
    /\ renewal' = [renewal EXCEPT ![a] = FALSE]
    /\ waited' = [waited EXCEPT ![a] = 0]
    /\ UNCHANGED <<broker, pc, identity, settled, result>>

Renews(a) == Renewed(a) \/ RenewalStops(a)

-----------------------------------------------------------------------------
Older(c) == IF c # NoClaim /\ c.left > 0 THEN [c EXCEPT !.left = @ - 1] ELSE c

(* A tick of the clock: every lease runs down and every renewal task has   *)
(* slept a tick more; none is later than Lateness.                         *)
Tick ==
    /\ \A a \in Attempts : renewal[a] => waited[a] < RenewInterval + Lateness
    /\ claims' = [m \in Messages |-> Older(claims[m])]
    /\ waited' = [a \in Attempts |-> IF renewal[a] THEN waited[a] + 1
                                                  ELSE waited[a]]
    /\ UNCHANGED <<broker, pc, identity, renewal, settled, result, faults>>

(* The storage drops the document of a lapsed lease. *)
Prune(m) ==
    /\ claims[m] # NoClaim
    /\ claims[m].left = 0 /\ ~claims[m].completed
    /\ claims' = [claims EXCEPT ![m] = NoClaim]
    /\ UNCHANGED <<broker, pc, identity, renewals, settled, result, faults>>

-----------------------------------------------------------------------------
(* The attempt's task is cancelled while it is suspended (close() was      *)
(* cancelled while it drained, or the loop shuts down).  Only awaits       *)
(* inside the try block are covered by "except CancelledError: nack"; the  *)
(* claim and the awaits of the failure branch are not.  A storage command  *)
(* on its way may still be executed.                                       *)
Cancelled(a) ==
    /\ pc[a] # "idle"
    /\ Fault
    /\ IF pc[a] \in {"dispatch", "answer", "reject", "complete",
                     "completeRejected", "ackedHook"}
       THEN Nack(a) ELSE Unsettled
    /\ \/ Leave(a, claims)
       \/ pc[a] = "claim" /\ FreeFor(msg[a]) /\ Leave(a, Granted(a))
       \/ pc[a] \in {"complete", "completeRejected"} /\ Leave(a, Recorded(a))
       \/ pc[a] = "release" /\ Leave(a, Dropped(a))
    /\ UNCHANGED <<delivered, identity, result>>

(* The process dies: every attempt is gone, and with it a process-local    *)
(* storage.                                                                *)
Crash ==
    /\ Fault
    /\ pc' = [a \in Attempts |-> "idle"]
    /\ renewal' = [a \in Attempts |-> FALSE]
    /\ waited' = [a \in Attempts |-> 0]
    /\ claims' = IF Durable THEN Orphaned(claims, Attempts)
                 ELSE [m \in Messages |-> NoClaim]
    /\ UNCHANGED <<broker, identity, settled, result>>

-----------------------------------------------------------------------------
(* The loop resumes a suspended attempt. *)
Resumes(a) ==
    \/ ClaimFirst(a) \/ ClaimCompleted(a) \/ ClaimActive(a)
    \/ Dispatched(a) \/ WorkFails(a)
    \/ Answered(a) \/ Rejected(a) \/ RejectionSent(a)
    \/ Complete(a) \/ Release(a) \/ PoisonAck(a) \/ HookReturns(a)

Interrupted(a) ==
    \/ ClaimFails(a) \/ CompleteFails(a) \/ ReleaseFails(a) \/ Cancelled(a)

Next == \/ \E m \in Messages : \/ \E a \in Attempts : Deliver(m, a)
                               \/ Prune(m)
        \/ \E a \in Attempts : Resumes(a) \/ Interrupted(a) \/ Renews(a)
        \/ Tick \/ Crash

Spec == Init /\ [][Next]_vars

(* Handlers, API calls and storage commands end (with any result), sleeps  *)
(* end, the clock goes on, and Pub/Sub redelivers.                         *)
FairSpec == /\ Spec
            /\ \A a \in Attempts : WF_vars(Resumes(a)) /\ WF_vars(Renews(a))
            /\ WF_vars(Tick)
            /\ \A m \in Messages : WF_vars(\E a \in Attempts : Deliver(m, a))

-----------------------------------------------------------------------------
(* The attempt runs user code or sends for a FIRST claim. *)
Working(a) == pc[a] \in {"dispatch", "answer", "reject", "complete",
                         "completeRejected"}

(* At-least-once: a message Pub/Sub was told to forget has had its handler *)
(* run to the end with the answer sent, or its rejection, or its last      *)
(* permitted attempt fail - across duplicates absorbed on the strength of  *)
(* another attempt's record, lost leases, storage failures and crashes.    *)
NoSilentLoss == \A m \in Messages : acked[m] => result[m] # {}

(* The record other attempts absorb duplicates by is never ahead of the    *)
(* work: only an answered or rejected delivery is recorded as completed.   *)
RecordedIsDone ==
    \A m \in Messages :
        claims[m] # NoClaim /\ claims[m].completed
            => result[m] \cap {"handled", "rejected"} # {}

(* "A valid long handler must not be reclaimed by an expired lease": of    *)
(* two attempts working on one message, one has lost its renewal task.     *)
(* The renewals must come often enough for that, and the clock goes on     *)
(* beside the handler.                                                     *)
LongHandlerKeepsClaim ==
    \A a, b \in Attempts :
        Working(a) /\ Working(b) /\ renewal[a] /\ renewal[b] /\ msg[a] = msg[b]
            => a = b

(* "... so the message cannot redeliver forever": handlers that always     *)
(* fail, storage failures, cancellations and crashes included, every       *)
(* message is acknowledged in the end.                                     *)
EventuallyAcked == \A m \in Messages : <>acked[m]

(* "The same delivery is NEVER both ACKed and NACKed": the code does not    *)
(* keep it, an attempt cancelled in its delivery_acked hook does both.     *)
NeverBoth == \A a \in Attempts : settled[a] # {"ack", "nack"}

(* "Any pre-completion failure: owner-checked release, then NACK - or      *)
(* poison-ACK": a failed attempt that is not cancelled settles.            *)
FailuresSettle ==
    \A a \in Attempts : pc[a] = "release" ~> settled[a] # {}

(* "complete the claim, THEN ack (completion failure would otherwise leave *)
(* an acked-but-unrecorded delivery)": the ACK of a completed attempt      *)
(* finds the completion on record.  The code does not keep it: complete()  *)
(* does nothing for an attempt that lost its claim, and ACK follows.       *)
AckedIsRecorded ==
    [][\A a \in Attempts :
          pc[a] \in {"complete", "completeRejected"}
          /\ settled[a] = {} /\ settled'[a] = {"ack"}
             => /\ claims'[msg[a]] # NoClaim
                /\ claims'[msg[a]].completed]_vars
=============================================================================
