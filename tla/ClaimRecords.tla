---------------------------- MODULE ClaimRecords ----------------------------
(***************************************************************************)
(* The claim documents of chattice's idempotency storages                  *)
(* (src/src/chattice/idempotency.py) and the decisions the storages take   *)
(* on one of them.  A key either has no document (NoClaim) or one with an  *)
(* owner, the instant its lease ends and whether the work was completed.   *)
(* Everything here is a pure function of one document: the state machines  *)
(* MemoryIdempotency and RedisIdempotency apply these decisions in one     *)
(* step or in several.                                                     *)
(***************************************************************************)
EXTENDS Naturals

CONSTANTS Keys,     \* delivery keys, "<subscription>:<message id>"
          Owners,   \* owner tokens; new_owner() makes one per attempt
          NoClaim   \* the storage has no document for the key

Claim == [owner : Owners, lease_until : Nat, completed : BOOLEAN]

ASSUME NoClaimAssumption == NoClaim \notin Claim

(* Faulty variants, named for what is wrong with them, stand before the    *)
(* definition they vary; only the mutation runs use them.                  *)
LapsedEarly(c, now) == c # NoClaim /\ ~c.completed /\ c.lease_until <= now + 1
(* A claim whose lease has run out before the work was completed.          *)
Lapsed(c, now) == /\ c # NoClaim
                  /\ ~c.completed
                  /\ c.lease_until <= now

(* _prune_expired *)
Pruned(c, now) == IF Lapsed(c, now) THEN NoClaim ELSE c

OwnedBy(c, o) == c # NoClaim /\ c.owner = o

(* ClaimResult: what claim() answers for a document found in the store.    *)
Outcome(c, now) ==
    CASE Pruned(c, now) = NoClaim -> "FIRST"
      [] Pruned(c, now) # NoClaim /\ c.completed -> "COMPLETED"
      [] OTHER -> "ACTIVE"

(* The document a winning claim() writes. *)
Fresh(o, leaseUntil) ==
    [owner |-> o, lease_until |-> leaseUntil, completed |-> FALSE]

Claimed(c, o, leaseUntil, now) ==
    IF Outcome(c, now) = "FIRST" THEN Fresh(o, leaseUntil) ELSE c

Completed(c, o) ==
    IF OwnedBy(c, o) THEN [c EXCEPT !.completed = TRUE] ELSE c

ReleasedByAnyone(c, o) == NoClaim

Released(c, o) == IF OwnedBy(c, o) THEN NoClaim ELSE c

Renewable(c, o) == OwnedBy(c, o) /\ ~c.completed

Renewed(c, o, leaseUntil) ==
    IF Renewable(c, o) THEN [c EXCEPT !.lease_until = leaseUntil] ELSE c
=============================================================================
