------------------------- MODULE MemoryIdempotency -------------------------
(***************************************************************************)
(* MemoryIdempotencyStorage of src/src/chattice/idempotency.py, used by    *)
(* attempts (owners) that may each claim one key.  Every operation holds   *)
(* the key's asyncio lock from its first read to its last write and awaits *)
(* nothing in between, so each is one step.  Documents of lapsed leases    *)
(* are dropped only when the next claim looks at them, and completed ones  *)
(* never.                                                                  *)
(*                                                                         *)
(* The module implements IdempotencyContract, whose variables and clock it *)
(* has: claims is self._claims, now is self._clock().                      *)
(***************************************************************************)
EXTENDS IdempotencyContract

claim(o) ==
    LET k == keyOf[o]
        answer == Outcome(claims[k], now) IN
    /\ phase[o] = "new"
    /\ claims' = [claims EXCEPT ![k] = Claimed(@, o, now + Lease, now)]
    /\ IF answer = "FIRST"
       THEN /\ phase' = [phase EXCEPT ![o] = "first"]
            /\ until' = [until EXCEPT ![o] = now + Lease]
       ELSE /\ phase' = [phase EXCEPT ![o] =
                           IF answer = "COMPLETED" THEN "completed" ELSE "active"]
            /\ UNCHANGED until
    /\ UNCHANGED <<now, keyOf>>

complete(o) ==
    /\ phase[o] = "first"
    /\ claims' = [claims EXCEPT ![keyOf[o]] = Completed(@, o)]
    /\ phase' = [phase EXCEPT ![o] = "done"]
    /\ UNCHANGED <<now, keyOf, until>>

release(o) ==
    /\ phase[o] = "first"
    /\ claims' = [claims EXCEPT ![keyOf[o]] = Released(@, o)]
    /\ phase' = [phase EXCEPT ![o] = "released"]
    /\ UNCHANGED <<now, keyOf, until>>

renewWithoutOwning(o) ==
    /\ phase[o] \in {"first", "done", "released"}
    /\ claims' = [claims EXCEPT ![keyOf[o]] = Renewed(@, o, now + Lease)]
    /\ until' = [until EXCEPT ![o] = now + Lease]
    /\ UNCHANGED <<now, phase, keyOf>>

(* The renewal task runs beside the attempt until the attempt's finally    *)
(* block has cancelled it, so a renewal may come after complete/release.   *)
renew(o) ==
    LET c == claims[keyOf[o]] IN
    /\ phase[o] \in {"first", "done", "released"}
    /\ claims' = [claims EXCEPT ![keyOf[o]] = Renewed(@, o, now + Lease)]
    /\ until' = [until EXCEPT ![o] = IF Renewable(c, o) THEN now + Lease ELSE @]
    /\ UNCHANGED <<now, phase, keyOf>>

(* An attempt that is cancelled (Abandon) leaves its claim to its lease.   *)
MemoryNext == \/ Tick
              \/ \E o \in Owners : \/ claim(o) \/ complete(o) \/ release(o)
                                   \/ renew(o) \/ Abandon(o)

MemorySpec == Init /\ [][MemoryNext]_vars

-----------------------------------------------------------------------------
(* The process-local store keeps every promise of the storage contract:    *)
(* each of its operations is an operation of IdempotencyContract, and its  *)
(* lazy pruning is a lapse followed by a grant.                            *)
ImplementsContract == Spec
=============================================================================
