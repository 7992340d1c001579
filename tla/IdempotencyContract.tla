------------------------ MODULE IdempotencyContract ------------------------
(***************************************************************************)
(* What an IdempotencyStorage promises the delivery transports (the        *)
(* Protocol class of idempotency.py and the module's docstring): claimed   *)
(* (owner, lease) -> completed.  Each storage operation is one atomic      *)
(* step here, however many messages a real storage needs for it; documents *)
(* may disappear when their time is over, and a caller may stop, be        *)
(* cancelled, or never hear the answer of what it asked.                   *)
(*                                                                         *)
(* An owner is one delivery attempt.  Its phase is what the attempt knows: *)
(*   new        has not called claim yet                                   *)
(*   first      claim answered FIRST: the attempt runs the handler         *)
(*   completed  claim answered COMPLETED                                   *)
(*   active     claim answered ACTIVE                                      *)
(*   done       complete returned                                          *)
(*   unsure     complete raised: it may or may not have taken effect       *)
(*   released   release was called (it may have raised)                    *)
(*   gone       the attempt was cancelled, crashed, or its claim raised    *)
(* until[o] is the end of the lease the attempt knows it obtained.         *)
(***************************************************************************)
EXTENDS ClaimRecords

CONSTANTS Lease,    \* length of a lease, in ticks of the clock
          MaxTime   \* bound: the clock stops here

ASSUME LeaseAssumption == Lease \in Nat /\ Lease > 0
ASSUME MaxTimeAssumption == MaxTime \in Nat

VARIABLES claims,   \* the storage: a document or NoClaim for every key
          now,      \* the clock the storage and its callers read
          phase,    \* what each attempt knows of its own delivery
          keyOf,    \* the key an attempt claims
          until     \* end of the lease an attempt knows it obtained

vars == <<claims, now, phase, keyOf, until>>
callers == <<phase, keyOf, until>>

Phases == {"new", "first", "completed", "active", "done", "unsure",
           "released", "gone"}

TypeOK == /\ claims \in [Keys -> Claim \cup {NoClaim}]
          /\ now \in Nat
          /\ phase \in [Owners -> Phases]
          /\ keyOf \in [Owners -> Keys]
          /\ until \in [Owners -> Nat]

Init == /\ claims = [k \in Keys |-> NoClaim]
        /\ now = 0
        /\ phase = [o \in Owners |-> "new"]
        /\ keyOf \in [Owners -> Keys]
        /\ until = [o \in Owners |-> 0]

-----------------------------------------------------------------------------
(* Time and expiry. *)

Tick == /\ now < MaxTime
        /\ now' = now + 1
        /\ UNCHANGED <<claims, callers>>

(* A storage may drop the document of a lapsed lease at any later time.    *)
Lapse(k) == /\ Lapsed(claims[k], now)
            /\ claims' = [claims EXCEPT ![k] = NoClaim]
            /\ UNCHANGED <<now, callers>>

(* A storage may retain completed documents for a limited time only.       *)
Forget(k) == /\ claims[k] # NoClaim
             /\ claims[k].completed
             /\ claims' = [claims EXCEPT ![k] = NoClaim]
             /\ UNCHANGED <<now, callers>>

-----------------------------------------------------------------------------
(* claim *)

(* The key is free: o becomes its owner.  The lease was computed from a    *)
(* clock read at or before this step.  If the answer is lost the document  *)
(* stays behind with nobody working for it.                                *)
Grant(o) ==
    LET k == keyOf[o] IN
    /\ phase[o] \in {"new", "gone"}
    /\ Outcome(claims[k], now) = "FIRST"
    /\ \E t \in 0 .. now + Lease :
          /\ claims' = [claims EXCEPT ![k] = Fresh(o, t)]
          /\ \/ /\ phase[o] = "new"
                /\ phase' = [phase EXCEPT ![o] = "first"]
                /\ until' = [until EXCEPT ![o] = t]
             \/ /\ phase' = [phase EXCEPT ![o] = "gone"]
                /\ UNCHANGED until
    /\ UNCHANGED <<now, keyOf>>

Refuse(o) ==
    /\ phase[o] = "new"
    /\ Outcome(claims[keyOf[o]], now) # "FIRST"
    /\ phase' = [phase EXCEPT ![o] =
                   IF Outcome(claims[keyOf[o]], now) = "COMPLETED"
                   THEN "completed" ELSE "active"]
    /\ UNCHANGED <<claims, now, keyOf, until>>

-----------------------------------------------------------------------------
(* complete, release, renew: they touch the caller's own claim only.       *)

Complete(o) ==
    /\ phase[o] \in {"first", "gone"}
    /\ claims' = [claims EXCEPT ![keyOf[o]] = Completed(@, o)]
    /\ \/ phase[o] = "first" /\ phase' = [phase EXCEPT ![o] = "done"]
       \/ phase[o] = "first" /\ phase' = [phase EXCEPT ![o] = "unsure"]
       \/ phase[o] = "gone" /\ UNCHANGED phase
    /\ UNCHANGED <<now, keyOf, until>>

(* complete raised and nothing was recorded. *)
CompleteFails(o) ==
    /\ phase[o] = "first"
    /\ phase' = [phase EXCEPT ![o] = "unsure"]
    /\ UNCHANGED <<claims, now, keyOf, until>>

Release(o) ==
    /\ phase[o] \in {"first", "unsure", "gone"}
    /\ claims' = [claims EXCEPT ![keyOf[o]] = Released(@, o)]
    /\ phase' = [phase EXCEPT ![o] = IF @ = "gone" THEN "gone" ELSE "released"]
    /\ UNCHANGED <<now, keyOf, until>>

(* release raised and the document is still there. *)
ReleaseFails(o) ==
    /\ phase[o] \in {"first", "unsure"}
    /\ phase' = [phase EXCEPT ![o] = "released"]
    /\ UNCHANGED <<claims, now, keyOf, until>>

(* The renewal of an attempt runs beside its main flow, so it may still    *)
(* arrive when the attempt is over.  The lease is never shortened.         *)
Renew(o) ==
    LET k == keyOf[o] IN
    /\ phase[o] \notin {"new", "completed", "active"}
    /\ Renewable(claims[k], o)
    /\ \E t \in claims[k].lease_until .. now + Lease :
          /\ claims' = [claims EXCEPT ![k] = Renewed(@, o, t)]
          /\ until' \in {until, [until EXCEPT ![o] = t]}
    /\ UNCHANGED <<now, phase, keyOf>>

(* Cancellation or a crash of the attempt, at any point. *)
Abandon(o) ==
    /\ phase[o] \in {"new", "first", "unsure"}
    /\ phase' = [phase EXCEPT ![o] = "gone"]
    /\ UNCHANGED <<claims, now, keyOf, until>>

-----------------------------------------------------------------------------
OwnerStep(o) == \/ Grant(o) \/ Refuse(o)
                \/ Complete(o) \/ CompleteFails(o)
                \/ Release(o) \/ ReleaseFails(o)
                \/ Renew(o) \/ Abandon(o)

Next == \/ Tick
        \/ \E k \in Keys : Lapse(k) \/ Forget(k)
        \/ \E o \in Owners : OwnerStep(o)

Spec == Init /\ [][Next]_vars

-----------------------------------------------------------------------------
(* The attempt is entitled to run its handler: it was told FIRST and the   *)
(* lease it knows of has not run out.                                      *)
Holds(o) == phase[o] = "first" /\ now < until[o]

(* "Never two owners": two attempts for one key never hold a running lease *)
(* at the same time, however claims, takeovers of lapsed leases, renewals, *)
(* releases and lost answers interleave (claim and renew of                *)
(* IdempotencyStorage).                                                    *)
OneLiveOwner ==
    \A o1, o2 \in Owners :
        Holds(o1) /\ Holds(o2) /\ keyOf[o1] = keyOf[o2] => o1 = o2

(* Why there are never two: what an attempt believes is on record.  Its    *)
(* document is uncompleted, names it as the owner and runs at least as     *)
(* long as the attempt believes.                                           *)
HolderRecorded ==
    \A o \in Owners : Holds(o) =>
        /\ Renewable(claims[keyOf[o]], o)
        /\ until[o] <= claims[keyOf[o]].lease_until

(* An attempt that completes while its lease is running is recorded: no    *)
(* other caller's claim, release or completion can have turned its         *)
(* complete() into the silent no-op it is for anyone but the owner.        *)
CompletionRecorded ==
    [][\A o \in Owners :
          Holds(o) /\ phase'[o] = "done"
             => /\ OwnedBy(claims'[keyOf[o]], o)
                /\ claims'[keyOf[o]].completed]_vars

(* Completed work "keeps absorbing duplicates": no claim, renewal or       *)
(* release of another owner reopens a completed document or hands it to    *)
(* somebody else; it only ever disappears.                                 *)
CompletedIsFinal ==
    [][\A k \in Keys :
          claims[k] # NoClaim /\ claims[k].completed
             => claims'[k] \in {claims[k], NoClaim}]_vars
=============================================================================
