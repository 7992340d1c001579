--------------------- MODULE IdempotencyContract_proofs ---------------------
(***************************************************************************)
(* What every storage that keeps the contract of IdempotencyContract       *)
(* guarantees, for any sets of keys and owners, any lease and any time;    *)
(* then that MemoryIdempotency keeps it, and what the endpoints of         *)
(* PubSubPush guarantee that use such a storage.  Both extend the          *)
(* contract; the first part speaks of its variables alone.                 *)
(*                                                                         *)
(* OneLiveOwner speaks of what callers believe; it is not inductive        *)
(* because nothing in it ties a belief to the storage.  HolderRecorded     *)
(* does: whoever believes to hold a running lease is the owner on record,  *)
(* of an uncompleted document that runs at least as long.                  *)
(***************************************************************************)
EXTENDS MemoryIdempotency, PubSubPush, TLAPS

IInv == TypeOK /\ HolderRecorded

-----------------------------------------------------------------------------
(* Shapes of the documents the storage operations write.                   *)

LEMMA DocumentTypes ==
    ASSUME NEW c \in Claim \cup {NoClaim}, NEW o \in Owners, NEW t \in Nat
    PROVE  /\ Fresh(o, t) \in Claim
           /\ Completed(c, o) \in Claim \cup {NoClaim}
           /\ Released(c, o) \in Claim \cup {NoClaim}
           /\ Renewed(c, o, t) \in Claim \cup {NoClaim}
  BY DEF Claim, Fresh, Completed, Released, Renewed, Renewable, OwnedBy

(* Nobody but its owner changes a document by complete, release or renew.  *)
LEMMA OnlyTheOwner ==
    ASSUME NEW c \in Claim \cup {NoClaim}, NEW o \in Owners, NEW t \in Nat,
           ~OwnedBy(c, o)
    PROVE  Completed(c, o) = c /\ Released(c, o) = c /\ Renewed(c, o, t) = c
  BY DEF OwnedBy, Completed, Released, Renewed, Renewable

(* A free key carries no running lease. *)
LEMMA FreeIsLapsed ==
    ASSUME NEW c \in Claim \cup {NoClaim}, NEW t \in Nat, Outcome(c, t) = "FIRST"
    PROVE  c = NoClaim \/ Lapsed(c, t)
  <1>1. Pruned(c, t) = NoClaim
    BY DEF Outcome
  <1> QED
    BY <1>1 DEF Pruned

-----------------------------------------------------------------------------
LEMMA InitInv == Init => IInv
  BY NoClaimAssumption DEF Init, IInv, TypeOK, HolderRecorded, Holds, Phases

LEMMA TypeStep == TypeOK /\ [Next]_vars => TypeOK'
  <1> SUFFICES ASSUME TypeOK, [Next]_vars PROVE TypeOK'
    OBVIOUS
  <1> USE DEF TypeOK, Phases
  <1>1. CASE Tick
    BY <1>1 DEF Tick, callers
  <1>2. ASSUME NEW k \in Keys, Lapse(k) \/ Forget(k) PROVE TypeOK'
    BY <1>2 DEF Lapse, Forget, callers
  <1>3. ASSUME NEW o \in Owners, Grant(o) PROVE TypeOK'
    <2>1. PICK t \in 0 .. now + Lease :
             claims' = [claims EXCEPT ![keyOf[o]] = Fresh(o, t)]
             /\ (\/ /\ phase[o] = "new"
                    /\ phase' = [phase EXCEPT ![o] = "first"]
                    /\ until' = [until EXCEPT ![o] = t]
                 \/ /\ phase' = [phase EXCEPT ![o] = "gone"]
                    /\ UNCHANGED until)
      BY <1>3 DEF Grant
    <2>2. t \in Nat
      BY LeaseAssumption
    <2>3. Fresh(o, t) \in Claim
      BY <2>2, DocumentTypes
    <2>4. UNCHANGED <<now, keyOf>>
      BY <1>3 DEF Grant
    <2> QED
      BY <2>1, <2>2, <2>3, <2>4
  <1>4. ASSUME NEW o \in Owners, Refuse(o) PROVE TypeOK'
    BY <1>4 DEF Refuse
  <1>5. ASSUME NEW o \in Owners, Complete(o) PROVE TypeOK'
    <2>1. Completed(claims[keyOf[o]], o) \in Claim \cup {NoClaim}
      BY DocumentTypes, 0 \in Nat
    <2> QED
      BY <1>5, <2>1 DEF Complete
  <1>6. ASSUME NEW o \in Owners, CompleteFails(o) \/ ReleaseFails(o) \/ Abandon(o)
        PROVE  TypeOK'
    BY <1>6 DEF CompleteFails, ReleaseFails, Abandon
  <1>7. ASSUME NEW o \in Owners, Release(o) PROVE TypeOK'
    <2>1. Released(claims[keyOf[o]], o) \in Claim \cup {NoClaim}
      BY DocumentTypes, 0 \in Nat
    <2> QED
      BY <1>7, <2>1 DEF Release
  <1>8. ASSUME NEW o \in Owners, Renew(o) PROVE TypeOK'
    <2>1. PICK t \in claims[keyOf[o]].lease_until .. now + Lease :
             /\ claims' = [claims EXCEPT ![keyOf[o]] = Renewed(@, o, t)]
             /\ until' \in {until, [until EXCEPT ![o] = t]}
      BY <1>8 DEF Renew
    <2>2. claims[keyOf[o]] \in Claim
      BY <1>8 DEF Renew, Renewable, OwnedBy
    <2>3. t \in Nat
      BY <2>2, LeaseAssumption DEF Claim
    <2>4. Renewed(claims[keyOf[o]], o, t) \in Claim \cup {NoClaim}
      BY <2>3, DocumentTypes
    <2>5. UNCHANGED <<now, phase, keyOf>>
      BY <1>8 DEF Renew
    <2> QED
      BY <2>1, <2>3, <2>4, <2>5
  <1>9. CASE UNCHANGED vars
    BY <1>9 DEF vars
  <1> QED
    BY <1>1, <1>2, <1>3, <1>4, <1>5, <1>6, <1>7, <1>8, <1>9 DEF Next, OwnerStep

(* No step separates a holder from its document.  Other owners reach the   *)
(* document only through a grant, which needs it absent or lapsed, and     *)
(* through operations that leave it alone; the holder itself stops holding *)
(* when it completes or releases.                                          *)
LEMMA HolderStep == IInv /\ [Next]_vars => HolderRecorded'
  <1> SUFFICES ASSUME TypeOK, HolderRecorded, [Next]_vars,
                      NEW h \in Owners, Holds(h)'
               PROVE  /\ Renewable(claims[keyOf[h]], h)'
                      /\ until'[h] <= claims'[keyOf'[h]].lease_until
    BY DEF IInv, HolderRecorded
  <1> DEFINE Safe == /\ Renewable(claims'[keyOf'[h]], h)
                     /\ until'[h] <= claims'[keyOf'[h]].lease_until
  <1> SUFFICES Safe
    BY DEF Renewable, OwnedBy
  <1>a. phase'[h] = "first" /\ now' < until'[h]
    BY DEF Holds
  <1>h. ASSUME phase[h] = "first", now <= now', until'[h] = until[h]
        PROVE  /\ claims[keyOf[h]] \in Claim
               /\ OwnedBy(claims[keyOf[h]], h)
               /\ ~claims[keyOf[h]].completed
               /\ until[h] <= claims[keyOf[h]].lease_until
               /\ ~Lapsed(claims[keyOf[h]], now)
    <2>0. now \in Nat /\ until[h] \in Nat /\ keyOf[h] \in Keys
      BY DEF TypeOK
    <2>5. now' \in Nat
      BY TypeStep DEF TypeOK
    <2>1. Holds(h)
      BY <1>a, <1>h, <2>0, <2>5 DEF Holds
    <2>2. Renewable(claims[keyOf[h]], h) /\ until[h] <= claims[keyOf[h]].lease_until
      BY <2>1 DEF HolderRecorded
    <2>3. claims[keyOf[h]] \in Claim
      BY <2>2 DEF TypeOK, Renewable, OwnedBy
    <2>4. claims[keyOf[h]].lease_until \in Nat
      BY <2>3 DEF Claim
    <2> QED
      BY <2>0, <2>1, <2>2, <2>3, <2>4 DEF Renewable, Lapsed, Holds
  <1>1. CASE Tick
    <2>1. now' = now + 1 /\ UNCHANGED <<claims, phase, keyOf, until>>
      BY <1>1 DEF Tick, callers
    <2>2. now <= now'
      BY <2>1 DEF TypeOK
    <2> QED
      BY <1>a, <1>h, <2>1, <2>2 DEF Renewable
  <1>2. ASSUME NEW k \in Keys, Lapse(k) \/ Forget(k) PROVE Safe
    <2>1. UNCHANGED <<now, phase, keyOf, until>>
      BY <1>2 DEF Lapse, Forget, callers
    <2>2. now <= now'
      BY <2>1 DEF TypeOK
    <2>3. k # keyOf[h]
      BY <1>2, <1>a, <1>h, <2>1, <2>2 DEF Lapse, Forget
    <2>4. claims'[keyOf[h]] = claims[keyOf[h]]
      BY <1>2, <2>3 DEF Lapse, Forget, TypeOK
    <2> QED
      BY <1>a, <1>h, <2>1, <2>2, <2>4 DEF Renewable
  <1>3. ASSUME NEW o \in Owners, Grant(o) PROVE Safe
    <2> DEFINE k == keyOf[o]
    <2>1. PICK t \in 0 .. now + Lease :
             claims' = [claims EXCEPT ![k] = Fresh(o, t)]
             /\ (\/ /\ phase[o] = "new"
                    /\ phase' = [phase EXCEPT ![o] = "first"]
                    /\ until' = [until EXCEPT ![o] = t]
                 \/ /\ phase' = [phase EXCEPT ![o] = "gone"]
                    /\ UNCHANGED until)
      BY <1>3 DEF Grant
    <2>2. UNCHANGED <<now, keyOf>> /\ k \in Keys /\ now \in Nat
      BY <1>3 DEF Grant, TypeOK
    <2>3. Lapsed(claims[k], now) \/ claims[k] = NoClaim
      BY <1>3, FreeIsLapsed DEF Grant, TypeOK
    <2>4. CASE h = o
      <3>1. until'[o] = t
        BY <1>a, <2>1, <2>4 DEF TypeOK
      <3>2. claims'[k] = Fresh(o, t)
        BY <2>1, <2>2 DEF TypeOK
      <3>3. Fresh(o, t) \in Claim
        BY DocumentTypes, LeaseAssumption, <2>2
      <3>4. Renewable(Fresh(o, t), o)
        BY <3>3, NoClaimAssumption DEF Renewable, OwnedBy, Fresh
      <3>5. Fresh(o, t).lease_until = t
        BY DEF Fresh
      <3> QED
        BY <2>2, <2>4, <3>1, <3>2, <3>4, <3>5
    <2>5. CASE h # o
      <3>1. phase[h] = "first" /\ until'[h] = until[h] /\ now <= now'
        BY <1>a, <2>1, <2>2, <2>5 DEF TypeOK
      <3>2. keyOf[h] # k
        BY <3>1, <1>h, <2>3 DEF OwnedBy
      <3>3. claims'[keyOf[h]] = claims[keyOf[h]]
        BY <2>1, <3>2 DEF TypeOK
      <3> QED
        BY <1>h, <2>2, <3>1, <3>3 DEF Renewable
    <2> QED
      BY <2>4, <2>5
  <1>4. ASSUME NEW o \in Owners,
               Refuse(o) \/ CompleteFails(o) \/ ReleaseFails(o) \/ Abandon(o)
        PROVE  Safe
    <2>1. UNCHANGED <<claims, now, keyOf, until>>
      BY <1>4 DEF Refuse, CompleteFails, ReleaseFails, Abandon
    <2>2. phase[h] = "first"
      BY <1>4, <1>a DEF Refuse, CompleteFails, ReleaseFails, Abandon, TypeOK
    <2>3. now <= now'
      BY <2>1 DEF TypeOK
    <2> QED
      BY <1>h, <2>1, <2>2, <2>3 DEF Renewable
  <1>5. ASSUME NEW o \in Owners, Complete(o) \/ Release(o) PROVE Safe
    <2>1. UNCHANGED <<now, keyOf, until>> /\ now <= now'
      BY <1>5 DEF Complete, Release, TypeOK
    <2>2. h # o
      BY <1>5, <1>a DEF Complete, Release, TypeOK
    <2>3. phase[h] = "first"
      BY <1>5, <1>a, <2>2 DEF Complete, Release, TypeOK
    <2>4. ~OwnedBy(claims[keyOf[h]], o)
      BY <1>h, <2>1, <2>2, <2>3 DEF OwnedBy
    <2>5. claims[keyOf[o]] \in Claim \cup {NoClaim}
      BY DEF TypeOK
    <2>6. claims'[keyOf[h]] = claims[keyOf[h]]
      <3>1. CASE keyOf[h] # keyOf[o]
        BY <1>5, <3>1 DEF Complete, Release, TypeOK
      <3>2. CASE keyOf[h] = keyOf[o]
        <4>1. /\ Completed(claims[keyOf[o]], o) = claims[keyOf[o]]
              /\ Released(claims[keyOf[o]], o) = claims[keyOf[o]]
          BY <2>4, <2>5, <3>2, OnlyTheOwner, 0 \in Nat
        <4> QED
          BY <1>5, <3>2, <4>1 DEF Complete, Release, TypeOK
      <3> QED
        BY <3>1, <3>2
    <2> QED
      BY <1>h, <2>1, <2>3, <2>6 DEF Renewable
  <1>6. ASSUME NEW o \in Owners, Renew(o) PROVE Safe
    <2> DEFINE k == keyOf[o]
    <2>1. PICK t \in claims[k].lease_until .. now + Lease :
             /\ claims' = [claims EXCEPT ![k] = Renewed(@, o, t)]
             /\ until' \in {until, [until EXCEPT ![o] = t]}
      BY <1>6 DEF Renew
    <2>2. UNCHANGED <<now, phase, keyOf>> /\ now <= now' /\ k \in Keys
      BY <1>6 DEF Renew, TypeOK
    <2>3. Renewable(claims[k], o) /\ claims[k] \in Claim
      BY <1>6 DEF Renew, Renewable, OwnedBy, TypeOK
    <2>4. t \in Nat /\ claims[k].lease_until \in Nat /\ claims[k].lease_until <= t
      BY <2>3, LeaseAssumption DEF Claim, TypeOK
    <2>5. claims'[k] = [claims[k] EXCEPT !.lease_until = t]
      BY <2>1, <2>2, <2>3 DEF Renewed, TypeOK
    <2>6. /\ claims'[k] \in Claim /\ claims'[k].owner = o
          /\ ~claims'[k].completed /\ claims'[k].lease_until = t
      BY <2>3, <2>4, <2>5 DEF Claim, Renewable, OwnedBy
    <2>7. CASE h = o
      <3>1. Renewable(claims'[k], o)
        BY <2>6, NoClaimAssumption DEF Renewable, OwnedBy
      <3>2. until'[h] <= t
        <4>1. CASE until' = until
          <5>1. until[h] <= claims[k].lease_until
            BY <1>a, <1>h, <2>2, <2>7, <4>1
          <5> QED
            BY <2>4, <4>1, <5>1 DEF TypeOK
        <4>2. CASE until' = [until EXCEPT ![o] = t]
          BY <2>4, <2>7, <4>2 DEF TypeOK
        <4> QED
          BY <2>1, <4>1, <4>2
      <3> QED
        BY <2>2, <2>6, <2>7, <3>1, <3>2
    <2>8. CASE h # o
      <3>1. phase[h] = "first" /\ until'[h] = until[h]
        BY <1>a, <2>1, <2>2, <2>8 DEF TypeOK
      <3>2. keyOf[h] # k
        BY <1>h, <2>2, <2>3, <2>8, <3>1 DEF Renewable, OwnedBy
      <3>3. claims'[keyOf[h]] = claims[keyOf[h]]
        BY <2>1, <3>2 DEF TypeOK
      <3> QED
        BY <1>h, <2>2, <3>1, <3>3 DEF Renewable
    <2> QED
      BY <2>7, <2>8
  <1>7. CASE UNCHANGED vars
    <2>1. now <= now'
      BY <1>7 DEF vars, TypeOK
    <2> QED
      BY <1>7, <1>a, <1>h, <2>1 DEF vars, Renewable
  <1> QED
    BY <1>1, <1>2, <1>3, <1>4, <1>5, <1>6, <1>7 DEF Next, OwnerStep

LEMMA Invariance == Spec => []IInv
  <1>1. IInv /\ [Next]_vars => IInv'
    BY TypeStep, HolderStep DEF IInv
  <1> QED
    BY InitInv, <1>1, PTL DEF Spec

-----------------------------------------------------------------------------
(* The variables keep their types, whatever the constants. *)
THEOREM TypeCorrect == Spec => []TypeOK
  <1>1. IInv => TypeOK
    BY DEF IInv
  <1> QED
    BY <1>1, Invariance, PTL

(* What a holder believes is on record. *)
THEOREM HoldersAreRecorded == Spec => []HolderRecorded
  <1>1. IInv => HolderRecorded
    BY DEF IInv
  <1> QED
    BY <1>1, Invariance, PTL

(* Two holders of one key would both be the owner on its record. *)
THEOREM NeverTwoOwners == Spec => []OneLiveOwner
  <1>1. IInv => OneLiveOwner
    BY DEF IInv, HolderRecorded, OneLiveOwner, Renewable, OwnedBy
  <1> QED
    BY <1>1, Invariance, PTL

(* A completion within the lease finds the caller's own document. *)
THEOREM CompletionsAreRecorded == Spec => CompletionRecorded
  <1> DEFINE Recorded ==
        \A o \in Owners :
          Holds(o) /\ phase'[o] = "done"
             => /\ OwnedBy(claims'[keyOf[o]], o)
                /\ claims'[keyOf[o]].completed
  <1>1. IInv /\ [Next]_vars => [Recorded]_vars
    <2> SUFFICES ASSUME IInv, Next, NEW h \in Owners,
                        Holds(h), phase'[h] = "done"
                 PROVE  /\ OwnedBy(claims'[keyOf[h]], h)
                        /\ claims'[keyOf[h]].completed
      BY DEF vars
    <2>1. Complete(h)
      BY DEF IInv, TypeOK, Holds, Next, OwnerStep, Tick, Lapse, Forget, callers,
             Grant, Refuse, Complete, CompleteFails, Release, ReleaseFails, Renew,
             Abandon
    <2>2. Renewable(claims[keyOf[h]], h) /\ claims[keyOf[h]] \in Claim
      BY DEF IInv, HolderRecorded, TypeOK, Renewable, OwnedBy
    <2>3. claims'[keyOf[h]] = [claims[keyOf[h]] EXCEPT !.completed = TRUE]
      BY <2>1, <2>2 DEF Complete, Completed, Renewable, IInv, TypeOK
    <2>4. claims'[keyOf[h]] \in Claim
      BY <2>2, <2>3 DEF Claim
    <2> QED
      BY <2>2, <2>3, <2>4, NoClaimAssumption DEF Claim, Renewable, OwnedBy
  <1> QED
    BY <1>1, Invariance, PTL DEF Spec, CompletionRecorded

(* A completed document is never lapsed, so it is granted to nobody; it is *)
(* not renewable; completing it again changes nothing.                     *)
THEOREM CompletedStaysCompleted == Spec => CompletedIsFinal
  <1> DEFINE Final ==
        \A k \in Keys : claims[k] # NoClaim /\ claims[k].completed
                           => claims'[k] \in {claims[k], NoClaim}
  <1>1. IInv /\ [Next]_vars => [Final]_vars
    <2> SUFFICES ASSUME TypeOK, Next, NEW k \in Keys,
                        claims[k] # NoClaim, claims[k].completed
                 PROVE  claims'[k] \in {claims[k], NoClaim}
      BY DEF vars, IInv
    <2>0. claims[k] \in Claim
      BY DEF TypeOK
    <2>1. CASE Tick
      BY <2>1 DEF Tick
    <2>2. ASSUME NEW j \in Keys, Lapse(j) \/ Forget(j)
          PROVE  claims'[k] \in {claims[k], NoClaim}
      BY <2>2 DEF Lapse, Forget, TypeOK
    <2>3. ASSUME NEW o \in Owners, OwnerStep(o)
          PROVE  claims'[k] \in {claims[k], NoClaim}
      <3>1. CASE Refuse(o) \/ CompleteFails(o) \/ ReleaseFails(o) \/ Abandon(o)
        BY <3>1 DEF Refuse, CompleteFails, ReleaseFails, Abandon
      <3>2. CASE Grant(o)
        <4>1. keyOf[o] # k
          <5>1. claims[keyOf[o]] = NoClaim \/ Lapsed(claims[keyOf[o]], now)
            BY <3>2, FreeIsLapsed DEF Grant, TypeOK
          <5> QED
            BY <5>1 DEF Lapsed
        <4> QED
          BY <3>2, <4>1 DEF Grant, TypeOK
      <3>3. CASE Complete(o)
        BY <2>0, <3>3 DEF Complete, Completed, Claim, TypeOK
      <3>4. CASE Release(o)
        BY <3>4 DEF Release, Released, TypeOK
      <3>5. CASE Renew(o)
        BY <3>5 DEF Renew, Renewed, Renewable, TypeOK
      <3> QED
        BY <2>3, <3>1, <3>2, <3>3, <3>4, <3>5 DEF OwnerStep
    <2> QED
      BY <2>1, <2>2, <2>3 DEF Next
  <1> QED
    BY <1>1, Invariance, PTL DEF Spec, CompletedIsFinal

-----------------------------------------------------------------------------
(* MemoryIdempotencyStorage: each of its operations is a contract          *)
(* operation or changes nothing.                                           *)

(* claim() answers FIRST exactly when the contract grants. *)
LEMMA ClaimIsContract ==
    ASSUME TypeOK, NEW o \in Owners, claim(o)
    PROVE  Grant(o) \/ Refuse(o)
  <1> DEFINE k == keyOf[o]
             answer == Outcome(claims[k], now)
  <1>1. phase[o] = "new" /\ UNCHANGED <<now, keyOf>>
    BY DEF claim
  <1>2. CASE answer = "FIRST"
    <2>1. now + Lease \in 0 .. now + Lease
      BY LeaseAssumption DEF TypeOK
    <2>2. claims' = [claims EXCEPT ![k] = Fresh(o, now + Lease)]
      BY <1>2 DEF claim, Claimed
    <2>3. /\ phase' = [phase EXCEPT ![o] = "first"]
          /\ until' = [until EXCEPT ![o] = now + Lease]
      BY <1>2 DEF claim
    <2> QED
      BY <1>1, <1>2, <2>1, <2>2, <2>3 DEF Grant
  <1>3. CASE answer # "FIRST"
    <2>1. claims' = claims
      BY <1>3 DEF claim, Claimed, TypeOK
    <2>2. UNCHANGED until
      BY <1>3 DEF claim
    <2>3. phase' = [phase EXCEPT ![o] =
                      IF answer = "COMPLETED" THEN "completed" ELSE "active"]
      BY <1>3 DEF claim
    <2> QED
      BY <1>1, <1>3, <2>1, <2>2, <2>3 DEF Refuse
  <1> QED
    BY <1>2, <1>3

(* renew() extends the caller's own uncompleted claim or does nothing.  A  *)
(* lease is never shortened: no lease ends later than a whole lease ahead. *)
LeasesAreCurrent ==
    \A k \in Keys : claims[k] # NoClaim => claims[k].lease_until <= now + Lease

LEMMA RenewIsContract ==
    ASSUME TypeOK, LeasesAreCurrent, NEW o \in Owners, renew(o)
    PROVE  Renew(o) \/ UNCHANGED vars
  <1> DEFINE k == keyOf[o]
             c == claims[k]
  <1>1. k \in Keys /\ UNCHANGED <<now, phase, keyOf>>
    BY DEF renew, TypeOK
  <1>2. CASE Renewable(c, o)
    <2>1. c \in Claim /\ c.lease_until <= now + Lease
      BY <1>1, <1>2 DEF Renewable, OwnedBy, LeasesAreCurrent, TypeOK
    <2>2. now + Lease \in c.lease_until .. now + Lease
      BY <2>1, LeaseAssumption DEF TypeOK, Claim
    <2>3. /\ claims' = [claims EXCEPT ![k] = Renewed(@, o, now + Lease)]
          /\ until' = [until EXCEPT ![o] = now + Lease]
      BY <1>2 DEF renew
    <2>4. phase[o] \notin {"new", "completed", "active"}
      BY DEF renew
    <2> QED
      BY <1>1, <1>2, <2>2, <2>3, <2>4 DEF Renew
  <1>3. CASE ~Renewable(c, o)
    <2>1. claims' = claims
      BY <1>3 DEF renew, Renewed, TypeOK
    <2>2. until' = until
      BY <1>3 DEF renew, TypeOK
    <2> QED
      BY <1>1, <2>1, <2>2 DEF vars
  <1> QED
    BY <1>2, <1>3

LEMMA MemoryStepIsContract ==
    TypeOK /\ LeasesAreCurrent /\ [MemoryNext]_vars => [Next]_vars
  <1> SUFFICES ASSUME TypeOK, LeasesAreCurrent, MemoryNext
               PROVE  Next \/ UNCHANGED vars
    BY DEF vars
  <1>1. CASE Tick
    BY <1>1 DEF Tick, Next
  <1>2. ASSUME NEW o \in Owners,
               claim(o) \/ complete(o) \/ release(o) \/ renew(o) \/ Abandon(o)
        PROVE  OwnerStep(o) \/ UNCHANGED vars
    <2>1. CASE complete(o)
      BY <2>1 DEF complete, Complete, OwnerStep
    <2>2. CASE release(o)
      <3>1. Release(o)
        BY <2>2 DEF release, Release, TypeOK
      <3> QED
        BY <3>1 DEF OwnerStep
    <2> QED
      BY <1>2, <2>1, <2>2, ClaimIsContract, RenewIsContract DEF OwnerStep
  <1> QED
    BY <1>1, <1>2 DEF MemoryNext, Next

LEMMA LeasesStep ==
    TypeOK /\ TypeOK' /\ LeasesAreCurrent /\ [MemoryNext]_vars => LeasesAreCurrent'
  <1> SUFFICES ASSUME TypeOK, TypeOK', LeasesAreCurrent, [MemoryNext]_vars,
                      NEW k \in Keys, claims'[k] # NoClaim
               PROVE  claims'[k].lease_until <= now' + Lease
    BY DEF LeasesAreCurrent
  <1> USE LeaseAssumption
  <1>0. /\ claims'[k] \in Claim /\ now \in Nat /\ now' \in Nat
        /\ claims[k] # NoClaim => /\ claims[k] \in Claim
                                  /\ claims[k].lease_until <= now + Lease
    BY DEF TypeOK, LeasesAreCurrent
  <1>1. CASE Tick
    BY <1>0, <1>1 DEF Tick, Claim
  <1>2. ASSUME NEW o \in Owners, claim(o) \/ renew(o)
        PROVE  claims'[k].lease_until <= now' + Lease
    <2>1. CASE keyOf[o] # k
      BY <1>0, <1>2, <2>1 DEF claim, renew, TypeOK
    <2>2. CASE keyOf[o] = k /\ claim(o)
      BY <1>0, <2>2 DEF claim, Claimed, Fresh, TypeOK
    <2>3. CASE keyOf[o] = k /\ renew(o)
      <3>1. claims'[k] = Renewed(claims[k], o, now + Lease) /\ now' = now
        BY <2>3 DEF renew, TypeOK
      <3>2. CASE Renewable(claims[k], o)
        BY <1>0, <3>1, <3>2 DEF Renewed, Claim, Renewable, OwnedBy
      <3>3. CASE ~Renewable(claims[k], o)
        BY <1>0, <3>1, <3>3 DEF Renewed
      <3> QED
        BY <3>2, <3>3
    <2> QED
      BY <1>2, <2>1, <2>2, <2>3
  <1>3. ASSUME NEW o \in Owners, complete(o)
        PROVE  claims'[k].lease_until <= now' + Lease
    BY <1>0, <1>3 DEF complete, Completed, OwnedBy, Claim, TypeOK
  <1>4. ASSUME NEW o \in Owners, release(o)
        PROVE  claims'[k].lease_until <= now' + Lease
    BY <1>0, <1>4 DEF release, Released, TypeOK
  <1>5. ASSUME NEW o \in Owners, Abandon(o)
        PROVE  claims'[k].lease_until <= now' + Lease
    BY <1>0, <1>5 DEF Abandon
  <1>6. CASE UNCHANGED vars
    BY <1>0, <1>6 DEF vars
  <1> QED
    BY <1>1, <1>2, <1>3, <1>4, <1>5, <1>6 DEF MemoryNext


-----------------------------------------------------------------------------
LEMMA MemoryInitInv == Init => TypeOK /\ LeasesAreCurrent
  BY InitInv DEF IInv, Init, LeasesAreCurrent

LEMMA MemoryStep ==
    TypeOK /\ LeasesAreCurrent /\ [MemoryNext]_vars
        => TypeOK' /\ LeasesAreCurrent' /\ [Next]_vars
  BY MemoryStepIsContract, TypeStep, LeasesStep

(* The process-local store implements the contract: lazy pruning, per-key  *)
(* locks and in-place updates show nothing the contract does not allow.    *)
THEOREM MemoryImplementsContract == MemorySpec => ImplementsContract
  BY MemoryInitInv, MemoryStep, PTL DEF MemorySpec, Spec, ImplementsContract

(* Two attempts of one process never work on the same delivery while both  *)
(* leases run: the contract's theorem, inherited through the refinement.   *)
THEOREM MemoryNeverTwoOwners == MemorySpec => []OneLiveOwner
  BY MemoryImplementsContract, NeverTwoOwners, PTL DEF ImplementsContract

(* A completion under a running lease is on record in the process's store, *)
(* and nothing reopens a completed document.                               *)
THEOREM MemoryKeepsCompletions ==
    MemorySpec => CompletionRecorded /\ CompletedIsFinal
  BY MemoryImplementsContract, CompletionsAreRecorded, CompletedStaysCompleted, PTL
     DEF ImplementsContract

-----------------------------------------------------------------------------
(* The push endpoints, for any number of messages and requests and any     *)
(* lease.  Every step uses the storage as the contract allows, so what is  *)
(* proved above (HolderRecorded above all) holds here; the rest of the     *)
(* inductive invariant says what a request's await means.                  *)

(* What pc[r] says of the request: what it knows of its claim, whether it  *)
(* started the handlers, whether they returned.                            *)
AwaitMeans(r) ==
    /\ pc[r] \in {"idle", "verify", "claim"} => phase[r] = "new" /\ r \notin ran
    /\ pc[r] = "late_claim" => phase[r] = "gone" /\ r \notin ran
    /\ pc[r] = "dispatch" => r \in ran
    /\ pc[r] = "dispatch" /\ keyOf[r] \notin Unkeyed => phase[r] = "first"
    /\ pc[r] \in {"complete", "release"} => r \in ran /\ phase[r] = "first"
    /\ pc[r] \in {"late_complete", "late_release"} => phase[r] = "gone"
    /\ pc[r] \in {"release", "late_complete", "late_release"} => r \in spoiled
    /\ pc[r] \in {"complete", "late_complete"} => keyOf[r] \in handled

(* A run that still absorbs duplicates when its request is over does so    *)
(* through its completed document.                                         *)
AbsorbsByRecord(r) ==
    r \in ran \ spoiled /\ keyOf[r] \notin Unkeyed /\ pc[r] = "over"
      => OwnedBy(claims[keyOf[r]], r) /\ claims[keyOf[r]].completed

PInv == /\ PushTypeOK
        /\ \A r \in Owners : AwaitMeans(r) /\ AbsorbsByRecord(r)
        /\ RecordedMeansHandled
        /\ AckedMeansHandled

-----------------------------------------------------------------------------
(* Every step of the endpoints is a step of the storage's contract, or     *)
(* leaves the storage and its clock alone.                                 *)
LEMMA StorageStep == [PushNext]_pushVars => [Next]_vars
  <1> SUFFICES ASSUME PushNext PROVE [Next]_vars
    BY DEF pushVars
  <1>1. CASE Tick /\ UNCHANGED push
    BY <1>1 DEF Next
  <1>2. ASSUME NEW k \in Keys, Expiry(k) PROVE [Next]_vars
    BY <1>2 DEF Expiry, Next
  <1>3. ASSUME NEW r \in Owners, Request(r) PROVE [Next]_vars
    <2>1. OwnerStep(r) \/ UNCHANGED vars
      BY <1>3 DEF Request, Post, Refused, Parsed, ParsedUnkeyed, ClaimFirst,
           ClaimRefused, ClaimRaises, HandlerReturns, HandlerRaises, Completes,
           CompleteRaises, Releases, Cancelled, LateEffect, OwnerStep
    <2> QED
      BY <2>1 DEF Next
  <1> QED
    BY <1>1, <1>2, <1>3 DEF PushNext

LEMMA PushInitInv == PushInit => PInv
  <1>1. PushInit => Init
    BY DEF PushInit
  <1>2. Init => TypeOK
    BY InitInv DEF IInv
  <1> QED
    BY <1>1, <1>2 DEF PushInit, Init, PInv, PushTypeOK, AwaitMeans,
       AbsorbsByRecord, RecordedMeansHandled, AckedMeansHandled, Awaits, Late

LEMMA PushTypeStep == PushTypeOK /\ [PushNext]_pushVars => PushTypeOK'
  <1> SUFFICES ASSUME PushTypeOK, [PushNext]_pushVars PROVE PushTypeOK'
    OBVIOUS
  <1>0. TypeOK'
    BY StorageStep, TypeStep DEF PushTypeOK
  <1> DEFINE Types == /\ pc' \in [Owners -> Awaits \cup Late \cup {"idle", "over"}]
                      /\ acked' \subseteq Keys /\ handled' \subseteq Keys
                      /\ ran' \subseteq Owners /\ spoiled' \subseteq Owners
  <1> SUFFICES Types
    BY <1>0 DEF PushTypeOK
  <1> USE DEF PushTypeOK, Awaits, Late
  <1>1. CASE UNCHANGED push
    BY <1>1 DEF push
  <1>2. ASSUME NEW k \in Keys, Expiry(k) PROVE Types
    <2>1. claims[k] # NoClaim
      BY <1>2 DEF Expiry, Lapse, Lapsed, Forget
    <2>2. claims[k].owner \in Owners
      BY <2>1 DEF TypeOK, Claim
    <2> QED
      BY <1>2, <2>2 DEF Expiry
  <1>3. ASSUME NEW r \in Owners, Request(r) PROVE Types
    <2>1. keyOf[r] \in Keys
      BY DEF TypeOK
    <2>2. CASE Post(r) \/ Refused(r) \/ Parsed(r) \/ ParsedUnkeyed(r)
      BY <2>1, <2>2 DEF Post, Refused, Parsed, ParsedUnkeyed, Goto, Respond, Dispatch
    <2>3. CASE ClaimFirst(r) \/ ClaimRefused(r) \/ ClaimRaises(r)
      BY <2>1, <2>3 DEF ClaimFirst, ClaimRefused, ClaimRaises, Goto, Respond, Dispatch
    <2>4. CASE HandlerReturns(r) \/ HandlerRaises(r)
      BY <2>1, <2>4 DEF HandlerReturns, HandlerRaises, Goto, Respond
    <2>5. CASE Completes(r) \/ CompleteRaises(r) \/ Releases(r)
      BY <2>1, <2>5 DEF Completes, CompleteRaises, Releases, Goto, Respond
    <2>6. CASE Cancelled(r) \/ LateEffect(r)
      BY <2>6 DEF Cancelled, LateEffect, Goto
    <2> QED
      BY <1>3, <2>2, <2>3, <2>4, <2>5, <2>6 DEF Request
  <1> QED
    BY <1>1, <1>2, <1>3 DEF PushNext, pushVars

-----------------------------------------------------------------------------
(* keyOf never changes, nobody else's phase or await does. *)
LEMMA OwnStep ==
    ASSUME PushTypeOK, NEW r \in Owners, Request(r)
    PROVE  /\ keyOf' = keyOf
           /\ \A q \in Owners \ {r} : /\ pc'[q] = pc[q] /\ phase'[q] = phase[q]
                                     /\ (q \in ran' <=> q \in ran)
                                     /\ (q \in spoiled' <=> q \in spoiled)
           /\ handled \subseteq handled'
  <1> USE DEF PushTypeOK, TypeOK
  <1>2. CASE Post(r) \/ Refused(r) \/ Parsed(r) \/ ParsedUnkeyed(r)
    BY <1>2 DEF Post, Refused, Parsed, ParsedUnkeyed, Goto, Respond, Dispatch, vars
  <1>3. CASE ClaimFirst(r) \/ ClaimRefused(r) \/ ClaimRaises(r)
    BY <1>3 DEF ClaimFirst, ClaimRefused, ClaimRaises, Goto, Respond, Dispatch,
                Grant, Refuse, Abandon
  <1>4. CASE HandlerReturns(r) \/ HandlerRaises(r)
    BY <1>4 DEF HandlerReturns, HandlerRaises, Goto, Respond, vars
  <1>5. CASE Completes(r) \/ CompleteRaises(r) \/ Releases(r)
    BY <1>5 DEF Completes, CompleteRaises, Releases, Goto, Respond,
                Complete, CompleteFails, Release, ReleaseFails
  <1>6. CASE Cancelled(r) \/ LateEffect(r)
    BY <1>6 DEF Cancelled, LateEffect, Goto, Abandon, Grant, Complete, Release
  <1> QED
    BY <1>2, <1>3, <1>4, <1>5, <1>6 DEF Request

LEMMA AwaitStep ==
    ASSUME PInv, [PushNext]_pushVars, NEW q \in Owners
    PROVE  AwaitMeans(q)'
  <1> USE DEF PInv, AwaitMeans
  <1>1. CASE UNCHANGED pushVars \/ (Tick /\ UNCHANGED push)
    BY <1>1 DEF pushVars, push, vars, Tick, callers
  <1>2. ASSUME NEW k \in Keys, Expiry(k) PROVE AwaitMeans(q)'
    BY <1>2 DEF Expiry, Lapse, Forget, callers
  <1>3. ASSUME NEW r \in Owners, Request(r), r # q PROVE AwaitMeans(q)'
    BY <1>3, OwnStep
  <1>4. ASSUME Request(q) PROVE AwaitMeans(q)'
    <2> USE DEF PushTypeOK, TypeOK
    <2>2. CASE Post(q) \/ Refused(q) \/ Parsed(q) \/ ParsedUnkeyed(q)
      BY <2>2 DEF Post, Refused, Parsed, ParsedUnkeyed, Goto, Respond, Dispatch, vars
    <2>3. CASE ClaimFirst(q) \/ ClaimRefused(q) \/ ClaimRaises(q)
      BY <2>3 DEF ClaimFirst, ClaimRefused, ClaimRaises, Goto, Respond, Dispatch,
                  Grant, Refuse, Abandon
    <2>4. CASE HandlerReturns(q) \/ HandlerRaises(q)
      BY <2>4 DEF HandlerReturns, HandlerRaises, Goto, Respond, vars
    <2>5. CASE Completes(q) \/ CompleteRaises(q) \/ Releases(q)
      BY <2>5 DEF Completes, CompleteRaises, Releases, Goto, Respond
    <2>6. CASE Cancelled(q)
      BY <2>6 DEF Cancelled, Goto, Abandon, Awaits
    <2>7. CASE LateEffect(q)
      BY <2>7 DEF LateEffect, Goto
    <2> QED
      BY <1>4, <2>2, <2>3, <2>4, <2>5, <2>6, <2>7 DEF Request
  <1> QED
    BY <1>1, <1>2, <1>3, <1>4 DEF PushNext

-----------------------------------------------------------------------------
(* What a step may do to a document: take a free one, complete or drop the *)
(* request's own, or let an old one go.                                    *)
LEMMA DocumentStep ==
    ASSUME PushTypeOK, [PushNext]_pushVars, NEW k \in Keys
    PROVE  \/ claims'[k] = claims[k]
           \/ claims'[k] = NoClaim /\ Lapsed(claims[k], now)
           \/ /\ claims'[k] = NoClaim /\ claims[k] # NoClaim
              /\ claims[k].completed /\ claims[k].owner \in spoiled'
           \/ /\ \E r \in Owners, t \in Nat : claims'[k] = Fresh(r, t)
              /\ claims[k] = NoClaim \/ Lapsed(claims[k], now)
           \/ \E r \in Owners :
                 /\ keyOf[r] = k /\ OwnedBy(claims[k], r)
                 /\ \/ /\ pc[r] \in {"complete", "late_complete"}
                       /\ claims'[k] = Completed(claims[k], r)
                    \/ /\ pc[r] \in {"release", "late_release"}
                       /\ claims'[k] = NoClaim
  <1> USE DEF PushTypeOK, TypeOK
  <1>1. CASE UNCHANGED pushVars \/ Tick
    BY <1>1 DEF pushVars, vars, Tick
  <1>2. ASSUME NEW j \in Keys, Expiry(j)
        PROVE  \/ claims'[k] = claims[k]
               \/ claims'[k] = NoClaim /\ Lapsed(claims[k], now)
               \/ /\ claims'[k] = NoClaim /\ claims[k] # NoClaim
                  /\ claims[k].completed /\ claims[k].owner \in spoiled'
    BY <1>2 DEF Expiry, Lapse, Forget
  <1>3. ASSUME NEW r \in Owners, Grant(r)
        PROVE  \/ claims'[k] = claims[k]
               \/ /\ \E t \in Nat : claims'[k] = Fresh(r, t)
                  /\ claims[k] = NoClaim \/ Lapsed(claims[k], now)
    <2>1. PICK t \in 0 .. now + Lease :
             claims' = [claims EXCEPT ![keyOf[r]] = Fresh(r, t)]
      BY <1>3 DEF Grant
    <2>2. t \in Nat
      BY LeaseAssumption
    <2>3. claims[keyOf[r]] = NoClaim \/ Lapsed(claims[keyOf[r]], now)
      BY <1>3, FreeIsLapsed DEF Grant
    <2> QED
      BY <2>1, <2>2, <2>3
  <1>4. ASSUME NEW r \in Owners, Complete(r)
        PROVE  \/ claims'[k] = claims[k]
               \/ /\ keyOf[r] = k /\ OwnedBy(claims[k], r)
                  /\ claims'[k] = Completed(claims[k], r)
    BY <1>4 DEF Complete, Completed
  <1>5. ASSUME NEW r \in Owners, Release(r)
        PROVE  \/ claims'[k] = claims[k]
               \/ keyOf[r] = k /\ OwnedBy(claims[k], r) /\ claims'[k] = NoClaim
    BY <1>5 DEF Release, Released
  <1>6. ASSUME NEW r \in Owners, Request(r)
        PROVE  \/ UNCHANGED claims
               \/ Grant(r)
               \/ pc[r] \in {"complete", "late_complete"} /\ Complete(r)
               \/ pc[r] \in {"release", "late_release"} /\ Release(r)
    BY <1>6 DEF Request, Post, Refused, Parsed, ParsedUnkeyed, ClaimFirst,
       ClaimRefused, ClaimRaises, HandlerReturns, HandlerRaises, Completes,
       CompleteRaises, Releases, Cancelled, LateEffect, vars, Refuse, Abandon,
       CompleteFails, ReleaseFails
  <1> QED
    BY <1>1, <1>2, <1>3, <1>4, <1>5, <1>6 DEF PushNext

LEMMA HandledGrows ==
    ASSUME PushTypeOK, [PushNext]_pushVars
    PROVE  handled \subseteq handled' /\ keyOf' = keyOf
  <1>1. CASE UNCHANGED pushVars \/ (Tick /\ UNCHANGED push)
    BY <1>1 DEF pushVars, vars, push, Tick, callers
  <1>2. ASSUME NEW k \in Keys, Expiry(k)
        PROVE  handled \subseteq handled' /\ keyOf' = keyOf
    BY <1>2 DEF Expiry, Lapse, Forget, callers
  <1> QED
    BY <1>1, <1>2, OwnStep DEF PushNext

LEMMA RecordedStep == PInv /\ [PushNext]_pushVars => RecordedMeansHandled'
  <1> SUFFICES ASSUME PInv, [PushNext]_pushVars, NEW k \in Keys,
                      claims'[k] # NoClaim, claims'[k].completed
               PROVE  k \in handled'
    BY DEF RecordedMeansHandled
  <1> USE DEF PInv
  <1>1. CASE claims'[k] = claims[k]
    BY <1>1, HandledGrows DEF RecordedMeansHandled
  <1>2. ASSUME NEW r \in Owners, NEW t \in Nat, claims'[k] = Fresh(r, t)
        PROVE  FALSE
    BY <1>2 DEF Fresh
  <1>3. ASSUME NEW r \in Owners, keyOf[r] = k, pc[r] \in {"complete", "late_complete"}
        PROVE  k \in handled'
    BY <1>3, HandledGrows DEF AwaitMeans
  <1> QED
    BY <1>1, <1>2, <1>3, DocumentStep

LEMMA AckedStep == PInv /\ [PushNext]_pushVars => AckedMeansHandled'
  <1> SUFFICES ASSUME PInv, [PushNext]_pushVars, NEW k \in acked' \ acked
               PROVE  k \in handled'
    BY HandledGrows DEF PInv, AckedMeansHandled
  <1> USE DEF PInv
  <1>1. UNCHANGED acked \/ \E r \in Owners : Request(r)
    BY DEF PushNext, pushVars, push, Expiry
  <1>2. PICK r \in Owners : Request(r)
    BY <1>1
  <1>3. CASE ClaimRefused(r)
    <2>1. k = keyOf[r] /\ phase'[r] = "completed" /\ phase[r] = "new"
      BY <1>3 DEF ClaimRefused, Respond, Refuse
    <2>2. Outcome(claims[k], now) = "COMPLETED"
      BY <1>3, <2>1 DEF ClaimRefused, Refuse, PushTypeOK, TypeOK
    <2>3. claims[k] # NoClaim /\ claims[k].completed
      BY <2>2 DEF Outcome, Pruned
    <2>4. k \in Keys
      BY <2>1 DEF PushTypeOK, TypeOK
    <2> QED
      BY <2>3, <2>4, HandledGrows DEF RecordedMeansHandled
  <1>4. CASE HandlerReturns(r)
    BY <1>4 DEF HandlerReturns, Respond
  <1>5. CASE Completes(r) \/ CompleteRaises(r)
    <2>1. k = keyOf[r] /\ pc[r] = "complete"
      BY <1>5 DEF Completes, CompleteRaises, Respond
    <2> QED
      BY <2>1, HandledGrows DEF AwaitMeans
  <1>6. UNCHANGED acked \/ ClaimRefused(r) \/ HandlerReturns(r)
          \/ Completes(r) \/ CompleteRaises(r)
    BY <1>2 DEF Request, Post, Refused, Parsed, ParsedUnkeyed, ClaimFirst,
       ClaimRaises, HandlerRaises, Releases, Cancelled, LateEffect, Respond
  <1> QED
    BY <1>3, <1>4, <1>5, <1>6

LEMMA AbsorbStep ==
    ASSUME PInv, [PushNext]_pushVars, NEW q \in Owners
    PROVE  AbsorbsByRecord(q)'
  <1> SUFFICES ASSUME q \in ran' \ spoiled', keyOf[q] \notin Unkeyed,
                      pc'[q] = "over"
               PROVE  OwnedBy(claims'[keyOf[q]], q) /\ claims'[keyOf[q]].completed
    BY HandledGrows DEF AbsorbsByRecord, PInv, OwnedBy
  <1> DEFINE k == keyOf[q]
  <1> USE DEF PInv
  <1>0. k \in Keys /\ claims[k] \in Claim \cup {NoClaim}
    BY DEF PushTypeOK, TypeOK
  <1>1. ASSUME q \in ran \ spoiled, pc[q] = "over"
        PROVE  OwnedBy(claims'[k], q) /\ claims'[k].completed
    <2>1. OwnedBy(claims[k], q) /\ claims[k].completed
      BY <1>1 DEF AbsorbsByRecord
    <2>2. claims[k] # NoClaim /\ claims[k].owner = q /\ ~Lapsed(claims[k], now)
      BY <2>1 DEF OwnedBy, Lapsed
    <2>3. ASSUME NEW r \in Owners, OwnedBy(claims[k], r),
                 pc[r] \in {"complete", "late_complete", "release", "late_release"}
          PROVE  FALSE
      BY <1>1, <2>2, <2>3 DEF OwnedBy
    <2>4. claims'[k] = claims[k]
      BY <1>0, <2>1, <2>2, <2>3, DocumentStep
    <2> QED
      BY <2>1, <2>4
  <1>2. CASE ~(q \in ran \ spoiled /\ pc[q] = "over")
    <2>1. Request(q)
      <3>1. CASE UNCHANGED pushVars \/ (Tick /\ UNCHANGED push)
        BY <1>2, <3>1 DEF pushVars, push
      <3>2. ASSUME NEW j \in Keys, Expiry(j) PROVE FALSE
        BY <1>2, <3>2 DEF Expiry
      <3>3. ASSUME NEW r \in Owners, Request(r), r # q PROVE FALSE
        BY <1>2, <3>3, OwnStep
      <3> QED
        BY <3>1, <3>2, <3>3 DEF PushNext
    <2>2. CASE Completes(q)
      <3>1. OwnedBy(claims[k], q) /\ claims' = [claims EXCEPT ![k] = Completed(@, q)]
        BY <2>2 DEF Completes, Complete
      <3>2. claims'[k] = [claims[k] EXCEPT !.completed = TRUE]
        BY <1>0, <3>1 DEF Completed, PushTypeOK, TypeOK
      <3>3. claims[k] \in Claim /\ claims'[k] \in Claim
        <4>1. claims[k] \in Claim
          BY <1>0, <3>1 DEF OwnedBy
        <4> QED
          BY <4>1, <3>2 DEF Claim
      <3> QED
        BY <3>1, <3>2, <3>3, NoClaimAssumption DEF OwnedBy, Claim
    <2>3. CASE ~Completes(q)
      <3> USE DEF PushTypeOK
      <3>1. AwaitMeans(q)
        OBVIOUS
      <3>2. CASE Post(q) \/ Refused(q) \/ Parsed(q) \/ ParsedUnkeyed(q)
        BY <3>1, <3>2 DEF Post, Refused, Parsed, ParsedUnkeyed, Goto, Respond,
                          Dispatch, AwaitMeans
      <3>3. CASE ClaimFirst(q) \/ ClaimRefused(q) \/ ClaimRaises(q)
        BY <3>1, <3>3 DEF ClaimFirst, ClaimRefused, ClaimRaises, Goto, Respond,
                          Dispatch, AwaitMeans
      <3>4. CASE HandlerReturns(q) \/ HandlerRaises(q)
        BY <3>4 DEF HandlerReturns, HandlerRaises, Goto
      <3>5. CASE CompleteRaises(q) \/ Releases(q)
        BY <3>1, <3>5 DEF CompleteRaises, Releases, AwaitMeans
      <3>6. CASE Cancelled(q) \/ LateEffect(q)
        BY <3>1, <3>6 DEF Cancelled, LateEffect, AwaitMeans
      <3> QED
        BY <2>1, <2>3, <3>2, <3>3, <3>4, <3>5, <3>6 DEF Request
    <2> QED
      BY <2>2, <2>3
  <1> QED
    BY <1>1, <1>2

LEMMA PushInvariance == PushSpec => []PInv
  <1>1. PInv /\ [PushNext]_pushVars => PInv'
    BY PushTypeStep, AwaitStep, AbsorbStep, RecordedStep, AckedStep DEF PInv
  <1> QED
    BY PushInitInv, <1>1, PTL DEF PushSpec

-----------------------------------------------------------------------------
(* The push endpoints use the storage as its contract allows. *)
THEOREM PushKeepsContract == PushSpec => Spec
  <1>1. PushInit => Init
    BY DEF PushInit
  <1> QED
    BY <1>1, StorageStep, PTL DEF PushSpec, Spec

(* The variables keep their types, whatever the constants. *)
THEOREM PushTypeCorrect == PushSpec => []PushTypeOK
  <1>1. PInv => PushTypeOK
    BY DEF PInv
  <1> QED
    BY <1>1, PushInvariance, PTL

(* A 2xx answer is given by the request whose handlers returned, or by one *)
(* that found the message recorded as completed, and only handled messages *)
(* are.                                                                    *)
THEOREM AckedIsHandled == PushSpec => []AckedMeansHandled
  <1>1. PInv => AckedMeansHandled
    BY DEF PInv
  <1> QED
    BY <1>1, PushInvariance, PTL

(* The record that absorbs duplicates is never ahead of the work. *)
THEOREM RecordedIsHandled == PushSpec => []RecordedMeansHandled
  <1>1. PInv => RecordedMeansHandled
    BY DEF PInv
  <1> QED
    BY <1>1, PushInvariance, PTL

(* A run within its lease is on record as the uncompleted owner, one that  *)
(* is over and unspoiled as the completed one; a key has one document.     *)
THEOREM MessagesAreHandledOnce == PushSpec => []HandledOnce
  <1>1. PInv /\ HolderRecorded => HandledOnce
    <2> SUFFICES ASSUME PInv, HolderRecorded, NEW q \in Owners, Absorbing(q),
                        keyOf[q] \notin Unkeyed
                 PROVE  OwnedBy(claims[keyOf[q]], q)
      BY DEF HandledOnce, OwnedBy
    <2>1. q \in ran \ spoiled /\ AwaitMeans(q) /\ AbsorbsByRecord(q)
      BY DEF PInv, Absorbing
    <2>2. pc[q] \in {"dispatch", "complete", "over"}
      BY <2>1 DEF AwaitMeans, PInv, PushTypeOK, Awaits, Late
    <2>3. CASE pc[q] = "over"
      BY <2>1, <2>3 DEF AbsorbsByRecord
    <2>4. CASE pc[q] \in {"dispatch", "complete"}
      BY <2>1, <2>4 DEF AwaitMeans, Absorbing, Holds, HolderRecorded, Renewable
    <2> QED
      BY <2>2, <2>3, <2>4
  <1> QED
    BY <1>1, PushInvariance, PushKeepsContract, HoldersAreRecorded, PTL
=============================================================================
