---------------------- MODULE RedisIdempotency_proofs ----------------------
(***************************************************************************)
(* RedisIdempotency implements the storage contract, for all values of the *)
(* constants, so that what is proved of the contract                       *)
(* (IdempotencyContract_proofs) holds of it.                               *)
(*                                                                         *)
(* RedisIdempotencyStorage decides on what it read commands ago.  That its *)
(* transaction still does what the contract's operation does in one step   *)
(* rests on Fits: if nobody broke the transaction the document is the one  *)
(* it read, and its decision holds of that document for good - a free key  *)
(* stays free as time passes, an owner stays the owner, a lease is no      *)
(* longer than a whole lease ahead, so that a renewal never shortens it.   *)
(* That Redis may drop a document at the end of its TTL rests on Sound.    *)
(***************************************************************************)
EXTENDS RedisIdempotency, TLAPS

-----------------------------------------------------------------------------
(* The inductive invariant. *)

(* What an attempt may know while one of its operations is under way. *)
During(op) == CASE op = "claim" -> {"new", "gone"}
                [] op = "complete" -> {"first", "gone"}
                [] op = "release" -> {"first", "unsure", "gone"}
                [] op = "renew" -> {"first", "done", "unsure", "released", "gone"}
                [] OTHER -> Contract!Phases

(* What the transaction queued by o's operation s decided is still right.  *)
Decided(o, s, t) ==
    CASE s.op = "claim" -> Outcome(s.seen, t) = "FIRST"
      [] s.op = "renew" -> /\ Renewable(s.seen, o)
                           /\ s.seen.lease_until <= s.lease
                           /\ s.lease <= t + Lease
      [] OTHER -> OwnedBy(s.seen, o)

(* Operation s of flow f fits what its attempt knows, p, and the document  *)
(* under its key, c.                                                       *)
Fits(f, s, p, c, t) ==
    /\ s.op = "none" <=> s.pc \in {"idle", "stopped"}
    /\ s.op \in {"claim", "complete", "release"} => f[2] = "main"
    /\ s.op = "renew" => f[2] = "renewal"
    /\ p \in During(s.op)
    /\ s.pc = "set_nx" => s.op = "claim"
    /\ s.op = "claim" => s.lease <= t + Lease
    /\ s.pc = "exec" => /\ Decided(f[1], s, t)
                        /\ ~s.dirty => s.seen = c

(* A document outlives the lease it grants, which is at most a whole lease *)
(* ahead.                                                                  *)
Sound(d, t) ==
    IF d.claim = NoClaim THEN d = NoDoc
    ELSE /\ d.claim.lease_until <= t + Lease
         /\ d.expires > 0
         /\ ~d.claim.completed => d.claim.lease_until <= d.expires

Flowing == \A f \in Flows :
              Fits(f, flow[f], phase[f[1]], redis[keyOf[f[1]]].claim, now)
Stored == \A k \in Keys : Sound(redis[k], now)
IInv == TypeOK /\ Flowing /\ Stored

-----------------------------------------------------------------------------
(* What the operators return. *)

USE LeaseIsPositive, RetentionAssumption, NoClaimAssumption

(* The contract's instance has its own copies of the document operators.   *)
LEMMA SameDocuments ==
    /\ Contract!Claim = Claim
    /\ \A c, o, t :
          /\ Contract!Fresh(o, t) = Fresh(o, t)
          /\ Contract!Lapsed(c, t) = Lapsed(c, t)
          /\ Contract!OwnedBy(c, o) = OwnedBy(c, o)
          /\ Contract!Renewable(c, o) = Renewable(c, o)
          /\ Contract!Outcome(c, t) = Outcome(c, t)
          /\ Contract!Completed(c, o) = Completed(c, o)
          /\ Contract!Released(c, o) = Released(c, o)
          /\ Contract!Renewed(c, o, t) = Renewed(c, o, t)
  BY DEF Contract!Claim, Claim, Contract!Fresh, Fresh, Contract!OwnedBy,
     OwnedBy,
         Contract!Renewable, Renewable, Contract!Outcome, Outcome,
         Contract!Pruned, Pruned, Contract!Lapsed, Lapsed,
         Contract!Completed, Completed, Contract!Released, Released,
         Contract!Renewed, Renewed

LEMMA Types ==
    TypeOK <=> /\ redis \in [Keys -> Doc]
               /\ now \in Nat
               /\ flow \in [Flows -> Flow]
               /\ phase \in [Owners -> Contract!Phases]
               /\ keyOf \in [Owners -> Keys]
               /\ until \in [Owners -> Nat]
  BY SameDocuments DEF TypeOK, Contract!TypeOK, claims, Doc

LEMMA FlowShape == \A f \in Flows : /\ f[1] \in Owners /\ f[2] \in Roles
                                    /\ f = <<f[1], f[2]>>
  BY DEF Flows

LEMMA IdleType == Idle \in Flow /\ Stopped \in Flow
  BY DEF Idle, Stopped, Flow, Ops, Steps

(* A free key stays free as time passes, and a lapsed lease lapsed. *)
LEMMA FreeStaysFree ==
    ASSUME NEW c \in Claim \cup {NoClaim}, NEW t \in Nat, NEW u \in Nat, t <= u,
           Outcome(c, t) = "FIRST"
    PROVE  Outcome(c, u) = "FIRST"
  BY DEF Outcome, Pruned, Lapsed, Claim

LEMMA FreeIsLapsed ==
    ASSUME NEW c, NEW t
    PROVE  Outcome(c, t) = "FIRST" <=> c = NoClaim \/ Lapsed(c, t)
  BY DEF Outcome, Pruned

-----------------------------------------------------------------------------
(* Three kinds of steps. *)

(* A flow goes on to its next command. *)
LEMMA Moves ==
    ASSUME IInv, NEW f \in Flows, NEW s \in Flow,
           flow' = [flow EXCEPT ![f] = s],
           UNCHANGED <<redis, now, phase, keyOf, until>>,
           Fits(f, s, phase[f[1]], redis[keyOf[f[1]]].claim, now)
    PROVE  IInv'
  <1>1. TypeOK'
    BY DEF IInv, TypeOK, Contract!TypeOK, claims
  <1>2. Flowing'
    <2> SUFFICES ASSUME NEW g \in Flows
                 PROVE  Fits(g, flow'[g], phase[g[1]], redis[keyOf[g[1]]].claim, now)
      BY DEF Flowing
    <2>1. g = f => flow'[g] = s
      BY DEF IInv, TypeOK
    <2>2. g # f => flow'[g] = flow[g]
      BY DEF IInv, TypeOK
    <2> QED
      BY <2>1, <2>2 DEF IInv, Flowing
  <1>3. Stored'
    BY DEF IInv, Stored
  <1> QED
    BY <1>1, <1>2, <1>3 DEF IInv

(* What the caller of f's operation may be told when it ends. *)
Answers(op) == CASE op = "claim" -> {"first", "completed", "active", "gone"}
                 [] op = "complete" -> {"done", "unsure"}
                 [] op = "release" -> {"released"}
                 [] OTHER -> {}

Told(f) == \/ flow[f].op = "renew" /\ UNCHANGED phase
           \/ \E a \in Answers(flow[f].op) : Learn(f[1], a)

Busy(f) == flow[f].pc \notin {"idle", "stopped"}

(* The other flow of the attempt can live with what f's caller is told. *)
LEMMA ToldFits ==
    ASSUME IInv, NEW f \in Flows, Busy(f), Told(f)
    PROVE  /\ phase' \in [Owners -> Contract!Phases]
           /\ \A g \in Flows : g # f => phase'[g[1]] \in During(flow[g].op)
  <1>1. /\ phase \in [Owners -> Contract!Phases] /\ flow \in [Flows -> Flow]
        /\ f[1] \in Owners /\ f[2] \in Roles /\ f = <<f[1], f[2]>>
    BY Types, FlowShape DEF IInv
  <1>2. CASE UNCHANGED phase
    BY <1>1, <1>2 DEF IInv, Flowing, Fits
  <1>3. ASSUME NEW a \in Answers(flow[f].op), Learn(f[1], a)
        PROVE  /\ phase' \in [Owners -> Contract!Phases]
               /\ \A g \in Flows : g # f => phase'[g[1]] \in During(flow[g].op)
    <2>1. a \in Contract!Phases
      BY <1>3 DEF Answers, Contract!Phases
    <2>2. phase' \in [Owners -> Contract!Phases]
      BY <1>1, <1>3, <2>1 DEF Learn, Contract!Phases
    <2> SUFFICES ASSUME NEW g \in Flows, g # f
                 PROVE  phase'[g[1]] \in During(flow[g].op)
      BY <2>2
    <2>3. /\ flow[g] \in Flow /\ phase[g[1]] \in During(flow[g].op)
          /\ g[1] \in Owners /\ g[2] \in Roles /\ g = <<g[1], g[2]>>
          /\ flow[g].op = "none" => phase'[g[1]] \in During(flow[g].op)
      BY <1>1, <2>2, FlowShape DEF IInv, Flowing, Fits, During
    <2>4. CASE g[1] # f[1]
      BY <1>1, <1>3, <2>3, <2>4 DEF Learn
    <2>5. CASE g[1] = f[1]
      <3>1. flow[f].op \in {"claim", "complete", "release"}
        BY <1>3 DEF Answers
      <3>2. f[2] = "main" /\ phase[f[1]] \in During(flow[f].op)
        BY <3>1 DEF IInv, Flowing, Fits
      <3>3. flow[g].op \in {"renew", "none"}
        BY <1>1, <2>3, <2>5, <3>2 DEF IInv, Flowing, Fits, Flow, Ops, Roles
      <3>4. CASE flow[g].op = "renew"
        <4>1. phase[g[1]] \in {"first", "done", "unsure", "released", "gone"}
          BY <2>3, <3>4 DEF During
        <4>2. phase'[g[1]] = IF phase[g[1]] # "gone" THEN a ELSE "gone"
          BY <1>1, <1>3, <2>3, <2>5 DEF Learn, Live
        <4>3. phase'[g[1]] \in {"first", "done", "unsure", "released", "gone"}
          BY <1>3, <2>5, <3>1, <3>2, <4>1, <4>2 DEF During, Answers
        <4> QED
          BY <3>4, <4>3 DEF During
      <3> QED
        BY <2>3, <3>3, <3>4
    <2> QED
      BY <2>4, <2>5
  <1> QED
    BY <1>2, <1>3 DEF Told

LEMMA OverIsRest == ASSUME NEW op PROVE Over(op) \in {Idle, Stopped}
  BY DEF Over

LEMMA RestFits ==
    ASSUME NEW f, NEW s \in {Idle, Stopped}, NEW p \in Contract!Phases, NEW c, NEW t
    PROVE  Fits(f, s, p, c, t)
  BY DEF Fits, Idle, Stopped, During

(* An operation ends without having written. *)
LEMMA Returns ==
    ASSUME IInv, NEW f \in Flows, Busy(f), Told(f),
           flow' = [flow EXCEPT ![f] = Over(flow[f].op)],
           UNCHANGED <<redis, now, keyOf, until>>
    PROVE  IInv'
  <1>0. Over(flow[f].op) \in {Idle, Stopped} /\ Over(flow[f].op) \in Flow
    BY OverIsRest, IdleType
  <1>1. /\ phase' \in [Owners -> Contract!Phases]
        /\ \A g \in Flows : g # f => phase'[g[1]] \in During(flow[g].op)
    BY ToldFits
  <1>2. TypeOK'
    BY <1>0, <1>1 DEF IInv, TypeOK, Contract!TypeOK, claims
  <1>3. Flowing'
    <2> SUFFICES ASSUME NEW g \in Flows
                 PROVE  Fits(g, flow'[g], phase'[g[1]], redis[keyOf[g[1]]].claim, now)
      BY DEF Flowing
    <2>1. CASE g = f
      <3>1. flow'[g] \in {Idle, Stopped} /\ phase'[g[1]] \in Contract!Phases
        BY <1>0, <1>1, <2>1, FlowShape DEF IInv, TypeOK
      <3> QED
        BY <3>1, RestFits
    <2>2. CASE g # f
      <3>1. flow'[g] = flow[g] /\ phase'[g[1]] \in During(flow[g].op)
        BY <1>1, <2>2 DEF IInv, TypeOK
      <3> QED
        BY <3>1 DEF IInv, Flowing, Fits
    <2> QED
      BY <2>1, <2>2
  <1>4. Stored'
    BY DEF IInv, Stored
  <1> QED
    BY <1>2, <1>3, <1>4 DEF IInv

(* What a write, or an expiry, does to the other flows. *)
Brushed(g, k) ==
    /\ flow'[g] \in {flow[g], [flow[g] EXCEPT !.dirty = TRUE]}
    /\ Watching(g, k) => flow'[g].dirty

LEMMA BrushedFits ==
    ASSUME IInv, NEW g \in Flows, NEW k \in Keys, Brushed(g, k), NEW d \in Doc,
           redis' = [redis EXCEPT ![k] = d], UNCHANGED <<now, keyOf>>,
           phase'[g[1]] \in During(flow[g].op)
    PROVE  /\ flow'[g] \in Flow
           /\ Fits(g, flow'[g], phase'[g[1]], redis'[keyOf[g[1]]].claim, now)
  <1>1. flow[g] \in Flow /\ g[1] \in Owners /\ keyOf[g[1]] \in Keys
        /\ redis \in [Keys -> Doc]
    BY FlowShape, Types DEF IInv
  <1>2. /\ flow'[g] \in Flow
        /\ flow'[g].op = flow[g].op /\ flow'[g].pc = flow[g].pc
        /\ flow'[g].seen = flow[g].seen /\ flow'[g].lease = flow[g].lease
        /\ flow'[g].dirty = flow[g].dirty \/ flow'[g].dirty
    BY <1>1 DEF Brushed, Flow
  <1>3. flow[g].pc = "exec" /\ ~flow'[g].dirty
           => /\ ~flow[g].dirty
              /\ redis'[keyOf[g[1]]] = redis[keyOf[g[1]]]
    BY <1>1, <1>2 DEF Brushed, Watching
  <1>4. Decided(g[1], flow'[g], now) <=> Decided(g[1], flow[g], now)
    BY <1>2 DEF Decided
  <1> QED
    BY <1>2, <1>3, <1>4 DEF IInv, Flowing, Fits

LEMMA StoresSound ==
    ASSUME IInv, NEW k \in Keys, NEW d \in Doc, Sound(d, now),
           redis' = [redis EXCEPT ![k] = d], UNCHANGED now
    PROVE  redis' \in [Keys -> Doc] /\ Stored'
  <1>1. redis \in [Keys -> Doc]
    BY Types DEF IInv
  <1> QED
    BY <1>1 DEF IInv, Stored

(* An operation writes, and it and its answer are over. *)
LEMMA Writes ==
    ASSUME IInv, NEW f \in Flows, Busy(f), Told(f),
           NEW d \in Doc, Sound(d, now), NEW s \in {Idle, Stopped},
           Write(f, d, s), UNCHANGED <<now, keyOf>>, until' \in [Owners -> Nat]
    PROVE  IInv'
  <1> DEFINE k == keyOf[f[1]]
  <1>0. /\ phase' \in [Owners -> Contract!Phases]
        /\ \A g \in Flows : g # f => phase'[g[1]] \in During(flow[g].op)
    BY ToldFits
  <1>1. k \in Keys /\ f[1] \in Owners /\ flow \in [Flows -> Flow] /\ s \in Flow
        /\ now \in Nat /\ keyOf \in [Owners -> Keys]
    BY FlowShape, Types, IdleType DEF IInv
  <1>2. redis' = [redis EXCEPT ![k] = d]
    BY DEF Write
  <1>3. redis' \in [Keys -> Doc] /\ Stored'
    BY <1>1, <1>2, StoresSound
  <1>4. /\ DOMAIN flow' = Flows /\ flow' = [g \in Flows |-> flow'[g]]
        /\ flow'[f] = s
        /\ \A g \in Flows : g # f => Brushed(g, k)
    <2>1. flow' = Touched([flow EXCEPT ![f] = s], f, k)
      BY DEF Write
    <2>2. flow'[f] = s
      BY <1>1, <2>1 DEF Touched
    <2>3. ASSUME NEW g \in Flows, g # f PROVE Brushed(g, k)
      <3>1. flow'[g] = IF Watching(g, k) THEN [flow[g] EXCEPT !.dirty = TRUE] ELSE flow[g]
        BY <1>1, <2>1, <2>3 DEF Touched
      <3>2. flow[g] \in Flow
        BY <1>1
      <3> QED
        BY <3>1, <3>2 DEF Brushed, Flow
    <2> QED
      BY <2>1, <2>2, <2>3 DEF Touched
  <1>5. ASSUME NEW g \in Flows
        PROVE  /\ flow'[g] \in Flow
               /\ Fits(g, flow'[g], phase'[g[1]], redis'[keyOf[g[1]]].claim, now)
    <2>1. CASE g = f
      <3>1. phase'[g[1]] \in Contract!Phases
        BY <1>0, FlowShape
      <3> QED
        BY <1>1, <1>4, <2>1, <3>1, RestFits
    <2>2. CASE g # f
      BY <1>0, <1>1, <1>2, <1>4, <2>2, BrushedFits
    <2> QED
      BY <2>1, <2>2
  <1>6. TypeOK'
    <2>1. flow' \in [Flows -> Flow]
      BY <1>4, <1>5
    <2>2. redis' \in [Keys -> Doc] /\ now' \in Nat /\ keyOf' \in [Owners -> Keys]
      BY <1>1, <1>3
    <2>3. claims' \in [Keys -> Contract!Claim \cup {NoClaim}]
      BY <2>2, SameDocuments DEF claims, Doc
    <2> QED
      BY <1>0, <2>1, <2>2, <2>3 DEF TypeOK, Contract!TypeOK
  <1>7. Flowing'
    BY <1>5 DEF Flowing
  <1> QED
    BY <1>3, <1>6, <1>7 DEF IInv

-----------------------------------------------------------------------------
(* Every step keeps the invariant and is a step of the contract, or none.  *)

Implements == Contract!Next \/ UNCHANGED Contract!vars
Good == IInv' /\ Implements

LEMMA ClaimsKept == UNCHANGED <<redis, now, phase, keyOf, until>> => UNCHANGED Contract!vars
  BY DEF Contract!vars, claims

LEMMA ClaimsWritten ==
    ASSUME TypeOK, NEW k \in Keys, NEW d \in Doc, redis' = [redis EXCEPT ![k] = d]
    PROVE  claims' = [claims EXCEPT ![k] = d.claim]
  BY Types DEF claims

LEMMA ClaimsRead == ASSUME TypeOK, NEW k \in Keys
                    PROVE  claims[k] = redis[k].claim /\ claims[k] \in Claim \cup {NoClaim}
  BY Types DEF claims, Doc

LEMMA OwnersStep == ASSUME NEW o \in Owners, Contract!OwnerStep(o) PROVE Implements
  BY DEF Implements, Contract!Next

LEMMA MoveGood ==
    ASSUME IInv, NEW f \in Flows, NEW s \in Flow,
           flow' = [flow EXCEPT ![f] = s],
           UNCHANGED <<redis, now, phase, keyOf, until>>,
           Fits(f, s, phase[f[1]], redis[keyOf[f[1]]].claim, now)
    PROVE  Good
  BY Moves, ClaimsKept DEF Good, Implements

LEMMA FlowFacts ==
    ASSUME IInv, NEW f \in Flows
    PROVE  /\ f[1] \in Owners /\ f[2] \in Roles /\ f = <<f[1], f[2]>>
           /\ keyOf[f[1]] \in Keys
           /\ redis[keyOf[f[1]]] \in Doc
           /\ flow[f] \in Flow
           /\ now \in Nat
           /\ phase[f[1]] \in Contract!Phases
           /\ claims[keyOf[f[1]]] = redis[keyOf[f[1]]].claim
           /\ Fits(f, flow[f], phase[f[1]], redis[keyOf[f[1]]].claim, now)
           /\ Sound(redis[keyOf[f[1]]], now)
  BY FlowShape, Types, ClaimsRead DEF IInv, Flowing, Stored

LEMMA StartGood ==
    ASSUME IInv, NEW o \in Owners, Call(o)
    PROVE  Good
  <1>1. ASSUME NEW f \in Flows, NEW s \in Flow, f[1] = o,
               flow' = [flow EXCEPT ![f] = s], s.pc \in {"watch", "set_nx"},
               UNCHANGED <<redis, now, phase, keyOf, until>>,
               s.op \in {"claim", "complete", "release"} => f[2] = "main",
               s.op = "renew" => f[2] = "renewal",
               s.op # "none", phase[o] \in During(s.op),
               s.pc = "set_nx" => s.op = "claim",
               s.op = "claim" => s.lease <= now + Lease
        PROVE  Good
    <2>1. Fits(f, s, phase[f[1]], redis[keyOf[f[1]]].claim, now)
      BY <1>1 DEF Fits
    <2> QED
      BY <1>1, <2>1, MoveGood
  <1>2. /\ <<o, "main">> \in Flows /\ <<o, "renewal">> \in Flows
        /\ now \in Nat
    BY Types DEF Flows, Roles, IInv
  <1>3. CASE StartClaim(o)
    <2> DEFINE s == [Idle EXCEPT !.op = "claim", !.pc = "set_nx", !.lease = now + Lease]
    <2>1. s \in Flow /\ s.op = "claim" /\ s.pc = "set_nx" /\ s.lease = now + Lease
      <3>1. now + Lease \in Nat
        BY <1>2
      <3>2. Idle \in Flow
        BY IdleType
      <3>3. \A n \in Nat : [Idle EXCEPT !.op = "claim", !.pc = "set_nx", !.lease = n] \in Flow
        BY <3>2 DEF Flow, Ops, Steps
      <3>4. s.op = "claim"
        BY <3>2 DEF Flow
      <3>5. s.pc = "set_nx"
        BY <3>2 DEF Flow
      <3>6. s.lease = now + Lease
        BY <3>2 DEF Flow
      <3> QED
        BY <3>1, <3>3, <3>4, <3>5, <3>6
    <2>3. phase[o] \in During("claim")
      BY <1>3 DEF StartClaim, During
    <2>4. <<o, "main">>[1] = o /\ <<o, "main">>[2] = "main"
      OBVIOUS
    <2>5. s.lease <= now + Lease
      BY <1>2, <2>1
    <2>2. /\ flow' = [flow EXCEPT ![<<o, "main">>] = s]
          /\ UNCHANGED <<redis, now, phase, keyOf, until>>
      BY <1>3 DEF StartClaim
    <2> HIDE DEF s
    <2> QED
      BY <1>1, <1>2, <2>1, <2>2, <2>3, <2>4, <2>5
  <1>4. ASSUME NEW r \in Roles, NEW op \in {"complete", "release", "renew"},
               Start(<<o, r>>, op), op = "renew" <=> r = "renewal",
               phase[o] \in During(op)
        PROVE  Good
    <2> DEFINE s == [Idle EXCEPT !.op = op, !.pc = "watch"]
    <2>1. s \in Flow /\ s.op = op /\ s.pc = "watch"
      BY DEF Idle, Flow, Ops, Steps
    <2>2. /\ flow' = [flow EXCEPT ![<<o, r>>] = s]
          /\ UNCHANGED <<redis, now, phase, keyOf, until>>
      BY <1>4 DEF Start
    <2>3. <<o, r>> \in Flows /\ (r # "renewal" => r = "main")
      BY DEF Flows, Roles
    <2> HIDE DEF s
    <2> QED
      BY <1>1, <1>4, <2>1, <2>2, <2>3
  <1>5. CASE StartComplete(o)
    BY <1>4, <1>5 DEF StartComplete, During, Roles
  <1>6. CASE StartRelease(o)
    BY <1>4, <1>6 DEF StartRelease, During, Roles
  <1>7. CASE StartRenew(o)
    BY <1>4, <1>7 DEF StartRenew, During, Roles
  <1> QED
    BY <1>3, <1>5, <1>6, <1>7 DEF Call

LEMMA WatchGood ==
    ASSUME IInv, NEW f \in Flows, Watch(f)
    PROVE  Good
  <1> DEFINE s == [flow[f] EXCEPT !.pc = "get", !.dirty = FALSE]
  <1>1. /\ s \in Flow /\ s.op = flow[f].op /\ s.pc = "get" /\ s.lease = flow[f].lease
    BY FlowFacts DEF Flow, Steps
  <1>2. /\ flow' = [flow EXCEPT ![f] = s]
        /\ UNCHANGED <<redis, now, phase, keyOf, until>>
        /\ flow[f].pc = "watch"
    BY FlowFacts DEF Watch
  <1> HIDE DEF s
  <1>3. Fits(f, s, phase[f[1]], redis[keyOf[f[1]]].claim, now)
    BY <1>1, <1>2, FlowFacts DEF Fits
  <1> QED
    BY <1>1, <1>2, <1>3, MoveGood

LEMMA WatchErrorGood ==
    ASSUME IInv, NEW f \in Flows, WatchError(f)
    PROVE  Good
  <1> DEFINE s == [flow[f] EXCEPT !.pc = "watch", !.seen = NoClaim]
  <1>1. /\ s \in Flow /\ s.op = flow[f].op /\ s.pc = "watch" /\ s.lease = flow[f].lease
    BY FlowFacts DEF Flow, Steps
  <1>2. /\ flow' = [flow EXCEPT ![f] = s]
        /\ UNCHANGED <<redis, now, phase, keyOf, until>>
        /\ flow[f].pc = "exec"
    BY FlowFacts DEF WatchError
  <1> HIDE DEF s
  <1>3. Fits(f, s, phase[f[1]], redis[keyOf[f[1]]].claim, now)
    BY <1>1, <1>2, FlowFacts DEF Fits
  <1> QED
    BY <1>1, <1>2, <1>3, MoveGood

(* A document with a fresh lease, written for a free key: a grant. *)
LEMMA GrantGood ==
    ASSUME IInv, NEW f \in Flows, Busy(f), flow[f].op = "claim",
           Outcome(redis[keyOf[f[1]]].claim, now) = "FIRST",
           NEW s \in {Idle, Stopped},
           Write(f, [claim |-> Fresh(f[1], flow[f].lease),
                     expires |-> now + Lease], s),
           UNCHANGED <<now, keyOf>>,
           \/ /\ Live(f[1]) /\ Learn(f[1], "first")
              /\ until' = [until EXCEPT ![f[1]] = flow[f].lease]
           \/ Learn(f[1], "gone") /\ UNCHANGED until
    PROVE  Good
  <1> DEFINE o == f[1]
             k == keyOf[o]
             d == [claim |-> Fresh(o, flow[f].lease), expires |-> now + Lease]
  <1>1. /\ o \in Owners /\ k \in Keys /\ flow[f] \in Flow /\ now \in Nat
        /\ phase[o] \in {"new", "gone"} /\ flow[f].lease <= now + Lease
        /\ flow[f].lease \in Nat
        /\ claims[k] = redis[k].claim
        /\ phase \in [Owners -> Contract!Phases] /\ until \in [Owners -> Nat]
    BY FlowFacts, Types DEF Fits, During, Flow, IInv
  <1>2. d \in Doc /\ Sound(d, now) /\ d.claim = Fresh(o, flow[f].lease)
    <2>1. /\ Fresh(o, flow[f].lease) \in Claim
          /\ Fresh(o, flow[f].lease).lease_until = flow[f].lease
      BY <1>1 DEF Fresh, Claim
    <2>2. now + Lease \in Nat /\ now + Lease > 0
      BY <1>1
    <2>3. d.claim = Fresh(o, flow[f].lease) /\ d.expires = now + Lease /\ d \in Doc
      BY <2>1, <2>2 DEF Doc
    <2> HIDE DEF d
    <2> QED
      BY <1>1, <2>1, <2>2, <2>3 DEF Sound
  <1>3. Told(f)
    BY DEF Told, Answers
  <1>4. until' \in [Owners -> Nat]
    BY <1>1
  <1>5. Write(f, d, s)
    OBVIOUS
  <1>6. redis' = [redis EXCEPT ![k] = d]
    BY <1>5 DEF Write
  <1> HIDE DEF d
  <1>7. IInv'
    BY <1>2, <1>3, <1>4, <1>5, Writes
  <1>8. claims' = [claims EXCEPT ![k] = Fresh(o, flow[f].lease)]
    BY <1>1, <1>2, <1>6, ClaimsWritten DEF IInv
  <1>9. Contract!Grant(o)
    <2>1. flow[f].lease \in 0 .. now + Lease
      BY <1>1
    <2>2. \/ /\ phase[o] = "new" /\ phase' = [phase EXCEPT ![o] = "first"]
             /\ until' = [until EXCEPT ![o] = flow[f].lease]
          \/ phase' = [phase EXCEPT ![o] = "gone"] /\ UNCHANGED until
      BY <1>1 DEF Learn, Live
    <2>3. /\ Contract!Outcome(claims[k], now) = "FIRST"
          /\ claims' = [claims EXCEPT ![k] = Contract!Fresh(o, flow[f].lease)]
      BY <1>1, <1>8, SameDocuments
    <2> QED
      BY <1>1, <2>1, <2>2, <2>3 DEF Contract!Grant
  <1> QED
    BY <1>1, <1>7, <1>9, OwnersStep DEF Good, Contract!OwnerStep

LEMMA SetNxGood ==
    ASSUME IInv, NEW f \in Flows, SetNx(f)
    PROVE  Good
  <1>1. Busy(f) /\ flow[f].op = "claim" /\ Live(f[1]) /\ flow[f] \in Flow
    BY FlowFacts DEF SetNx, Busy, Fits
  <1>2. CASE redis[keyOf[f[1]]] = NoDoc
    <2>1. Outcome(redis[keyOf[f[1]]].claim, now) = "FIRST"
      BY <1>2, FreeIsLapsed DEF NoDoc
    <2> QED
      BY <1>1, <1>2, <2>1, GrantGood DEF SetNx
  <1>3. CASE redis[keyOf[f[1]]] # NoDoc
    <2> DEFINE s == [flow[f] EXCEPT !.pc = "watch"]
    <2>1. /\ s \in Flow /\ s.op = "claim" /\ s.pc = "watch" /\ s.lease = flow[f].lease
      BY <1>1 DEF Flow, Steps
    <2>2. /\ flow' = [flow EXCEPT ![f] = s]
          /\ UNCHANGED <<redis, now, phase, keyOf, until>>
          /\ flow[f].pc = "set_nx"
      BY <1>3, FlowFacts DEF SetNx
    <2> HIDE DEF s
    <2>3. Fits(f, s, phase[f[1]], redis[keyOf[f[1]]].claim, now)
      BY <1>1, <2>1, <2>2, FlowFacts DEF Fits
    <2> QED
      BY <2>1, <2>2, <2>3, MoveGood
  <1> QED
    BY <1>2, <1>3

(* An operation returns what it read. *)
LEMMA GetGood ==
    ASSUME IInv, NEW f \in Flows, Get(f)
    PROVE  Good
  <1> DEFINE o == f[1]
             c == redis[keyOf[o]].claim
             op == flow[f].op
  <1>1. /\ flow[f].pc = "get" /\ Busy(f) /\ Live(o) /\ o \in Owners
        /\ flow[f] \in Flow /\ keyOf[o] \in Keys /\ now \in Nat
        /\ c \in Claim \cup {NoClaim} /\ claims[keyOf[o]] = c
        /\ phase[o] \in During(op) /\ op # "none"
        /\ Fits(f, flow[f], phase[o], c, now) /\ Sound(redis[keyOf[o]], now)
    BY FlowFacts DEF Get, Busy, Fits, Doc
  <1>2. CASE Queues(f, c)
    <2> DEFINE s == [flow[f] EXCEPT !.pc = "exec", !.seen = c,
                       !.lease = IF op = "renew" THEN now + Lease ELSE @]
    <2>1. /\ s \in Flow /\ s.op = op /\ s.pc = "exec" /\ s.seen = c
          /\ s.lease = IF op = "renew" THEN now + Lease ELSE flow[f].lease
      <3> DEFINE n == IF op = "renew" THEN now + Lease ELSE flow[f].lease
      <3>1. s = [flow[f] EXCEPT !.pc = "exec", !.seen = c, !.lease = n]
        OBVIOUS
      <3>2. n \in Nat
        BY <1>1 DEF Flow
      <3> HIDE DEF s, n, op
      <3>3. /\ s.op = flow[f].op /\ s.pc = "exec" /\ s.seen = c
            /\ s.lease = n
        BY <1>1, <3>1 DEF Flow
      <3>4. s \in Flow
        BY <1>1, <3>1, <3>2 DEF Flow, Steps
      <3> QED
        BY <3>3, <3>4 DEF n, op
    <2>2. /\ flow' = [flow EXCEPT ![f] = s]
          /\ UNCHANGED <<redis, now, phase, keyOf, until>>
      BY <1>1, <1>2 DEF Get
    <2> HIDE DEF s
    <2>3. Decided(o, s, now)
      BY <1>1, <1>2, <2>1 DEF Queues, Decided, Renewable, OwnedBy, Sound
    <2>4. Fits(f, s, phase[o], c, now)
      BY <1>1, <2>1, <2>3 DEF Fits
    <2> QED
      BY <2>1, <2>2, <2>4, MoveGood
  <1>3. CASE ~Queues(f, c)
    <2>1. ReturnRead(f, Answer(f, c))
      BY <1>3 DEF Get
    <2>2. UNCHANGED <<redis, now, keyOf, until>> /\ UNCHANGED claims
          /\ flow' = [flow EXCEPT ![f] = Over(op)]
      BY <2>1 DEF ReturnRead, claims
    <2>3. CASE op = "claim"
      <3>1. Learn(o, IF Outcome(c, now) = "COMPLETED" THEN "completed" ELSE "active")
        BY <2>1, <2>3 DEF ReturnRead, Answer
      <3>2. phase[o] = "new" /\ Outcome(c, now) # "FIRST"
        BY <1>1, <1>3, <2>3 DEF During, Live, Queues
      <3>3. Contract!Refuse(o)
        BY <1>1, <2>2, <3>1, <3>2, SameDocuments
           DEF Contract!Refuse, Learn, Live
      <3>4. Told(f)
        BY <2>3, <3>1 DEF Told, Answers
      <3> QED
        BY <1>1, <2>2, <3>3, <3>4, Returns, OwnersStep
           DEF Good, Contract!OwnerStep
    <2>4. CASE op = "renew"
      <3>1. UNCHANGED phase
        BY <2>1, <2>4 DEF ReturnRead
      <3>2. Told(f)
        BY <2>4, <3>1 DEF Told
      <3> QED
        BY <1>1, <2>2, <3>1, <3>2, Returns, ClaimsKept DEF Good, Implements
    <2>5. CASE op = "complete"
      <3>1. Learn(o, "done")
        BY <2>1, <2>5 DEF ReturnRead, Answer, Answered
      <3>2. phase[o] = "first" /\ ~OwnedBy(c, o)
        BY <1>1, <1>3, <2>5 DEF During, Live, Queues
      <3>3. Contract!Completed(claims[keyOf[o]], o) = claims[keyOf[o]]
        BY <1>1, <3>2, SameDocuments DEF Completed
      <3>4. claims' = [claims EXCEPT ![keyOf[o]] = Contract!Completed(@, o)]
        BY <1>1, <2>2, <3>3 DEF claims
      <3>6. Contract!Complete(o)
        BY <1>1, <2>2, <3>1, <3>2, <3>4 DEF Contract!Complete, Learn, Live
      <3>5. Told(f)
        BY <2>5, <3>1 DEF Told, Answers
      <3> QED
        BY <1>1, <2>2, <3>5, <3>6, Returns, OwnersStep
           DEF Good, Contract!OwnerStep
    <2>6. CASE op = "release"
      <3>1. Learn(o, "released")
        BY <2>1, <2>6 DEF ReturnRead, Answer, Answered
      <3>2. phase[o] \in {"first", "unsure"} /\ ~OwnedBy(c, o)
        BY <1>1, <1>3, <2>6 DEF During, Live, Queues
      <3>3. Contract!Released(claims[keyOf[o]], o) = claims[keyOf[o]]
        BY <1>1, <3>2, SameDocuments DEF Released
      <3>4. claims' = [claims EXCEPT ![keyOf[o]] = Contract!Released(@, o)]
        BY <1>1, <2>2, <3>3 DEF claims
      <3>6. Contract!Release(o)
        BY <1>1, <2>2, <3>1, <3>2, <3>4 DEF Contract!Release, Learn, Live
      <3>5. Told(f)
        BY <2>6, <3>1 DEF Told, Answers
      <3> QED
        BY <1>1, <2>2, <3>5, <3>6, Returns, OwnersStep
           DEF Good, Contract!OwnerStep
    <2> QED
      BY <1>1, <2>3, <2>4, <2>5, <2>6 DEF Flow, Ops
  <1> QED
    BY <1>2, <1>3

(* A transaction that nobody broke finds the document its operation read:  *)
(* it does what the operation does in one step.                            *)
LEMMA ExecGood ==
    ASSUME IInv, NEW f \in Flows, flow[f].pc = "exec", ~flow[f].dirty,
           NEW s \in {Idle, Stopped}, Write(f, ExecDoc(f), s),
           UNCHANGED <<now, keyOf>>,
           flow[f].op = "claim" =>
              \/ /\ Live(f[1]) /\ Learn(f[1], "first")
                 /\ until' = [until EXCEPT ![f[1]] = flow[f].lease]
              \/ Learn(f[1], "gone") /\ UNCHANGED until,
           flow[f].op = "complete" =>
              UNCHANGED until /\ \E a \in {"done", "unsure"} : Learn(f[1], a),
           flow[f].op = "release" => UNCHANGED until /\ Learn(f[1], "released"),
           flow[f].op = "renew" =>
              UNCHANGED phase /\ until' \in {until, [until EXCEPT ![f[1]] = flow[f].lease]}
    PROVE  Good
  <1> DEFINE o == f[1]
             k == keyOf[o]
             c == redis[k].claim
             op == flow[f].op
             lease == flow[f].lease
             d == ExecDoc(f)
  <1>1. /\ Busy(f) /\ o \in Owners /\ k \in Keys /\ flow[f] \in Flow
        /\ now \in Nat /\ lease \in Nat /\ c \in Claim \cup {NoClaim}
        /\ claims[k] = c /\ flow[f].seen = c
        /\ phase[o] \in During(op) /\ op # "none"
        /\ Decided(o, flow[f], now) /\ Sound(redis[k], now)
        /\ phase \in [Owners -> Contract!Phases] /\ until \in [Owners -> Nat]
    BY FlowFacts, Types DEF Busy, Fits, Doc, Flow, IInv
  <1>2. now + Lease \in Nat /\ now + Lease > 0
        /\ now + Retention \in Nat /\ now + Retention > 0
    BY <1>1
  <1>3. redis' = [redis EXCEPT ![k] = d]
    BY DEF Write
  <1>4. ASSUME d \in Doc, Sound(d, now), Told(f), until' \in [Owners -> Nat]
        PROVE  IInv' /\ claims' = [claims EXCEPT ![k] = d.claim]
    <2>1. IInv'
      BY <1>1, <1>4, Writes
    <2> HIDE DEF d
    <2> QED
      BY <1>1, <1>3, <1>4, <2>1, ClaimsWritten DEF IInv
  <1>5. CASE op = "claim"
    <2>1. d = [claim |-> Fresh(o, lease), expires |-> now + Lease]
      BY <1>5 DEF ExecDoc
    <2>2. Outcome(c, now) = "FIRST"
      BY <1>1, <1>5 DEF Decided
    <2> QED
      BY <1>1, <1>5, <2>1, <2>2, GrantGood
  <1>6. CASE op = "renew"
    <2>1. d = [claim |-> Fresh(o, lease), expires |-> now + Lease]
      BY <1>6 DEF ExecDoc
    <2> HIDE DEF d
    <2>2. Renewable(c, o) /\ c \in Claim /\ c.lease_until <= lease /\ lease <= now + Lease
      BY <1>1, <1>6 DEF Decided, Renewable, OwnedBy
    <2>3. Fresh(o, lease) \in Claim /\ Fresh(o, lease).lease_until = lease
      BY <1>1 DEF Fresh, Claim
    <2>4. d.claim = Fresh(o, lease) /\ d.expires = now + Lease /\ d \in Doc
      BY <1>2, <2>1, <2>3 DEF Doc
    <2>5. Sound(d, now)
      BY <1>1, <1>2, <2>2, <2>3, <2>4 DEF Sound
    <2>6. Told(f)
      BY <1>6 DEF Told
    <2>7. until' \in [Owners -> Nat]
      BY <1>1, <1>6
    <2>8. IInv' /\ claims' = [claims EXCEPT ![k] = Fresh(o, lease)]
      BY <1>4, <2>4, <2>5, <2>6, <2>7
    <2>9. Fresh(o, lease) = Renewed(c, o, lease)
      BY <1>1, <2>2 DEF Fresh, Renewed, Renewable, OwnedBy, Claim
    <2>10. lease \in c.lease_until .. now + Lease
      BY <1>1, <2>2 DEF Claim
    <2>11. phase[o] \notin {"new", "completed", "active"}
      BY <1>1, <1>6 DEF During
    <2>12. Contract!Renew(o)
      BY <1>1, <1>6, <2>2, <2>8, <2>9, <2>10, <2>11, SameDocuments
         DEF Contract!Renew
    <2> QED
      BY <1>1, <2>8, <2>12, OwnersStep DEF Good, Contract!OwnerStep
  <1>7. CASE op = "complete"
    <2>1. d = [claim |-> Completed(c, o), expires |-> now + Retention]
      BY <1>1, <1>7 DEF ExecDoc
    <2> HIDE DEF d
    <2>2. OwnedBy(c, o) /\ c \in Claim /\ c.lease_until <= now + Lease
      BY <1>1, <1>7 DEF Decided, OwnedBy, Sound
    <2>3. /\ Completed(c, o) \in Claim /\ Completed(c, o).completed
          /\ Completed(c, o).lease_until = c.lease_until
      BY <2>2 DEF Completed, Claim
    <2>4. d.claim = Completed(c, o) /\ d.expires = now + Retention /\ d \in Doc
      BY <1>2, <2>1, <2>3 DEF Doc
    <2>5. Sound(d, now)
      BY <1>1, <1>2, <2>2, <2>3, <2>4 DEF Sound
    <2>6. Told(f)
      BY <1>7 DEF Told, Answers
    <2>7. IInv' /\ claims' = [claims EXCEPT ![k] = Completed(c, o)]
      BY <1>1, <1>4, <1>7, <2>4, <2>5, <2>6
    <2>8. phase[o] \in {"first", "gone"}
      BY <1>1, <1>7 DEF During
    <2>9. \/ phase[o] = "first" /\ phase' = [phase EXCEPT ![o] = "done"]
          \/ phase[o] = "first" /\ phase' = [phase EXCEPT ![o] = "unsure"]
          \/ phase[o] = "gone" /\ UNCHANGED phase
      BY <1>1, <1>7, <2>8 DEF Learn, Live
    <2>10. Contract!Complete(o)
      BY <1>1, <1>7, <2>7, <2>8, <2>9, SameDocuments DEF Contract!Complete
    <2> QED
      BY <1>1, <2>7, <2>10, OwnersStep DEF Good, Contract!OwnerStep
  <1>8. CASE op = "release"
    <2>1. d = NoDoc
      BY <1>8 DEF ExecDoc
    <2> HIDE DEF d
    <2>2. OwnedBy(c, o) /\ Released(c, o) = NoClaim
      BY <1>1, <1>8 DEF Decided, Released
    <2>3. d.claim = NoClaim /\ d \in Doc /\ Sound(d, now)
      BY <2>1 DEF NoDoc, Doc, Sound
    <2>4. Told(f)
      BY <1>8 DEF Told, Answers
    <2>5. IInv' /\ claims' = [claims EXCEPT ![k] = Released(c, o)]
      BY <1>1, <1>4, <1>8, <2>2, <2>3, <2>4
    <2>6. phase[o] \in {"first", "unsure", "gone"}
      BY <1>1, <1>8 DEF During
    <2>7. claims' = [claims EXCEPT ![k] = Contract!Released(@, o)]
      BY <1>1, <2>5, SameDocuments
    <2>8. Contract!Release(o)
      BY <1>1, <1>8, <2>6, <2>7 DEF Contract!Release, Learn, Live
    <2> QED
      BY <1>1, <2>5, <2>8, OwnersStep DEF Good, Contract!OwnerStep
  <1> QED
    BY <1>1, <1>5, <1>6, <1>7, <1>8 DEF Flow, Ops

LEMMA ExecsGood ==
    ASSUME IInv, NEW f \in Flows, Exec(f)
    PROVE  Good
  <1>1. flow[f].pc = "exec" /\ ~flow[f].dirty /\ Live(f[1]) /\ flow[f] \in Flow
    BY FlowFacts DEF Exec
  <1>2. ExecWrites(f)
    BY <1>1, FlowFacts DEF ExecWrites, Fits, Sound
  <1>3. /\ Write(f, ExecDoc(f), Idle) /\ UNCHANGED <<now, keyOf>>
        /\ CASE flow[f].op = "claim" -> Learn(f[1], "first")
             [] flow[f].op = "renew" -> UNCHANGED phase
             [] OTHER -> Learn(f[1], Answered(flow[f].op))
        /\ until' = [until EXCEPT ![f[1]] = IF flow[f].op \in {"claim", "renew"}
                                            THEN flow[f].lease ELSE @]
    BY <1>2 DEF Exec
  <1>4. until \in [Owners -> Nat]
    BY Types DEF IInv
  <1>5. CASE flow[f].op = "claim"
    BY <1>1, <1>3, <1>5, ExecGood
  <1>6. CASE flow[f].op = "renew"
    BY <1>1, <1>3, <1>6, ExecGood
  <1>7. CASE flow[f].op = "complete"
    BY <1>1, <1>3, <1>4, <1>7, ExecGood DEF Answered
  <1>8. CASE flow[f].op = "release"
    BY <1>1, <1>3, <1>4, <1>8, ExecGood DEF Answered
  <1>9. flow[f].op # "none"
    BY <1>1, FlowFacts DEF Fits
  <1> QED
    BY <1>1, <1>5, <1>6, <1>7, <1>8, <1>9 DEF Flow, Ops

LEMMA AnswerLostGood ==
    ASSUME IInv, NEW f \in Flows, AnswerLost(f)
    PROVE  Good
  <1> DEFINE op == flow[f].op
             s == Over(op)
  <1>1. /\ flow[f] \in Flow /\ s \in {Idle, Stopped}
        /\ UNCHANGED <<now, keyOf, until>>
        /\ IF op = "renew" THEN UNCHANGED phase ELSE Learn(f[1], Raised(op))
        /\ Fits(f, flow[f], phase[f[1]], redis[keyOf[f[1]]].claim, now)
    BY FlowFacts, OverIsRest DEF AnswerLost
  <1>2. CASE /\ flow[f].pc = "set_nx"
             /\ redis[keyOf[f[1]]] = NoDoc
             /\ Write(f, [claim |-> Fresh(f[1], flow[f].lease),
                          expires |-> now + Lease], s)
    <2>1. op = "claim" /\ Busy(f) /\ Learn(f[1], "gone")
      BY <1>1, <1>2 DEF Fits, Busy, Raised
    <2>2. Outcome(redis[keyOf[f[1]]].claim, now) = "FIRST"
      BY <1>2, FreeIsLapsed DEF NoDoc
    <2> QED
      BY <1>1, <1>2, <2>1, <2>2, GrantGood
  <1>3. CASE /\ flow[f].pc = "exec" /\ ~flow[f].dirty
             /\ Write(f, ExecDoc(f), s)
    <2>1. op = "claim" => Learn(f[1], "gone")
      BY <1>1 DEF Raised
    <2>2. op = "complete" => Learn(f[1], "unsure")
      BY <1>1 DEF Raised
    <2>3. op = "release" => Learn(f[1], "released")
      BY <1>1 DEF Raised
    <2>4. op = "renew" => UNCHANGED phase
      BY <1>1
    <2> QED
      BY <1>1, <1>3, <2>1, <2>2, <2>3, <2>4, ExecGood
  <1> QED
    BY <1>2, <1>3 DEF AnswerLost

LEMMA RaiseGood ==
    ASSUME IInv, NEW f \in Flows, Raise(f)
    PROVE  Good
  <1> DEFINE o == f[1]
             op == flow[f].op
  <1>1. /\ flow[f] \in Flow /\ Busy(f) /\ o \in Owners /\ op # "none"
        /\ phase[o] \in During(op) /\ phase \in [Owners -> Contract!Phases]
        /\ flow' = [flow EXCEPT ![f] = Over(op)]
        /\ UNCHANGED <<redis, now, keyOf, until>> /\ UNCHANGED claims
        /\ IF op = "renew" THEN UNCHANGED phase ELSE Learn(o, Raised(op))
    BY FlowFacts, Types DEF Raise, Busy, Fits, IInv, claims
  <1>2. Told(f)
    BY <1>1 DEF Told, Answers, Raised, Flow, Ops
  <1>3. IInv'
    BY <1>1, <1>2, Returns
  <1>4. Implements
    <2>1. CASE op = "renew" \/ phase[o] = "gone"
      <3>1. UNCHANGED phase
        BY <1>1, <2>1 DEF Learn, Live
      <3> QED
        BY <1>1, <3>1, ClaimsKept DEF Implements
    <2>2. CASE op = "claim" /\ phase[o] # "gone"
      <3>1. Contract!Abandon(o)
        BY <1>1, <2>2 DEF Learn, Live, Raised, During, Contract!Abandon
      <3> QED
        BY <1>1, <3>1, OwnersStep DEF Contract!OwnerStep
    <2>3. CASE op = "complete" /\ phase[o] # "gone"
      <3>1. Contract!CompleteFails(o)
        BY <1>1, <2>3 DEF Learn, Live, Raised, During, Contract!CompleteFails
      <3> QED
        BY <1>1, <3>1, OwnersStep DEF Contract!OwnerStep
    <2>4. CASE op = "release" /\ phase[o] # "gone"
      <3>1. Contract!ReleaseFails(o)
        BY <1>1, <2>4 DEF Learn, Live, Raised, During, Contract!ReleaseFails
      <3> QED
        BY <1>1, <3>1, OwnersStep DEF Contract!OwnerStep
    <2> QED
      BY <1>1, <2>1, <2>2, <2>3, <2>4 DEF Flow, Ops
  <1> QED
    BY <1>3, <1>4 DEF Good

LEMMA AbandonGood ==
    ASSUME IInv, NEW o \in Owners, Abandon(o)
    PROVE  Good
  <1>1. /\ UNCHANGED <<redis, now, flow, keyOf, until>> /\ UNCHANGED claims
        /\ phase[o] \in {"new", "first", "unsure"}
        /\ phase' = [phase EXCEPT ![o] = "gone"]
    BY DEF Abandon, claims
  <1>2. phase' \in [Owners -> Contract!Phases]
        /\ \A p \in Owners : phase'[p] = IF p = o THEN "gone" ELSE phase[p]
    BY <1>1, Types DEF IInv, Contract!Phases
  <1>3. \A op : "gone" \in During(op)
    BY DEF During, Contract!Phases
  <1>4. TypeOK'
    BY <1>1, <1>2 DEF IInv, TypeOK, Contract!TypeOK
  <1>5. Flowing'
    BY <1>1, <1>2, <1>3, FlowShape DEF IInv, Flowing, Fits
  <1>6. Stored'
    BY <1>1 DEF IInv, Stored
  <1>7. Contract!Abandon(o)
    BY <1>1 DEF Contract!Abandon
  <1> QED
    BY <1>4, <1>5, <1>6, <1>7, OwnersStep DEF IInv, Good, Contract!OwnerStep

LEMMA TickGood ==
    ASSUME IInv, Tick
    PROVE  Good
  <1>1. /\ UNCHANGED <<redis, flow, phase, keyOf, until>> /\ UNCHANGED claims
        /\ now \in Nat /\ now' = now + 1 /\ now < MaxTime
    BY Types DEF Tick, claims, IInv
  <1>2. TypeOK'
    BY <1>1 DEF IInv, TypeOK, Contract!TypeOK
  <1>3. ASSUME NEW f \in Flows
        PROVE  Fits(f, flow[f], phase[f[1]], redis[keyOf[f[1]]].claim, now')
    <2>1. /\ Fits(f, flow[f], phase[f[1]], redis[keyOf[f[1]]].claim, now)
          /\ flow[f] \in Flow
      BY FlowFacts
    <2>2. flow[f].seen \in Claim \cup {NoClaim} /\ flow[f].lease \in Nat
      BY <2>1 DEF Flow
    <2>3. Decided(f[1], flow[f], now) => Decided(f[1], flow[f], now')
      BY <1>1, <2>2, FreeStaysFree DEF Decided
    <2> QED
      BY <1>1, <2>1, <2>2, <2>3 DEF Fits
  <1>4. ASSUME NEW k \in Keys PROVE Sound(redis[k], now')
    <2>1. Sound(redis[k], now) /\ redis[k] \in Doc
      BY Types DEF IInv, Stored
    <2> QED
      BY <1>1, <2>1 DEF Sound, Doc, Claim
  <1>5. Contract!Tick
    BY <1>1 DEF Contract!Tick, Contract!callers
  <1> QED
    BY <1>1, <1>2, <1>3, <1>4, <1>5
       DEF IInv, Flowing, Stored, Good, Implements, Contract!Next

(* What Redis drops is a lapsed lease or a completed document: the TTL     *)
(* covers the lease.                                                       *)
LEMMA ExpireGood ==
    ASSUME IInv, NEW k \in Keys, Expire(k)
    PROVE  Good
  <1>1. /\ redis[k] \in Doc /\ redis[k] # NoDoc /\ redis[k].expires <= now
        /\ redis' = [redis EXCEPT ![k] = NoDoc]
        /\ UNCHANGED <<now, phase, keyOf, until>>
        /\ now \in Nat /\ Sound(redis[k], now) /\ claims[k] = redis[k].claim
        /\ phase \in [Owners -> Contract!Phases]
    BY Types, ClaimsRead DEF Expire, IInv, Stored
  <1>2. NoDoc \in Doc /\ NoDoc.claim = NoClaim /\ Sound(NoDoc, now)
    BY DEF NoDoc, Doc, Sound
  <1>3. redis' \in [Keys -> Doc] /\ Stored'
    BY <1>1, <1>2, StoresSound
  <1>4. claims' = [claims EXCEPT ![k] = NoClaim]
    BY <1>1, <1>2, ClaimsWritten DEF IInv
  <1>5. ASSUME NEW g \in Flows
        PROVE  /\ flow'[g] \in Flow
               /\ Fits(g, flow'[g], phase'[g[1]], redis'[keyOf[g[1]]].claim, now)
    <2>1. flow[g] \in Flow /\ phase'[g[1]] \in During(flow[g].op)
      BY <1>1, FlowFacts DEF Fits
    <2>2. flow'[g] = IF Watching(g, k) THEN [flow[g] EXCEPT !.dirty = TRUE]
                                       ELSE flow[g]
      BY DEF Expire
    <2>3. Brushed(g, k)
      BY <2>1, <2>2 DEF Brushed, Flow
    <2> QED
      BY <1>1, <1>2, <2>1, <2>3, BrushedFits
  <1>6. TypeOK'
    <2>1. flow' \in [Flows -> Flow]
      BY <1>5 DEF Expire
    <2>2. claims' \in [Keys -> Contract!Claim \cup {NoClaim}]
      BY <1>3, SameDocuments DEF claims, Doc
    <2> QED
      BY <1>1, <1>3, <2>1, <2>2 DEF TypeOK, Contract!TypeOK, IInv
  <1>7. Contract!Lapse(k) \/ Contract!Forget(k)
    <2>1. redis[k].claim \in Claim
      BY <1>1 DEF Doc, Sound
    <2>2. CASE redis[k].claim.completed
      BY <1>1, <1>4, <2>1, <2>2 DEF Contract!Forget, Contract!callers
    <2>3. CASE ~redis[k].claim.completed
      <3>1. Lapsed(claims[k], now)
        BY <1>1, <2>1, <2>3 DEF Lapsed, Sound, Doc, Claim
      <3> QED
        BY <1>1, <1>4, <3>1, SameDocuments DEF Contract!Lapse, Contract!callers
    <2> QED
      BY <2>2, <2>3
  <1> QED
    <2>1. Flowing'
      BY <1>1, <1>5 DEF Flowing
    <2>2. Implements
      BY <1>7 DEF Implements, Contract!Next
    <2> QED
      BY <1>3, <1>6, <2>1, <2>2 DEF IInv, Good

(* Every step, then, and the initial states.                               *)
LEMMA StepGood == IInv /\ [Next]_vars => Good
  <1> SUFFICES ASSUME IInv, [Next]_vars PROVE Good
    OBVIOUS
  <1>1. CASE UNCHANGED vars
    <2>1. /\ UNCHANGED <<redis, now, flow, phase, keyOf, until>>
          /\ UNCHANGED claims
      BY <1>1 DEF vars, claims
    <2>2. TypeOK'
      BY <2>1 DEF IInv, TypeOK, Contract!TypeOK
    <2>3. Flowing' /\ Stored'
      BY <2>1 DEF IInv, Flowing, Stored
    <2> QED
      BY <2>1, <2>2, <2>3, ClaimsKept DEF IInv, Good, Implements
  <1>2. ASSUME NEW f \in Flows, Progress(f) PROVE Good
    BY <1>2, SetNxGood, WatchGood, GetGood, ExecsGood, WatchErrorGood
       DEF Progress
  <1> QED
    BY <1>1, <1>2, TickGood, ExpireGood, StartGood, AbandonGood, AnswerLostGood,
       RaiseGood DEF Next

LEMMA InitGood == Init => IInv /\ Contract!Init
  <1> SUFFICES ASSUME Init PROVE IInv /\ Contract!Init
    OBVIOUS
  <1>1. NoDoc \in Doc /\ NoDoc.claim = NoClaim /\ Sound(NoDoc, 0)
    BY DEF NoDoc, Doc, Sound
  <1>2. TypeOK
    BY <1>1, IdleType, Types DEF Init, Contract!Phases
  <1>3. Stored
    BY <1>1 DEF Init, Stored
  <1>4. Flowing
    BY <1>2, Types, FlowShape, RestFits DEF Init, Flowing
  <1>5. Contract!Init
    BY <1>1 DEF Init, Contract!Init, claims
  <1> QED
    BY <1>2, <1>3, <1>4, <1>5 DEF IInv

LEMMA Invariance == Spec => []IInv
  BY InitGood, StepGood, PTL DEF Spec, Good

(* The documents, the operations under way and what the attempts know are  *)
(* what the module declares.                                               *)
THEOREM TypeCorrect == Spec => []TypeOK
  BY Invariance, PTL DEF IInv

(* "The renewed lease MUST carry its TTL": every document Redis has        *)
(* expires, and none before the lease it grants is over.                   *)
THEOREM LeasesExpireInTime == Spec => []ExpiryCoversLease
  <1>1. IInv => ExpiryCoversLease
    BY DEF IInv, Stored, Sound, ExpiryCoversLease, NoDoc
  <1> QED
    BY <1>1, Invariance, PTL

(* RedisIdempotencyStorage implements the contract, however the commands   *)
(* of any number of attempts interleave, time passes, documents expire and *)
(* commands or their answers are lost.                                     *)
THEOREM RedisImplementsContract == Spec => ImplementsContract
  <1>1. IInv /\ [Next]_vars => [Contract!Next]_(Contract!vars)
    BY StepGood DEF Good, Implements
  <1> QED
    BY <1>1, InitGood, Invariance, PTL
       DEF Spec, ImplementsContract, Contract!Spec

-----------------------------------------------------------------------------
(* What is proved of the contract holds of the store.  The module of the   *)
(* contract's proofs extends the push endpoints too; its theorems on the   *)
(* contract do not mention them, and anything may stand for them here.     *)

Proved == INSTANCE IdempotencyContract_proofs WITH
    Invalid <- {}, Unkeyed <- {},
    pc <- {}, acked <- {}, handled <- {}, ran <- {}, spoiled <- {}

(* Two instances of the contract say the same thing: with its definitions, *)
(* and with its proofs.                                                    *)
LEMMA SameOperators ==
    /\ Contract!Claim = Proved!Claim
    /\ \A c, o, t :
          /\ Contract!Fresh(o, t) = Proved!Fresh(o, t)
          /\ Contract!Lapsed(c, t) = Proved!Lapsed(c, t)
          /\ Contract!OwnedBy(c, o) = Proved!OwnedBy(c, o)
          /\ Contract!Renewable(c, o) = Proved!Renewable(c, o)
          /\ Contract!Outcome(c, t) = Proved!Outcome(c, t)
          /\ Contract!Completed(c, o) = Proved!Completed(c, o)
          /\ Contract!Released(c, o) = Proved!Released(c, o)
          /\ Contract!Renewed(c, o, t) = Proved!Renewed(c, o, t)
  BY DEF Contract!Claim, Proved!Claim, Contract!Lapsed, Proved!Lapsed,
         Contract!Pruned, Proved!Pruned, Contract!OwnedBy, Proved!OwnedBy,
         Contract!Outcome, Proved!Outcome, Contract!Fresh, Proved!Fresh,
         Contract!Completed, Proved!Completed, Contract!Released,
         Proved!Released, Contract!Renewable, Proved!Renewable,
         Contract!Renewed, Proved!Renewed

LEMMA SameSpec ==
    /\ Contract!TypeOK <=> Proved!TypeOK
    /\ Contract!Init <=> Proved!Init
    /\ Contract!TypeOK' <=> Proved!TypeOK'
    /\ UNCHANGED Contract!vars <=> UNCHANGED Proved!vars
    /\ Contract!Next <=> Proved!Next
  <1>1. UNCHANGED Contract!vars <=> UNCHANGED Proved!vars
    BY DEF Contract!vars, Proved!vars
  <1>2. /\ Contract!TypeOK <=> Proved!TypeOK
        /\ Contract!TypeOK' <=> Proved!TypeOK'
        /\ Contract!Init <=> Proved!Init
    BY SameOperators
       DEF Contract!TypeOK, Proved!TypeOK, Contract!Init, Proved!Init,
       Contract!Phases, Proved!Phases
  <1>3. Contract!Tick <=> Proved!Tick
    BY SameOperators
       DEF Contract!Tick, Proved!Tick, Contract!callers, Proved!callers
  <1>4. \A k : Contract!Lapse(k) <=> Proved!Lapse(k)
    BY SameOperators
       DEF Contract!Lapse, Proved!Lapse, Contract!callers, Proved!callers
  <1>5. \A k : Contract!Forget(k) <=> Proved!Forget(k)
    BY SameOperators
       DEF Contract!Forget, Proved!Forget, Contract!callers, Proved!callers
  <1>6. \A o : Contract!Grant(o) <=> Proved!Grant(o)
    BY SameOperators
       DEF Contract!Grant, Proved!Grant, Contract!callers, Proved!callers
  <1>7. \A o : Contract!Refuse(o) <=> Proved!Refuse(o)
    BY SameOperators
       DEF Contract!Refuse, Proved!Refuse, Contract!callers, Proved!callers
  <1>8. \A o : Contract!Complete(o) <=> Proved!Complete(o)
    BY SameOperators
       DEF Contract!Complete, Proved!Complete, Contract!callers,
           Proved!callers
  <1>9. \A o : Contract!CompleteFails(o) <=> Proved!CompleteFails(o)
    BY SameOperators
       DEF Contract!CompleteFails, Proved!CompleteFails, Contract!callers,
           Proved!callers
  <1>10. \A o : Contract!Release(o) <=> Proved!Release(o)
    BY SameOperators
       DEF Contract!Release, Proved!Release, Contract!callers, Proved!callers
  <1>11. \A o : Contract!ReleaseFails(o) <=> Proved!ReleaseFails(o)
    BY SameOperators
       DEF Contract!ReleaseFails, Proved!ReleaseFails, Contract!callers,
           Proved!callers
  <1>12. \A o : Contract!Renew(o) <=> Proved!Renew(o)
    BY SameOperators
       DEF Contract!Renew, Proved!Renew, Contract!callers, Proved!callers
  <1>13. \A o : Contract!Abandon(o) <=> Proved!Abandon(o)
    BY SameOperators
       DEF Contract!Abandon, Proved!Abandon, Contract!callers, Proved!callers
  <1> QED
    BY <1>1, <1>2, <1>3, <1>4, <1>5, <1>6, <1>7, <1>8, <1>9, <1>10, <1>11,
       <1>12, <1>13
       DEF Contract!Next, Proved!Next, Contract!OwnerStep, Proved!OwnerStep

LEMMA ConstantsFit ==
    Proved!NoClaimAssumption /\ Proved!LeaseAssumption /\ Proved!MaxTimeAssumption
  BY NoClaimAssumption, LeaseIsPositive, MaxTimeIsNatural
     DEF Proved!NoClaimAssumption, Proved!Claim, Claim, Proved!LeaseAssumption,
         Proved!MaxTimeAssumption

LEMMA InheritsProofs == Spec => Proved!Spec
  <1>1. Contract!Init => Proved!Init
    BY SameSpec
  <1>2. [Contract!Next]_(Contract!vars) => [Proved!Next]_(Proved!vars)
    BY SameSpec
  <1> QED
    BY <1>1, <1>2, RedisImplementsContract, PTL
       DEF ImplementsContract, Contract!Spec, Proved!Spec

(* Two attempts never work on the same delivery while both leases run,     *)
(* however the Redis commands of their claims and renewals interleave: the *)
(* contract's theorem, inherited through the refinement.                   *)
THEOREM RedisNeverTwoOwners == Spec => []Contract!OneLiveOwner
  <1>1. Proved!Spec => []Proved!OneLiveOwner
    BY Proved!NeverTwoOwners, ConstantsFit
  <1>2. Proved!OneLiveOwner => Contract!OneLiveOwner
    BY DEF Contract!OneLiveOwner, Proved!OneLiveOwner,
           Contract!Holds, Proved!Holds
  <1> QED
    BY <1>1, <1>2, InheritsProofs, PTL

(* A completion under a running lease is on record in Redis, and nothing   *)
(* reopens a completed document.                                           *)
THEOREM RedisKeepsCompletions ==
    Spec => Contract!CompletionRecorded /\ Contract!CompletedIsFinal
  <1>1. Proved!Spec => Proved!CompletionRecorded /\ Proved!CompletedIsFinal
    BY Proved!CompletionsAreRecorded, Proved!CompletedStaysCompleted,
       ConstantsFit
  <1>2. Proved!CompletionRecorded => Contract!CompletionRecorded
    <2>1. [\A o \in Owners :
              Proved!Holds(o) /\ phase'[o] = "done"
                 => /\ Proved!OwnedBy(claims'[keyOf[o]], o)
                    /\ claims'[keyOf[o]].completed]_(Proved!vars)
             => [\A o \in Owners :
                    Contract!Holds(o) /\ phase'[o] = "done"
                       => /\ Contract!OwnedBy(claims'[keyOf[o]], o)
                          /\ claims'[keyOf[o]].completed]_(Contract!vars)
      BY SameOperators
         DEF Proved!Holds, Contract!Holds, Proved!vars, Contract!vars
    <2> QED
      BY <2>1, PTL DEF Proved!CompletionRecorded, Contract!CompletionRecorded
  <1>3. Proved!CompletedIsFinal => Contract!CompletedIsFinal
    <2>1. [\A k \in Keys :
              claims[k] # NoClaim /\ claims[k].completed
                 => claims'[k] \in {claims[k], NoClaim}]_(Proved!vars)
             => [\A k \in Keys :
                    claims[k] # NoClaim /\ claims[k].completed
                       => claims'[k] \in {claims[k], NoClaim}]_(Contract!vars)
      BY DEF Proved!vars, Contract!vars
    <2> QED
      BY <2>1, PTL DEF Proved!CompletedIsFinal, Contract!CompletedIsFinal
  <1> QED
    BY <1>1, <1>2, <1>3, InheritsProofs, PTL
=============================================================================
