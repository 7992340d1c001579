-------------------------- MODULE RedisIdempotency --------------------------
(***************************************************************************)
(* RedisIdempotencyStorage of src/src/chattice/idempotency.py, one Redis   *)
(* command per step.  Every attempt (owner) drives two flows that use the  *)
(* storage side by side: "main" claims, then completes and/or releases;    *)
(* "renewal" is the transport's renewal task.  An operation other than the *)
(* first SET NX of claim is a loop: WATCH the key, GET it, decide, and     *)
(* MULTI/EXEC the change; EXEC fails when the key changed since WATCH, and *)
(* the loop starts over (except WatchError: continue).                     *)
(*                                                                         *)
(* Redis itself is external: a key with a TTL disappears at some instant   *)
(* not before its time, and an expired key fails the transactions that     *)
(* watch it (Redis 6.0.9 and later).  A connection may fail before a       *)
(* command is executed or after (the answer is lost); an attempt may be    *)
(* cancelled with a command on its way.                                    *)
(*                                                                         *)
(* The module implements IdempotencyContract, an operation taking effect   *)
(* at its SET NX, at the GET that ends it, or at its EXEC.                 *)
(***************************************************************************)
EXTENDS ClaimRecords

CONSTANTS Lease,      \* lease_seconds, in ticks
          Retention,  \* completed_retention_seconds, in ticks
          Renewing,   \* owners with a renewal task (push attempts have none)
          MaxTime,    \* bound: the clock stops here
          MaxFaults   \* bound: lost answers, failed commands, cancellations

ASSUME LeaseIsPositive == Lease \in Nat /\ Lease > 0
ASSUME MaxTimeIsNatural == MaxTime \in Nat
ASSUME RetentionAssumption == Retention \in Nat /\ Retention > 0
ASSUME RenewingAssumption == Renewing \subseteq Owners
ASSUME MaxFaultsAssumption == MaxFaults \in Nat

VARIABLES redis,    \* per key: NoDoc, or the claim and its expiry
          now,      \* the clocks, taken to agree
          flow,     \* per <<owner, role>>: the storage operation under way
          phase, keyOf, until,  \* as in IdempotencyContract
          faults    \* how many failures there were

vars == <<redis, now, flow, phase, keyOf, until, faults>>

Roles == {"main", "renewal"}
Flows == Owners \X Roles

Doc == [claim : Claim \cup {NoClaim}, expires : Nat]
NoDoc == [claim |-> NoClaim, expires |-> 0]

(* The storage as IdempotencyContract sees it. *)
claims == [k \in Keys |-> redis[k].claim]

Contract == INSTANCE IdempotencyContract

Ops == {"claim", "complete", "release", "renew", "none"}
Steps == {"idle", "set_nx", "watch", "get", "exec", "stopped"}

Idle == [op |-> "none", pc |-> "idle", seen |-> NoClaim, lease |-> 0,
         dirty |-> FALSE]

Flow == [op : Ops, pc : Steps, seen : Claim \cup {NoClaim}, lease : Nat,
         dirty : BOOLEAN]

TypeOK ==
    /\ Contract!TypeOK
    /\ redis \in [Keys -> Doc]
    /\ flow \in [Flows -> Flow]

Init == /\ redis = [k \in Keys |-> NoDoc]
        /\ now = 0
        /\ flow = [f \in Flows |-> Idle]
        /\ phase = [o \in Owners |-> "new"]
        /\ keyOf \in [Owners -> Keys]
        /\ until = [o \in Owners |-> 0]
        /\ faults = 0

-----------------------------------------------------------------------------
(* Redis: writes and expiry fail the transactions that watch the key. *)

Watching(g, k) == keyOf[g[1]] = k /\ flow[g].pc \in {"get", "exec"}

(* fl, with the transactions other than f's that watch k marked as broken. *)
Touched(fl, f, k) ==
    [g \in Flows |-> IF g # f /\ Watching(g, k)
                     THEN [fl[g] EXCEPT !.dirty = TRUE] ELSE fl[g]]

(* Flow f's command writes doc (NoDoc: deletes the key) and f moves on to  *)
(* the state next.                                                         *)
Write(f, doc, next) ==
    LET k == keyOf[f[1]] IN
    /\ redis' = [redis EXCEPT ![k] = doc]
    /\ flow' = Touched([flow EXCEPT ![f] = next], f, k)

Tick == /\ now < MaxTime
        /\ now' = now + 1
        /\ UNCHANGED <<redis, flow, phase, keyOf, until>>

Expire(k) ==
    /\ redis[k] # NoDoc
    /\ redis[k].expires <= now
    /\ redis' = [redis EXCEPT ![k] = NoDoc]
    /\ flow' = [g \in Flows |-> IF Watching(g, k)
                                THEN [flow[g] EXCEPT !.dirty = TRUE]
                                ELSE flow[g]]
    /\ UNCHANGED <<now, phase, keyOf, until>>

-----------------------------------------------------------------------------
(* Calls.  claim encodes its document, lease included, before it sends     *)
(* anything; the other operations start with WATCH.                        *)

Live(o) == phase[o] # "gone"

StartClaim(o) ==
    /\ phase[o] = "new"
    /\ flow[<<o, "main">>] = Idle
    /\ flow' = [flow EXCEPT ![<<o, "main">>] =
                  [Idle EXCEPT !.op = "claim", !.pc = "set_nx",
                               !.lease = now + Lease]]
    /\ UNCHANGED <<redis, now, phase, keyOf, until>>

Start(f, op) ==
    /\ flow[f] = Idle
    /\ flow' = [flow EXCEPT ![f] = [Idle EXCEPT !.op = op, !.pc = "watch"]]
    /\ UNCHANGED <<redis, now, phase, keyOf, until>>

StartComplete(o) == phase[o] = "first" /\ Start(<<o, "main">>, "complete")

StartRelease(o) ==
    phase[o] \in {"first", "unsure"} /\ Start(<<o, "main">>, "release")

(* The renewal task sleeps between two renewals, so some time has passed   *)
(* since the lease was last computed.                                      *)
StartRenew(o) == /\ o \in Renewing
                 /\ phase[o] \in {"first", "unsure"}
                 /\ until[o] < now + Lease
                 /\ Start(<<o, "renewal">>, "renew")

-----------------------------------------------------------------------------
(* What the caller learns when its operation returns or raises. *)

Answered(op) == CASE op = "complete" -> "done" [] op = "release" -> "released"
Raised(op) == CASE op = "claim" -> "gone"
                [] op = "complete" -> "unsure"
                [] op = "release" -> "released"

Learn(o, answer) ==
    phase' = [phase EXCEPT ![o] = IF Live(o) THEN answer ELSE "gone"]

Stopped == [Idle EXCEPT !.pc = "stopped"]

(* A flow whose operation is over; a renewal that was refused or failed    *)
(* ends the renewal task.                                                  *)
Over(op) == IF op = "renew" THEN Stopped ELSE Idle

(* Operation of f returns from a decision taken on the document it read.   *)
ReturnRead(f, answer) ==
    LET o == f[1] IN
    /\ flow' = [flow EXCEPT ![f] = Over(flow[f].op)]
    /\ IF flow[f].op = "renew" THEN UNCHANGED phase ELSE Learn(o, answer)
    /\ UNCHANGED <<redis, now, keyOf, until>>

-----------------------------------------------------------------------------
(* Commands whose answer arrives. *)

SetNx(f) ==
    LET o == f[1]
        k == keyOf[o] IN
    /\ flow[f].pc = "set_nx"
    /\ Live(o)
    /\ IF redis[k] = NoDoc
       THEN /\ Write(f, [claim |-> Fresh(o, flow[f].lease),
                         expires |-> now + Lease], Idle)
            /\ Learn(o, "first")
            /\ until' = [until EXCEPT ![o] = flow[f].lease]
            /\ UNCHANGED <<now, keyOf>>
       ELSE /\ flow' = [flow EXCEPT ![f].pc = "watch"]
            /\ UNCHANGED <<redis, now, phase, keyOf, until>>

WatchStaysBroken(f) ==
    /\ flow[f].pc = "watch"
    /\ Live(f[1])
    /\ flow' = [flow EXCEPT ![f].pc = "get"]
    /\ UNCHANGED <<redis, now, phase, keyOf, until>>

Watch(f) ==
    /\ flow[f].pc = "watch"
    /\ Live(f[1])
    /\ flow' = [flow EXCEPT ![f].pc = "get", ![f].dirty = FALSE]
    /\ UNCHANGED <<redis, now, phase, keyOf, until>>

(* The document that was read leads to a transaction ... *)
Queues(f, c) ==
    LET o == f[1] IN
    CASE flow[f].op = "claim" -> Outcome(c, now) = "FIRST"
      [] flow[f].op = "renew" -> Renewable(c, o)
      [] OTHER -> OwnedBy(c, o)

(* ... or to the operation's answer. *)
Answer(f, c) ==
    CASE flow[f].op = "claim" ->
            IF Outcome(c, now) = "COMPLETED" THEN "completed" ELSE "active"
      [] OTHER -> Answered(flow[f].op)

Get(f) ==
    LET c == redis[keyOf[f[1]]].claim IN
    /\ flow[f].pc = "get"
    /\ Live(f[1])
    /\ IF Queues(f, c)
       THEN /\ flow' = [flow EXCEPT
                 ![f].pc = "exec", ![f].seen = c,
                 ![f].lease = IF flow[f].op = "renew" THEN now + Lease ELSE @]
            /\ UNCHANGED <<redis, now, phase, keyOf, until>>
       ELSE ReturnRead(f, Answer(f, c))

ExecDocKeepsTtl(f) ==
    LET o == f[1] IN
    CASE flow[f].op \in {"claim", "renew"} ->
            [claim |-> Fresh(o, flow[f].lease),
             expires |-> IF flow[f].op = "renew" THEN redis[keyOf[o]].expires
                                                 ELSE now + Lease]
      [] flow[f].op = "complete" ->
            [claim |-> Completed(flow[f].seen, o), expires |-> now + Retention]
      [] flow[f].op = "release" -> NoDoc

(* The document EXEC writes for the operation of f. *)
ExecDoc(f) ==
    LET o == f[1] IN
    CASE flow[f].op \in {"claim", "renew"} ->
            [claim |-> Fresh(o, flow[f].lease), expires |-> now + Lease]
      [] flow[f].op = "complete" ->
            [claim |-> Completed(flow[f].seen, o), expires |-> now + Retention]
      [] flow[f].op = "release" -> NoDoc

(* A claim that saw no document queues SET NX, which does nothing when a   *)
(* document is there after all; every other transaction writes.            *)
ExecWrites(f) == ~ (/\ flow[f].op = "claim"
                    /\ flow[f].seen = NoClaim
                    /\ redis[keyOf[f[1]]] # NoDoc)

WatchErrorIgnored(f) ==
    /\ flow[f].pc = "exec"
    /\ flow[f].dirty
    /\ Live(f[1])
    /\ ReturnRead(f, IF flow[f].op = "claim" THEN "first" ELSE Answered(flow[f].op))

WatchError(f) ==
    /\ flow[f].pc = "exec"
    /\ flow[f].dirty
    /\ Live(f[1])
    /\ flow' = [flow EXCEPT ![f].pc = "watch", ![f].seen = NoClaim]
    /\ UNCHANGED <<redis, now, phase, keyOf, until>>

Exec(f) ==
    LET o == f[1]
        op == flow[f].op IN
    /\ flow[f].pc = "exec"
    /\ ~flow[f].dirty
    /\ Live(o)
    /\ IF ExecWrites(f)
       THEN /\ Write(f, ExecDoc(f), Idle)
            /\ CASE op = "claim" -> Learn(o, "first")
                 [] op = "renew" -> UNCHANGED phase
                 [] OTHER -> Learn(o, Answered(op))
            /\ until' = [until EXCEPT ![o] = IF op \in {"claim", "renew"}
                                             THEN flow[f].lease ELSE @]
            /\ UNCHANGED <<now, keyOf>>
       ELSE ReturnRead(f, "active")

-----------------------------------------------------------------------------
(* Failures. *)

Fault == faults < MaxFaults /\ faults' = faults + 1

(* The command is executed, but its answer never reaches the flow: the     *)
(* connection broke, or the attempt was cancelled meanwhile.               *)
AnswerLost(f) ==
    LET o == f[1]
        op == flow[f].op IN
    /\ Fault
    /\ \/ /\ flow[f].pc = "set_nx"
          /\ redis[keyOf[o]] = NoDoc
          /\ Write(f, [claim |-> Fresh(o, flow[f].lease),
                       expires |-> now + Lease], Over(op))
       \/ /\ flow[f].pc = "exec"
          /\ ~flow[f].dirty
          /\ ExecWrites(f)
          /\ Write(f, ExecDoc(f), Over(op))
    /\ IF op = "renew" THEN UNCHANGED phase ELSE Learn(o, Raised(op))
    /\ UNCHANGED <<now, keyOf, until>>

(* The operation raises (or, in a cancelled attempt, ends) with nothing    *)
(* done by the command under way.                                          *)
Raise(f) ==
    LET op == flow[f].op IN
    /\ Fault
    /\ flow[f].pc \notin {"idle", "stopped"}
    /\ flow' = [flow EXCEPT ![f] = Over(op)]
    /\ IF op = "renew" THEN UNCHANGED phase ELSE Learn(f[1], Raised(op))
    /\ UNCHANGED <<redis, now, keyOf, until>>

Abandon(o) ==
    /\ Fault
    /\ phase[o] \in {"new", "first", "unsure"}
    /\ phase' = [phase EXCEPT ![o] = "gone"]
    /\ UNCHANGED <<redis, now, flow, keyOf, until>>

-----------------------------------------------------------------------------
Progress(f) == SetNx(f) \/ Watch(f) \/ Get(f) \/ Exec(f) \/ WatchError(f)

Call(o) == StartClaim(o) \/ StartComplete(o) \/ StartRelease(o) \/ StartRenew(o)

Next == \/ UNCHANGED faults /\ \/ Tick
                               \/ \E k \in Keys : Expire(k)
                               \/ \E o \in Owners : Call(o)
                               \/ \E f \in Flows : Progress(f)
        \/ \E o \in Owners : Abandon(o)
        \/ \E f \in Flows : AnswerLost(f) \/ Raise(f)

Spec == Init /\ [][Next]_vars

(* The event loop resumes every flow whose command was answered, and Redis *)
(* answers.  Nothing makes callers call, time pass or connections break.   *)
FairSpec == Spec /\ \A f \in Flows : WF_vars(Progress(f) /\ UNCHANGED faults)

-----------------------------------------------------------------------------
(* The Redis store keeps every promise of the storage contract whatever    *)
(* commands of several attempts, and of one attempt's two flows, interleave*)
(* between its SET NX / WATCH / GET / EXEC steps: no two reclaimers of a   *)
(* lapsed lease both win, what is completed is recorded and not reopened.  *)
ImplementsContract == Contract!Spec

(* "The renewed lease MUST carry its TTL": every document expires, and not *)
(* before the lease it grants is over.                                     *)
ExpiryCoversLease ==
    \A k \in Keys : redis[k] # NoDoc =>
        /\ redis[k].expires > 0
        /\ ~redis[k].claim.completed
              => redis[k].claim.lease_until <= redis[k].expires

(* The WATCH retry loops terminate: an operation that was called returns   *)
(* unless its attempt is cancelled, however many others write the key.     *)
OperationsReturn ==
    \A f \in Flows :
        flow[f].pc \notin {"idle", "stopped"}
            ~> (flow[f].pc \in {"idle", "stopped"} \/ ~Live(f[1]))
=============================================================================
