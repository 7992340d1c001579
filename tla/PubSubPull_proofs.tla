------------------------- MODULE PubSubPull_proofs -------------------------
(***************************************************************************)
(* Safety of the pull runner's delivery attempts, for any numbers of       *)
(* messages, concurrent deliveries and faults, with either storage.        *)
(*                                                                         *)
(* NoSilentLoss is not inductive by itself: a duplicate is acknowledged on *)
(* the strength of the record (RecordedIsDone), and the record is made by  *)
(* attempts that have already answered (CompletingIsDone).  The last part  *)
(* is about the runner around the attempts, RunnerShutdown.                *)
(***************************************************************************)
EXTENDS PubSubPull, RunnerShutdown, TLAPS

Storages == [Messages -> Claim \cup {NoClaim}]

(* An attempt about to complete has answered, or rejected, its message.    *)
CompletingIsDone ==
    \A a \in Attempts :
        /\ pc[a] = "complete" => "handled" \in result[msg[a]]
        /\ pc[a] = "completeRejected" => "rejected" \in result[msg[a]]

DoneInv == RecordedIsDone /\ NoSilentLoss /\ CompletingIsDone

-----------------------------------------------------------------------------
(* What the storage operators return. *)

LEMMA OrphanedKeepsClaims ==
    ASSUME NEW c \in Storages, NEW S \in SUBSET Attempts
    PROVE  /\ Orphaned(c, S) \in Storages
           /\ \A m \in Messages :
                 /\ Orphaned(c, S)[m] = NoClaim <=> c[m] = NoClaim
                 /\ c[m] # NoClaim =>
                       /\ Orphaned(c, S)[m].completed = c[m].completed
                       /\ Orphaned(c, S)[m].left = c[m].left
                       /\ c[m].owner \notin S => Orphaned(c, S)[m] = c[m]
  <1>1. ASSUME NEW m \in Messages
        PROVE  /\ Orphaned(c, S)[m] \in Claim \cup {NoClaim}
               /\ Orphaned(c, S)[m] = NoClaim <=> c[m] = NoClaim
               /\ c[m] # NoClaim =>
                     /\ Orphaned(c, S)[m].completed = c[m].completed
                     /\ Orphaned(c, S)[m].left = c[m].left
                     /\ c[m].owner \notin S => Orphaned(c, S)[m] = c[m]
    <2>1. c[m] \in Claim \cup {NoClaim}
      BY DEF Storages
    <2>2. CASE c[m] # NoClaim /\ c[m].owner \in S
      <3>1. Orphaned(c, S)[m] = [c[m] EXCEPT !.owner = Nobody]
        BY <2>2 DEF Orphaned
      <3>2. Orphaned(c, S)[m] \in Claim
        BY <2>1, <2>2, <3>1 DEF Claim
      <3> QED
        BY <2>1, <2>2, <3>1, <3>2, NoClaimAssumption DEF Claim
    <2>3. CASE ~(c[m] # NoClaim /\ c[m].owner \in S)
      BY <2>1, <2>3 DEF Orphaned
    <2> QED
      BY <2>2, <2>3
  <1>2. Orphaned(c, S) = [m \in Messages |-> Orphaned(c, S)[m]]
    BY DEF Orphaned
  <1> QED
    BY <1>1, <1>2 DEF Storages

LEMMA GrantedMakesOwner ==
    ASSUME TypeOK, NEW a \in Attempts
    PROVE  /\ Granted(a) \in Storages
           /\ Granted(a)[msg[a]] = [owner |-> a, left |-> Lease, completed |-> FALSE]
           /\ Granted(a)[msg[a]] # NoClaim
           /\ \A m \in Messages : m # msg[a] => Granted(a)[m] = claims[m]
  <1>1. [owner |-> a, left |-> Lease, completed |-> FALSE] \in Claim
    BY ConstantsAssumption DEF Claim
  <1> QED
    BY <1>1, NoClaimAssumption DEF TypeOK, Granted, Storages

LEMMA RecordedCompletes ==
    ASSUME TypeOK, NEW a \in Attempts
    PROVE  /\ Recorded(a) \in Storages
           /\ \A m \in Messages :
                 \/ Recorded(a)[m] = claims[m]
                 \/ /\ m = msg[a] /\ Owns(a)
                    /\ Recorded(a)[m] = [claims[m] EXCEPT !.completed = TRUE]
  <1>1. CASE Owns(a)
    <2>1. msg[a] \in Messages /\ claims[msg[a]] \in Claim
      BY <1>1 DEF TypeOK, Owns
    <2>2. [claims[msg[a]] EXCEPT !.completed = TRUE] \in Claim
      BY <2>1 DEF Claim
    <2>3. Recorded(a) = [claims EXCEPT ![msg[a]] =
                           [claims[msg[a]] EXCEPT !.completed = TRUE]]
      BY <1>1 DEF Recorded
    <2> DEFINE done == [claims[msg[a]] EXCEPT !.completed = TRUE]
    <2> HIDE DEF done
    <2>4. claims \in Storages
      BY DEF TypeOK, Storages
    <2>5. Recorded(a) \in Storages /\ Recorded(a)[msg[a]] = done
      BY <2>1, <2>2, <2>3, <2>4 DEF Storages, done
    <2>6. \A m \in Messages : m # msg[a] => Recorded(a)[m] = claims[m]
      BY <2>3, <2>4 DEF Storages
    <2> QED
      BY <1>1, <2>5, <2>6 DEF done
  <1>2. CASE ~Owns(a)
    BY <1>2 DEF Recorded, TypeOK, Storages
  <1> QED
    BY <1>1, <1>2

LEMMA DroppedRemoves ==
    ASSUME TypeOK, NEW a \in Attempts
    PROVE  /\ Dropped(a) \in Storages
           /\ \A m \in Messages :
                 \/ Dropped(a)[m] = claims[m]
                 \/ m = msg[a] /\ Owns(a) /\ Dropped(a)[m] = NoClaim
  BY DEF Dropped, TypeOK, Storages, Owns

LEMMA ExtendedRenews ==
    ASSUME TypeOK, NEW a \in Attempts
    PROVE  /\ Extended(a) \in Storages
           /\ \A m \in Messages :
                 \/ Extended(a)[m] = claims[m]
                 \/ /\ m = msg[a] /\ Renewable(a) /\ claims[m] \in Claim
                    /\ Extended(a)[m] = [claims[m] EXCEPT !.left = Lease]
  <1>1. CASE Renewable(a)
    <2>1. msg[a] \in Messages /\ claims[msg[a]] \in Claim
      BY <1>1 DEF TypeOK, Renewable, Owns
    <2> DEFINE longer == [claims[msg[a]] EXCEPT !.left = Lease]
    <2>2. longer \in Claim
      BY <2>1, ConstantsAssumption DEF Claim
    <2>3. Extended(a) = [claims EXCEPT ![msg[a]] = longer]
      BY <1>1 DEF Extended
    <2> HIDE DEF longer
    <2>4. claims \in Storages
      BY DEF TypeOK, Storages
    <2>5. Extended(a) \in Storages /\ Extended(a)[msg[a]] = longer
      BY <2>1, <2>2, <2>3, <2>4 DEF Storages
    <2>6. \A m \in Messages : m # msg[a] => Extended(a)[m] = claims[m]
      BY <2>3, <2>4 DEF Storages
    <2> QED
      BY <1>1, <2>1, <2>5, <2>6 DEF longer
  <1>2. CASE ~Renewable(a)
    BY <1>2 DEF Extended, TypeOK, Storages
  <1> QED
    BY <1>1, <1>2

LEMMA IntervalIsNat == RenewInterval \in Nat
  BY ConstantsAssumption DEF RenewInterval

-----------------------------------------------------------------------------
(* What a storage may turn into without endangering the record: a document *)
(* is completed after a step only if it was before, or if the message was  *)
(* handled or rejected.                                                    *)
Sound(c) ==
    /\ c \in Storages
    /\ \A m \in Messages :
          c[m] # NoClaim /\ c[m].completed
              => result[m] \cap {"handled", "rejected"} # {}

LEMMA OrphanedIsSound ==
    ASSUME NEW c, Sound(c), NEW S \in SUBSET Attempts
    PROVE  Sound(Orphaned(c, S))
  <1>1. c \in Storages
    BY DEF Sound
  <1> QED
    BY <1>1, OrphanedKeepsClaims DEF Sound

LEMMA OperationsAreSound ==
    ASSUME TypeOK, DoneInv, NEW a \in Attempts
    PROVE  /\ Sound(claims)
           /\ Sound(Granted(a))
           /\ Sound(Dropped(a))
           /\ Sound(Extended(a))
           /\ pc[a] \in {"complete", "completeRejected"} => Sound(Recorded(a))
  <1>1. Sound(claims)
    BY DEF Sound, DoneInv, RecordedIsDone, TypeOK, Storages
  <1>2. Sound(Granted(a))
    <2>1. Granted(a)[msg[a]].completed = FALSE
      <3> DEFINE fresh == [owner |-> a, left |-> Lease, completed |-> FALSE]
      <3>1. Granted(a)[msg[a]] = fresh
        BY GrantedMakesOwner
      <3>2. fresh.completed = FALSE
        OBVIOUS
      <3> QED
        BY <3>1, <3>2
    <2> QED
      BY <1>1, <2>1, GrantedMakesOwner DEF Sound
  <1>3. Sound(Dropped(a))
    BY <1>1, DroppedRemoves DEF Sound
  <1>4. ASSUME pc[a] \in {"complete", "completeRejected"}
        PROVE  Sound(Recorded(a))
    <2>1. result[msg[a]] \cap {"handled", "rejected"} # {}
      BY <1>4 DEF DoneInv, CompletingIsDone
    <2> QED
      BY <1>1, <2>1, RecordedCompletes DEF Sound
  <1>5. Sound(Extended(a))
    <2>1. \A m \in Messages :
             Extended(a)[m] = claims[m] \/ ~Extended(a)[m].completed
      <3> SUFFICES ASSUME NEW m \in Messages, Extended(a)[m] # claims[m]
                   PROVE  ~Extended(a)[m].completed
        OBVIOUS
      <3>1. /\ claims[m] \in Claim /\ ~claims[m].completed
            /\ Extended(a)[m] = [claims[m] EXCEPT !.left = Lease]
        BY ExtendedRenews DEF Renewable
      <3> QED
        BY <3>1 DEF Claim
    <2> QED
      BY <1>1, <2>1, ExtendedRenews DEF Sound
  <1> QED
    BY <1>1, <1>2, <1>3, <1>4, <1>5

-----------------------------------------------------------------------------
(* Whatever path AfterRelease takes, the storage is c or c orphaned.       *)
LEMMA AfterReleaseStorage ==
    ASSUME NEW a \in Attempts, NEW c, AfterRelease(a, c)
    PROVE  /\ claims' \in {c, Orphaned(c, {a})}
           /\ UNCHANGED acked
           /\ \E s \in {"idle", "poison", "nackedHook"} : Goto(a, s)
           /\ renewal' \in {renewal, [renewal EXCEPT ![a] = FALSE]}
           /\ waited' \in {waited, [waited EXCEPT ![a] = 0]}
           /\ settled' \in {settled, [settled EXCEPT ![a] = @ \cup {"nack"}]}
  BY DEF AfterRelease, Leave, Nack, Unsettled, renewals

LEMMA InitInv == Init => TypeOK /\ DoneInv
  BY ConstantsAssumption, NoClaimAssumption, IntervalIsNat
     DEF Init, TypeOK, Steps, DoneInv, RecordedIsDone, NoSilentLoss,
         CompletingIsDone

(* The storage after any step has the right type and is sound for the      *)
(* results known before the step.                                          *)
LEMMA StorageStep ==
    ASSUME TypeOK, DoneInv, [Next]_vars
    PROVE  Sound(claims')
  <1>0. ASSUME NEW a \in Attempts, NEW c, Sound(c),
               claims' \in {c, Orphaned(c, {a})}
        PROVE  Sound(claims')
    BY <1>0, OrphanedIsSound
  <1>1. ASSUME UNCHANGED claims PROVE Sound(claims')
    BY <1>1 DEF DoneInv, RecordedIsDone, TypeOK, Sound, Storages
  <1>2. ASSUME NEW a \in Attempts, Resumes(a) \/ Interrupted(a)
        PROVE  Sound(claims')
    <2> DEFINE Result(c) == claims' \in {c, Orphaned(c, {a})}
    <2>1. CASE \/ Dispatched(a) \/ WorkFails(a) \/ Answered(a) \/ Rejected(a)
               \/ RejectionSent(a)
      BY <1>1, <2>1 DEF Dispatched, WorkFails, Answered, Rejected, RejectionSent
    <2>2. CASE ClaimFirst(a)
      BY <2>2, OperationsAreSound DEF ClaimFirst
    <2>3. CASE \/ ClaimCompleted(a) \/ ClaimActive(a) \/ PoisonAck(a)
               \/ HookReturns(a)
      <3>1. Result(claims)
        BY <2>3 DEF ClaimCompleted, ClaimActive, PoisonAck, HookReturns, Leave
      <3> QED
        BY <1>0, <3>1, OperationsAreSound
    <2>4. CASE ClaimFails(a)
      <3>1. Result(claims) \/ Result(Granted(a))
        BY <2>4 DEF ClaimFails, Leave
      <3> QED
        BY <1>0, <3>1, OperationsAreSound
    <2>5. CASE Complete(a) \/ CompleteFails(a)
      <3>1. /\ pc[a] \in {"complete", "completeRejected"}
            /\ Result(claims) \/ Result(Recorded(a))
        BY <2>5 DEF Complete, CompleteFails, Leave
      <3> QED
        BY <1>0, <3>1, OperationsAreSound
    <2>6. CASE Release(a) \/ ReleaseFails(a)
      <3>1. Result(claims) \/ Result(Dropped(a))
        BY <2>6, AfterReleaseStorage DEF Release, ReleaseFails
      <3> QED
        BY <1>0, <3>1, OperationsAreSound
    <2>7. CASE Cancelled(a)
      <3>1. \/ Result(claims) \/ Result(Granted(a)) \/ Result(Dropped(a))
            \/ /\ pc[a] \in {"complete", "completeRejected"}
               /\ Result(Recorded(a))
        BY <2>7 DEF Cancelled, Leave
      <3> QED
        BY <1>0, <3>1, OperationsAreSound
    <2> QED
      BY <1>2, <2>1, <2>2, <2>3, <2>4, <2>5, <2>6, <2>7 DEF Resumes, Interrupted
  <1>3. ASSUME NEW m \in Messages, NEW a \in Attempts, Deliver(m, a)
        PROVE  Sound(claims')
    BY <1>1, <1>3 DEF Deliver
  <1>4. CASE Tick
    <2>1. ASSUME NEW m \in Messages
          PROVE  /\ Older(claims[m]) \in Claim \cup {NoClaim}
                 /\ Older(claims[m]) = NoClaim <=> claims[m] = NoClaim
                 /\ claims[m] # NoClaim =>
                       Older(claims[m]).completed = claims[m].completed
      <3>1. claims[m] \in Claim \cup {NoClaim}
        BY DEF TypeOK
      <3>2. CASE claims[m] # NoClaim /\ claims[m].left > 0
        <4> DEFINE c == [claims[m] EXCEPT !.left = claims[m].left - 1]
        <4>1. claims[m].left - 1 \in 0 .. Lease
          BY <3>1, <3>2, ConstantsAssumption DEF Claim
        <4>2. c \in Claim /\ c.completed = claims[m].completed
          BY <3>1, <3>2, <4>1 DEF Claim
        <4>3. Older(claims[m]) = c
          BY <3>2 DEF Older
        <4> QED
          BY <3>2, <4>2, <4>3, NoClaimAssumption
      <3>3. CASE ~(claims[m] # NoClaim /\ claims[m].left > 0)
        BY <3>1, <3>3 DEF Older
      <3> QED
        BY <3>2, <3>3
    <2>2. claims' = [m \in Messages |-> Older(claims[m])]
      BY <1>4 DEF Tick
    <2> QED
      BY <2>1, <2>2 DEF Sound, Storages, DoneInv, RecordedIsDone
  <1>5. ASSUME NEW m \in Messages, Prune(m) PROVE Sound(claims')
    BY <1>5 DEF Prune, Sound, Storages, DoneInv, RecordedIsDone, TypeOK
  <1>6. ASSUME NEW a \in Attempts, Renewed(a) PROVE Sound(claims')
    BY <1>6, OperationsAreSound DEF Renewed
  <1>7. ASSUME NEW a \in Attempts, RenewalStops(a) PROVE Sound(claims')
    BY <1>1, <1>7, OperationsAreSound DEF RenewalStops
  <1>8. CASE Crash
    <2>1. Sound(claims)
      BY DEF Sound, Storages, DoneInv, RecordedIsDone, TypeOK
    <2>2. Sound(Orphaned(claims, Attempts))
      BY <2>1, OrphanedIsSound
    <2> QED
      BY <1>8, <2>2 DEF Crash, Sound, Storages
  <1>9. CASE UNCHANGED vars
    BY <1>1, <1>9 DEF vars
  <1> QED
    BY <1>2, <1>3, <1>4, <1>5, <1>6, <1>7, <1>8, <1>9 DEF Next, Renews

(* Outcomes are only ever added. *)
LEMMA ResultGrows ==
    ASSUME TypeOK, [Next]_vars
    PROVE  /\ result' \in [Messages -> SUBSET Outcomes]
           /\ \A m \in Messages : result[m] \subseteq result'[m]
  <1>1. ASSUME UNCHANGED result
        PROVE  /\ result' \in [Messages -> SUBSET Outcomes]
               /\ \A m \in Messages : result[m] \subseteq result'[m]
    BY <1>1 DEF TypeOK
  <1>2. ASSUME NEW a \in Attempts, NEW o \in Outcomes, Outcome(a, o)
        PROVE  /\ result' \in [Messages -> SUBSET Outcomes]
               /\ \A m \in Messages : result[m] \subseteq result'[m]
    BY <1>2 DEF TypeOK, Outcome
  <1>3. CASE \E a \in Attempts : \/ Answered(a) \/ Rejected(a) \/ RejectionSent(a)
                                  \/ PoisonAck(a)
    <2>1. \/ UNCHANGED result
          \/ \E a \in Attempts, o \in Outcomes : Outcome(a, o)
      BY <1>3 DEF Answered, Rejected, RejectionSent, PoisonAck, Outcomes
    <2> QED
      BY <1>1, <1>2, <2>1
  <1>4. CASE ~\E a \in Attempts : \/ Answered(a) \/ Rejected(a) \/ RejectionSent(a)
                                   \/ PoisonAck(a)
    <2>1. UNCHANGED result
      BY <1>4 DEF Next, Resumes, Interrupted, Deliver, Tick, Prune, Renews, Renewed,
         RenewalStops, Crash, ClaimFirst, ClaimCompleted, ClaimActive, Dispatched,
         WorkFails, Complete, Release, HookReturns, ClaimFails, CompleteFails,
         ReleaseFails, Cancelled, vars
    <2> QED
      BY <1>1, <2>1
  <1> QED
    BY <1>3, <1>4

(* What a step of an attempt does to its own variables. *)
LEMMA StepShape ==
    ASSUME TypeOK, NEW a \in Attempts, Resumes(a) \/ Interrupted(a)
    PROVE  /\ \E s \in Steps : Goto(a, s)
           /\ Ack(a) \/ Nack(a) \/ Unsettled
           /\ \E on \in BOOLEAN : renewal' = [renewal EXCEPT ![a] = on]
           /\ waited' \in {waited, [waited EXCEPT ![a] = 0]}
           /\ UNCHANGED <<delivered, msg, tries>>
  <1>1. ASSUME UNCHANGED renewal
        PROVE  \E on \in BOOLEAN : renewal' = [renewal EXCEPT ![a] = on]
    BY <1>1 DEF TypeOK
  <1>2. CASE Release(a) \/ ReleaseFails(a)
    <2>1. PICK c : AfterRelease(a, c)
      BY <1>2 DEF Release, ReleaseFails
    <2>2. \E s \in Steps : Goto(a, s)
      BY <2>1 DEF AfterRelease, Leave, Steps
    <2>3. Nack(a) \/ Unsettled
      BY <2>1 DEF AfterRelease
    <2>4. \E on \in BOOLEAN : renewal' = [renewal EXCEPT ![a] = on]
      BY <1>1, <2>1 DEF AfterRelease, Leave, renewals
    <2>5. waited' \in {waited, [waited EXCEPT ![a] = 0]}
      BY <2>1, AfterReleaseStorage
    <2> QED
      BY <1>2, <2>2, <2>3, <2>4, <2>5 DEF Release, ReleaseFails, identity
  <1>3. CASE \/ ClaimFirst(a) \/ ClaimCompleted(a) \/ ClaimActive(a)
             \/ ClaimFails(a)
    BY <1>3 DEF ClaimFirst, ClaimCompleted, ClaimActive, ClaimFails, Leave,
       Steps, identity, renewals
  <1>4. CASE \/ Dispatched(a) \/ WorkFails(a) \/ Answered(a) \/ Rejected(a)
             \/ RejectionSent(a) \/ CompleteFails(a)
    BY <1>1, <1>4 DEF Dispatched, WorkFails, Answered, Rejected, RejectionSent,
       CompleteFails, Steps, identity, renewals
  <1>5. CASE Complete(a)
    BY <1>1, <1>5 DEF Complete, Leave, Steps, identity, renewals
  <1>6. CASE PoisonAck(a) \/ HookReturns(a)
    BY <1>6 DEF PoisonAck, HookReturns, Leave, Steps, identity, renewals
  <1>7. CASE Cancelled(a)
    <2>1. \E c : Leave(a, c)
      BY <1>7 DEF Cancelled
    <2> QED
      BY <1>7, <2>1 DEF Cancelled, Leave, Steps, identity, renewals
  <1> QED
    BY <1>2, <1>3, <1>4, <1>5, <1>6, <1>7 DEF Resumes, Interrupted

LEMMA TypeStep == TypeOK /\ DoneInv /\ [Next]_vars => TypeOK'
  <1> SUFFICES ASSUME TypeOK, DoneInv, [Next]_vars PROVE TypeOK'
    OBVIOUS
  <1>1. claims' \in Storages
    BY StorageStep DEF Sound
  <1>2. result' \in [Messages -> SUBSET Outcomes]
    BY ResultGrows
  <1>3. faults' \in 0 .. MaxFaults
    <2>1. Fault \/ UNCHANGED faults
      BY DEF Next, Resumes, Interrupted, Deliver, Tick, Prune, Renews, Renewed,
         RenewalStops, Crash, ClaimFirst, ClaimCompleted, ClaimActive, Dispatched,
         WorkFails, Answered, Rejected, RejectionSent, Complete, Release,
         PoisonAck, HookReturns, ClaimFails, CompleteFails, ReleaseFails,
         Cancelled, NoFault, vars
    <2> QED
      BY <2>1, ConstantsAssumption DEF TypeOK, Fault
  <1> DEFINE Rest == /\ acked' \in [Messages -> BOOLEAN]
                     /\ delivered' \in [Messages -> 0 .. MaxDeliveryAttempts]
                     /\ pc' \in [Attempts -> Steps]
                     /\ msg' \in [Attempts -> Messages]
                     /\ tries' \in [Attempts -> 0 .. MaxDeliveryAttempts]
                     /\ renewal' \in [Attempts -> BOOLEAN]
                     /\ waited' \in [Attempts -> 0 .. RenewInterval + Lateness]
                     /\ settled' \in [Attempts -> SUBSET {"ack", "nack"}]
  <1>4. Rest
    <2> USE DEF TypeOK, Steps
    <2>0. 0 \in 0 .. RenewInterval + Lateness
      BY IntervalIsNat, ConstantsAssumption
    <2>1. ASSUME NEW m \in Messages, NEW a \in Attempts, Deliver(m, a)
          PROVE  Rest
      <3>1. delivered' \in [Messages -> 0 .. MaxDeliveryAttempts]
        BY <2>1, ConstantsAssumption DEF Deliver
      <3> QED
        BY <2>1, <3>1 DEF Deliver, Goto, renewals
    <2>2. ASSUME NEW a \in Attempts, Resumes(a) \/ Interrupted(a)
          PROVE  Rest
      <3>1. PICK s \in Steps : Goto(a, s)
        BY <2>2, StepShape
      <3>2. Ack(a) \/ Nack(a) \/ Unsettled
        BY <2>2, StepShape
      <3>3. \E on \in BOOLEAN : renewal' = [renewal EXCEPT ![a] = on]
        BY <2>2, StepShape
      <3>4. UNCHANGED <<delivered, msg, tries>>
        BY <2>2, StepShape
      <3>5. pc' \in [Attempts -> Steps]
        BY <3>1 DEF Goto
      <3>6. /\ renewal' \in [Attempts -> BOOLEAN]
            /\ waited' \in [Attempts -> 0 .. RenewInterval + Lateness]
        <4>1. waited' \in {waited, [waited EXCEPT ![a] = 0]}
          BY <2>2, StepShape
        <4> QED
          BY <2>0, <3>3, <4>1
      <3>7. /\ acked' \in [Messages -> BOOLEAN]
            /\ settled' \in [Attempts -> SUBSET {"ack", "nack"}]
        <4>1. /\ settled[a] \cup {"ack"} \in SUBSET {"ack", "nack"}
              /\ settled[a] \cup {"nack"} \in SUBSET {"ack", "nack"}
          OBVIOUS
        <4>2. settled' \in {settled, [settled EXCEPT ![a] = settled[a] \cup {"ack"}],
                            [settled EXCEPT ![a] = settled[a] \cup {"nack"}]}
          BY <3>2 DEF Ack, Nack, Unsettled
        <4>3. acked' \in {acked, [acked EXCEPT ![msg[a]] = TRUE]}
          BY <3>2 DEF Ack, Nack, Unsettled
        <4>4. settled' \in [Attempts -> SUBSET {"ack", "nack"}]
          BY <4>1, <4>2
        <4> QED
          BY <4>3, <4>4
      <3> QED
        BY <3>4, <3>5, <3>6, <3>7
    <2>3. ASSUME NEW a \in Attempts, Renews(a)
          PROVE  Rest
      <3>1. /\ waited' = [waited EXCEPT ![a] = 0]
            /\ renewal' \in {renewal, [renewal EXCEPT ![a] = FALSE]}
            /\ UNCHANGED <<acked, delivered, pc, msg, tries, settled>>
        BY <2>3 DEF Renews, Renewed, RenewalStops, broker, identity
      <3> QED
        BY <2>0, <3>1
    <2>4. ASSUME NEW m \in Messages, Prune(m)
          PROVE  Rest
      BY <2>4 DEF Prune, broker, identity, renewals
    <2>5. CASE Crash
      BY <2>0, <2>5 DEF Crash, broker, identity
    <2>6. CASE UNCHANGED vars
      BY <2>6 DEF vars
    <2>7. CASE Tick
      <3>1. waited' \in [Attempts -> 0 .. RenewInterval + Lateness]
        BY <2>7, IntervalIsNat, ConstantsAssumption DEF Tick
      <3> QED
        BY <2>7, <3>1 DEF Tick, broker, identity
    <2> QED
      BY <2>1, <2>2, <2>3, <2>4, <2>5, <2>6, <2>7 DEF Next
  <1> QED
    BY <1>1, <1>2, <1>3, <1>4 DEF TypeOK, Storages

-----------------------------------------------------------------------------
(* An attempt reaches its completion only by answering or rejecting. *)
LEMMA CompletingStep ==
    ASSUME TypeOK, DoneInv, [Next]_vars
    PROVE  CompletingIsDone'
  <1> SUFFICES ASSUME NEW b \in Attempts
               PROVE  /\ pc'[b] = "complete" => "handled" \in result'[msg'[b]]
                      /\ pc'[b] = "completeRejected" =>
                            "rejected" \in result'[msg'[b]]
    BY DEF CompletingIsDone
  <1>1. ASSUME pc'[b] = pc[b], msg'[b] = msg[b]
        PROVE  /\ pc'[b] = "complete" => "handled" \in result'[msg'[b]]
               /\ pc'[b] = "completeRejected" => "rejected" \in result'[msg'[b]]
    <2>1. msg[b] \in Messages
      BY DEF TypeOK
    <2> QED
      BY <1>1, <2>1, ResultGrows DEF DoneInv, CompletingIsDone
  <1>2. ASSUME NEW a \in Attempts, Answered(a) \/ Rejected(a) \/ RejectionSent(a)
        PROVE  /\ pc'[b] = "complete" => "handled" \in result'[msg'[b]]
               /\ pc'[b] = "completeRejected" => "rejected" \in result'[msg'[b]]
    <2>1. CASE a # b
      BY <1>1, <1>2, <2>1
         DEF Answered, Rejected, RejectionSent, Goto, TypeOK, identity
    <2>2. CASE a = b
      BY <1>2, <2>2
         DEF Answered, Rejected, RejectionSent, Goto, TypeOK, identity, Outcome
    <2> QED
      BY <2>1, <2>2
  <1>3. ASSUME NEW a \in Attempts, NEW s \in Steps \ {"complete", "completeRejected"},
               Goto(a, s), \A c \in Attempts \ {a} : msg'[c] = msg[c]
        PROVE  /\ pc'[b] = "complete" => "handled" \in result'[msg'[b]]
               /\ pc'[b] = "completeRejected" => "rejected" \in result'[msg'[b]]
    BY <1>1, <1>3 DEF Goto, TypeOK
  <1>4. ASSUME NEW a \in Attempts, Resumes(a) \/ Interrupted(a),
               ~(Answered(a) \/ Rejected(a) \/ RejectionSent(a))
        PROVE  /\ pc'[b] = "complete" => "handled" \in result'[msg'[b]]
               /\ pc'[b] = "completeRejected" => "rejected" \in result'[msg'[b]]
    <2>1. msg' = msg
      BY <1>4 DEF Resumes, Interrupted, identity, ClaimFirst, ClaimCompleted,
         ClaimActive, Dispatched, WorkFails, Complete, Release, PoisonAck,
         HookReturns, ClaimFails, CompleteFails, ReleaseFails, Cancelled
    <2>2. \E s \in Steps \ {"complete", "completeRejected"} : Goto(a, s)
      <3>1. CASE Release(a) \/ ReleaseFails(a)
        BY <3>1, AfterReleaseStorage DEF Release, ReleaseFails, Steps
      <3>2. CASE ~(Release(a) \/ ReleaseFails(a))
        BY <1>4, <3>2 DEF Resumes, Interrupted, ClaimFirst, ClaimCompleted,
           ClaimActive, Dispatched, WorkFails, Complete, PoisonAck, HookReturns,
           ClaimFails, CompleteFails, Cancelled, Leave, Steps
      <3> QED
        BY <3>1, <3>2
    <2> QED
      BY <1>3, <2>1, <2>2
  <1>5. ASSUME NEW m \in Messages, NEW a \in Attempts, Deliver(m, a)
        PROVE  /\ pc'[b] = "complete" => "handled" \in result'[msg'[b]]
               /\ pc'[b] = "completeRejected" => "rejected" \in result'[msg'[b]]
    BY <1>3, <1>5 DEF Deliver, Goto, TypeOK, Steps
  <1>6. ASSUME UNCHANGED <<pc, msg>>
        PROVE  /\ pc'[b] = "complete" => "handled" \in result'[msg'[b]]
               /\ pc'[b] = "completeRejected" => "rejected" \in result'[msg'[b]]
    BY <1>1, <1>6
  <1>7. CASE Crash
    BY <1>7 DEF Crash
  <1>8. CASE \/ Tick \/ \E m \in Messages : Prune(m)
             \/ \E a \in Attempts : Renews(a)
             \/ UNCHANGED vars
    BY <1>6, <1>8 DEF Tick, Prune, Renews, Renewed, RenewalStops, identity, vars
  <1> QED
    BY <1>2, <1>4, <1>5, <1>7, <1>8 DEF Next

(* Three steps acknowledge: of a duplicate, whose record is of done work;  *)
(* of a completed attempt; of poison.                                      *)
LEMMA AckStep ==
    ASSUME TypeOK, DoneInv, [Next]_vars
    PROVE  NoSilentLoss'
  <1> SUFFICES ASSUME NEW m \in Messages, acked'[m]
               PROVE  result'[m] # {}
    BY DEF NoSilentLoss
  <1>1. ASSUME result[m] # {} PROVE result'[m] # {}
    BY <1>1, ResultGrows
  <1>2. CASE acked[m]
    BY <1>1, <1>2 DEF DoneInv, NoSilentLoss
  <1>3. CASE ~acked[m]
    <2>1. PICK a \in Attempts :
             /\ ClaimCompleted(a) \/ Complete(a) \/ PoisonAck(a)
             /\ msg[a] = m
      <3>1. \E a \in Attempts : ClaimCompleted(a) \/ Complete(a) \/ PoisonAck(a)
        <4>1. ASSUME UNCHANGED acked PROVE FALSE
          BY <1>3, <4>1
        <4>2. ASSUME NEW a \in Attempts, Release(a) \/ ReleaseFails(a) PROVE FALSE
          BY <4>1, <4>2, AfterReleaseStorage DEF Release, ReleaseFails
        <4> QED
          BY <4>1, <4>2 DEF Next, Resumes, Interrupted, Deliver, Tick, Prune,
             Renews, Renewed, RenewalStops, Crash, broker, ClaimFirst, ClaimActive,
             Dispatched, WorkFails, Answered, Rejected, RejectionSent,
             HookReturns, ClaimFails, CompleteFails, Cancelled, Unsettled, Nack,
             vars
      <3> QED
        BY <1>3, <3>1 DEF ClaimCompleted, Complete, PoisonAck, Ack, TypeOK
    <2>2. CASE ClaimCompleted(a)
      <3>1. result[m] \cap {"handled", "rejected"} # {}
        BY <2>1, <2>2 DEF ClaimCompleted, FreeFor, DoneInv, RecordedIsDone
      <3> QED
        BY <1>1, <3>1
    <2>3. CASE Complete(a)
      BY <1>1, <2>1, <2>3 DEF Complete, DoneInv, CompletingIsDone
    <2>4. CASE PoisonAck(a)
      BY <2>1, <2>4 DEF PoisonAck, Outcome, TypeOK
    <2> QED
      BY <2>1, <2>2, <2>3, <2>4
  <1> QED
    BY <1>2, <1>3

LEMMA RecordStep ==
    ASSUME TypeOK, DoneInv, [Next]_vars
    PROVE  RecordedIsDone'
  BY StorageStep, ResultGrows DEF Sound, RecordedIsDone

LEMMA Invariance == Spec => [](TypeOK /\ DoneInv)
  <1>1. TypeOK /\ DoneInv /\ [Next]_vars => (TypeOK /\ DoneInv)'
    BY TypeStep, CompletingStep, AckStep, RecordStep DEF DoneInv
  <1> QED
    BY InitInv, <1>1, PTL DEF Spec

-----------------------------------------------------------------------------
(* The variables keep their types. *)
THEOREM TypeCorrect == Spec => []TypeOK
  BY Invariance, PTL

(* At-least-once: what Pub/Sub is told to forget was handled, rejected or  *)
(* failed for the last time.                                               *)
THEOREM NothingIsLostSilently == Spec => []NoSilentLoss
  <1>1. DoneInv => NoSilentLoss
    BY DEF DoneInv
  <1> QED
    BY <1>1, Invariance, PTL

(* The record duplicates are absorbed by never runs ahead of the work.     *)
THEOREM RecordNeverAhead == Spec => []RecordedIsDone
  <1>1. DoneInv => RecordedIsDone
    BY DEF DoneInv
  <1> QED
    BY <1>1, Invariance, PTL

-----------------------------------------------------------------------------
(* Why a renewed claim is not taken over: an attempt that works and renews *)
(* has an uncompleted document with its name on it, which has run down by  *)
(* the time the renewal task waited and no more; and the other attempts'   *)
(* operations leave such a document alone.                                 *)

Kept(c, h) == /\ c[msg[h]] # NoClaim
              /\ c[msg[h]].owner = h
              /\ ~c[msg[h]].completed
              /\ c[msg[h]].left + waited[h] >= Lease

WorkersKeepClaims ==
    \A h \in Attempts : Working(h) /\ renewal[h] => Kept(claims, h)

RenewedInTime == RenewInterval + Lateness < Lease

LEMMA KeptIsRunning ==
    ASSUME TypeOK, RenewedInTime, NEW h \in Attempts, Kept(claims, h)
    PROVE  claims[msg[h]] \in Claim /\ claims[msg[h]].left > 0
  <1>1. claims[msg[h]] \in Claim
    BY DEF TypeOK, Kept
  <1>2. waited[h] \in 0 .. RenewInterval + Lateness
    BY DEF TypeOK
  <1>3. claims[msg[h]].left + waited[h] >= Lease
    BY DEF Kept
  <1>4. claims[msg[h]].left \in 0 .. Lease
    BY <1>1 DEF Claim
  <1> QED
    BY <1>1, <1>2, <1>3, <1>4, IntervalIsNat, ConstantsAssumption DEF RenewedInTime

LEMMA OthersLeaveKeptClaims ==
    ASSUME TypeOK, RenewedInTime, NEW h \in Attempts, NEW a \in Attempts \ {h},
           Kept(claims, h)
    PROVE  /\ Kept(Recorded(a), h)
           /\ Kept(Dropped(a), h)
           /\ Kept(Extended(a), h)
           /\ FreeFor(msg[a]) => Kept(Granted(a), h)
  <1>1. msg[h] \in Messages
    BY DEF TypeOK
  <1>2. msg[a] = msg[h] => ~Owns(a)
    BY DEF Kept, Owns
  <1>3. Recorded(a)[msg[h]] = claims[msg[h]]
    BY <1>1, <1>2, RecordedCompletes
  <1>4. Dropped(a)[msg[h]] = claims[msg[h]]
    BY <1>1, <1>2, DroppedRemoves
  <1>5. FreeFor(msg[a]) => Granted(a)[msg[h]] = claims[msg[h]]
    <2>1. FreeFor(msg[a]) => msg[a] # msg[h]
      BY KeptIsRunning DEF FreeFor, Kept, Claim
    <2> QED
      BY <1>1, <2>1, GrantedMakesOwner
  <1>6. Extended(a)[msg[h]] = claims[msg[h]]
    BY <1>1, <1>2, ExtendedRenews DEF Renewable
  <1> QED
    BY <1>3, <1>4, <1>5, <1>6 DEF Kept

LEMMA OrphaningOthersKeeps ==
    ASSUME TypeOK, NEW h \in Attempts, NEW c \in Storages, Kept(c, h),
           NEW S \in SUBSET (Attempts \ {h})
    PROVE  Kept(Orphaned(c, S), h)
  <1>1. msg[h] \in Messages /\ c[msg[h]].owner \notin S /\ S \in SUBSET Attempts
    BY DEF TypeOK, Kept
  <1>2. Orphaned(c, S)[msg[h]] = c[msg[h]]
    BY <1>1, OrphanedKeepsClaims DEF Kept
  <1> QED
    BY <1>2 DEF Kept

LEMMA KeepStep ==
    ASSUME TypeOK, WorkersKeepClaims, RenewedInTime, [Next]_vars
    PROVE  WorkersKeepClaims'
  <1> SUFFICES ASSUME NEW h \in Attempts, Working(h)', renewal'[h]
               PROVE  Kept(claims, h)'
    BY DEF WorkersKeepClaims
  <1> DEFINE Safe == Kept(claims, h)'
  <1>w. pc'[h] \in {"dispatch", "answer", "reject", "complete", "completeRejected"}
    BY DEF Working
  <1>s. claims \in Storages
    BY DEF TypeOK, Storages
  <1>1. ASSUME claims' = claims, msg' = msg, waited'[h] = waited[h], Kept(claims, h)
        PROVE  Safe
    BY <1>1 DEF Kept
  <1>2. ASSUME pc'[h] = pc[h], renewal'[h] = renewal[h] PROVE Kept(claims, h)
    BY <1>w, <1>2 DEF WorkersKeepClaims, Working
  <1>3. ASSUME NEW a \in Attempts \ {h}, Resumes(a) \/ Interrupted(a) PROVE Safe
    <2>1. Kept(claims, h)
      <3>1. (\E s \in Steps : Goto(a, s))
            /\ (\E on \in BOOLEAN : renewal' = [renewal EXCEPT ![a] = on])
        BY <1>3, StepShape
      <3>2. pc'[h] = pc[h] /\ renewal'[h] = renewal[h]
        BY <3>1 DEF Goto, TypeOK
      <3> QED
        BY <1>2, <3>2
    <2>2. msg' = msg /\ waited'[h] = waited[h]
      <3>1. waited' \in {waited, [waited EXCEPT ![a] = 0]} /\ msg' = msg
        BY <1>3, StepShape
      <3> QED
        BY <3>1 DEF TypeOK
    <2> DEFINE Candidate(c) == \/ c \in {claims, Recorded(a), Dropped(a)}
                               \/ FreeFor(msg[a]) /\ c = Granted(a)
    <2>3. \E c : Candidate(c) /\ claims' \in {c, Orphaned(c, {a})}
      <3>1. CASE Release(a) \/ ReleaseFails(a)
        BY <3>1, AfterReleaseStorage DEF Release, ReleaseFails
      <3>2. CASE ~(Release(a) \/ ReleaseFails(a))
        BY <1>3, <3>2 DEF Resumes, Interrupted, ClaimFirst, ClaimCompleted,
           ClaimActive, Dispatched, WorkFails, Answered, Rejected, RejectionSent,
           Complete, PoisonAck, HookReturns, ClaimFails, CompleteFails, Cancelled,
           Leave
      <3> QED
        BY <3>1, <3>2
    <2>4. PICK c : Candidate(c) /\ claims' \in {c, Orphaned(c, {a})}
      BY <2>3
    <2>5. Kept(c, h) /\ c \in Storages
      <3>1. CASE c = claims
        BY <1>s, <2>1, <3>1
      <3>2. CASE c = Recorded(a)
        BY <2>1, <3>2, OthersLeaveKeptClaims, RecordedCompletes
      <3>3. CASE c = Dropped(a)
        BY <2>1, <3>3, OthersLeaveKeptClaims, DroppedRemoves
      <3>4. CASE FreeFor(msg[a]) /\ c = Granted(a)
        BY <2>1, <3>4, OthersLeaveKeptClaims, GrantedMakesOwner
      <3> QED
        BY <2>4, <3>1, <3>2, <3>3, <3>4
    <2>6. Kept(Orphaned(c, {a}), h)
      BY <2>5, OrphaningOthersKeeps
    <2> QED
      BY <2>2, <2>4, <2>5, <2>6 DEF Kept
  <1>4. CASE Resumes(h) \/ Interrupted(h)
    <2>1. CASE ClaimFirst(h)
      <3>1. claims' = Granted(h) /\ msg' = msg
        BY <2>1 DEF ClaimFirst, identity
      <3>2. Granted(h)[msg[h]] =
              [owner |-> h, left |-> Lease, completed |-> FALSE]
        BY GrantedMakesOwner
      <3>3. /\ Granted(h)[msg[h]].owner = h
            /\ Granted(h)[msg[h]].left = Lease
            /\ Granted(h)[msg[h]].completed = FALSE
            /\ Granted(h)[msg[h]] # NoClaim
        BY <3>2, GrantedMakesOwner
      <3>4. waited' = waited
        BY <2>1 DEF ClaimFirst
      <3>5. waited[h] \in 0 .. RenewInterval + Lateness
        BY DEF TypeOK
      <3>6. Lease + waited[h] >= Lease
        BY <3>5, IntervalIsNat, ConstantsAssumption
      <3> QED
        BY <3>1, <3>3, <3>4, <3>6 DEF Kept
    <2>2. CASE \/ Dispatched(h) \/ Answered(h) \/ Rejected(h) \/ RejectionSent(h)
      <3>1. /\ Working(h) /\ claims' = claims /\ msg' = msg
            /\ renewal' = renewal /\ waited' = waited
        BY <2>2 DEF Dispatched, Answered, Rejected, RejectionSent, Working, identity,
           renewals
      <3> QED
        BY <1>1, <3>1 DEF WorkersKeepClaims
    <2>3. CASE ~(\/ ClaimFirst(h) \/ Dispatched(h) \/ Answered(h) \/ Rejected(h)
                 \/ RejectionSent(h))
      <3>1. \E s \in {"idle", "ackedHook", "release", "poison", "nackedHook"} :
               Goto(h, s)
        <4>1. CASE Release(h) \/ ReleaseFails(h)
          BY <4>1, AfterReleaseStorage DEF Release, ReleaseFails
        <4>2. CASE ~(Release(h) \/ ReleaseFails(h))
          BY <1>4, <2>3, <4>2 DEF Resumes, Interrupted, ClaimCompleted,
             ClaimActive, WorkFails, Complete, PoisonAck, HookReturns, ClaimFails,
             CompleteFails, Cancelled, Leave
        <4> QED
          BY <4>1, <4>2
      <3> QED
        BY <1>w, <3>1 DEF Goto, TypeOK
    <2> QED
      BY <2>1, <2>2, <2>3
  <1>5. ASSUME NEW m \in Messages, NEW a \in Attempts, Deliver(m, a) PROVE Safe
    <2>1. a # h
      BY <1>w, <1>5 DEF Deliver, Goto, TypeOK
    <2>2. /\ pc'[h] = pc[h] /\ renewal'[h] = renewal[h]
          /\ msg'[h] = msg[h] /\ claims' = claims /\ waited' = waited
      BY <1>5, <2>1 DEF Deliver, Goto, TypeOK, renewals
    <2> QED
      BY <1>2, <2>2 DEF Kept
  <1>6. ASSUME NEW m \in Messages, Prune(m) PROVE Safe
    <2>1. Kept(claims, h) /\ msg' = msg /\ waited' = waited
      BY <1>2, <1>6 DEF Prune, identity, renewals
    <2>2. m # msg[h]
      BY <1>6, <2>1, KeptIsRunning DEF Prune, Claim
    <2>3. claims'[msg[h]] = claims[msg[h]]
      BY <1>6, <2>2 DEF Prune, TypeOK
    <2> QED
      BY <2>1, <2>3 DEF Kept
  <1>7. ASSUME NEW a \in Attempts, Renewed(a) PROVE Safe
    <2>1. Kept(claims, h) /\ msg' = msg /\ claims' = Extended(a)
      BY <1>2, <1>7 DEF Renewed, identity
    <2>2. CASE a # h
      <3>1. waited'[h] = waited[h]
        BY <1>7, <2>2 DEF Renewed, TypeOK
      <3> QED
        BY <2>1, <2>2, <3>1, OthersLeaveKeptClaims DEF Kept
    <2>3. CASE a = h
      <3>1. claims[msg[h]] \in Claim /\ msg[h] \in Messages /\ Renewable(h)
        BY <1>7, <2>1, <2>3 DEF Renewed, Kept, TypeOK
      <3>2. claims' = [claims EXCEPT ![msg[h]] =
                         [claims[msg[h]] EXCEPT !.left = Lease]]
        BY <2>1, <2>3, <3>1 DEF Extended
      <3>3. claims'[msg[h]] = [claims[msg[h]] EXCEPT !.left = Lease]
        BY <3>1, <3>2 DEF TypeOK
      <3>4. /\ claims'[msg[h]].owner = claims[msg[h]].owner
            /\ claims'[msg[h]].completed = claims[msg[h]].completed
            /\ claims'[msg[h]].left = Lease
        BY <3>1, <3>3 DEF Claim
      <3>5. claims'[msg[h]] \in Claim
        BY <3>1, <3>3, ConstantsAssumption DEF Claim
      <3>6. waited'[h] = 0
        BY <1>7, <2>3 DEF Renewed, TypeOK
      <3>7. Lease + 0 >= Lease
        BY ConstantsAssumption
      <3> QED
        BY <2>1, <3>4, <3>5, <3>6, <3>7, NoClaimAssumption DEF Kept
    <2> QED
      BY <2>2, <2>3
  <1>8. ASSUME NEW a \in Attempts, RenewalStops(a) PROVE Safe
    <2>1. a # h
      BY <1>8 DEF RenewalStops, TypeOK
    <2>2. /\ pc'[h] = pc[h] /\ renewal'[h] = renewal[h] /\ waited'[h] = waited[h]
          /\ msg' = msg /\ claims' \in {claims, Extended(a)}
      BY <1>8, <2>1 DEF RenewalStops, identity, TypeOK
    <2>3. Kept(claims, h)
      BY <1>2, <2>2
    <2> QED
      BY <2>1, <2>2, <2>3, OthersLeaveKeptClaims DEF Kept
  <1>11. CASE Tick
    <2>1. /\ Kept(claims, h) /\ msg' = msg /\ renewal[h]
          /\ waited'[h] = waited[h] + 1
      BY <1>2, <1>11 DEF Tick, identity
    <2>2. claims[msg[h]] \in Claim /\ claims[msg[h]].left > 0 /\ msg[h] \in Messages
      BY <2>1, KeptIsRunning DEF TypeOK
    <2>3. claims'[msg[h]] = [claims[msg[h]] EXCEPT !.left = claims[msg[h]].left - 1]
      BY <1>11, <2>1, <2>2 DEF Tick, Older, Kept
    <2>4. /\ claims'[msg[h]].owner = claims[msg[h]].owner
          /\ claims'[msg[h]].completed = claims[msg[h]].completed
          /\ claims'[msg[h]].left = claims[msg[h]].left - 1
      BY <2>2, <2>3 DEF Claim
    <2>5. claims'[msg[h]] # NoClaim
      <3>1. claims[msg[h]].left - 1 \in 0 .. Lease
        BY <2>2, ConstantsAssumption DEF Claim
      <3>2. claims'[msg[h]] \in Claim
        BY <2>2, <2>3, <3>1 DEF Claim
      <3> QED
        BY <3>2, NoClaimAssumption
    <2>6. claims'[msg[h]].left + waited'[h] >= Lease
      <3>1. waited[h] \in 0 .. RenewInterval + Lateness
        BY DEF TypeOK
      <3>2. claims[msg[h]].left \in 0 .. Lease
        BY <2>2 DEF Claim
      <3>3. claims[msg[h]].left + waited[h] >= Lease
        BY <2>1 DEF Kept
      <3>4. claims[msg[h]].left - 1 + (waited[h] + 1) >= Lease
        BY <3>1, <3>2, <3>3, IntervalIsNat, ConstantsAssumption
      <3> QED
        BY <2>1, <2>4, <3>4
    <2> QED
      BY <2>1, <2>4, <2>5, <2>6 DEF Kept
  <1>9. CASE Crash
    BY <1>w, <1>9 DEF Crash
  <1>10. CASE UNCHANGED vars
    BY <1>1, <1>2, <1>10 DEF vars
  <1> QED
    BY <1>3, <1>4, <1>5, <1>6, <1>7, <1>8, <1>9, <1>10, <1>11 DEF Next, Renews

(* However long a handler runs: if the interval between renewals and the   *)
(* delay of one together are shorter than the lease (half of which the     *)
(* interval is, unless configured), nobody else works on its message while *)
(* its renewal task lives.                                                 *)
THEOREM LongHandlersAreSafe ==
    ASSUME RenewInterval + Lateness < Lease
    PROVE  Spec => []LongHandlerKeepsClaim
  <1>1. Init => WorkersKeepClaims
    BY DEF Init, WorkersKeepClaims
  <1>2. TypeOK /\ WorkersKeepClaims /\ [Next]_vars => WorkersKeepClaims'
    BY KeepStep DEF RenewedInTime
  <1>3. TypeOK /\ WorkersKeepClaims => LongHandlerKeepsClaim
    BY DEF WorkersKeepClaims, LongHandlerKeepsClaim, Kept
  <1> QED
    BY <1>1, <1>2, <1>3, TypeCorrect, PTL DEF Spec

-----------------------------------------------------------------------------
(* The start and the end of the runner (RunnerShutdown): run() drains what *)
(* it scheduled, for any number of callbacks at any of their statements.   *)
(*                                                                         *)
(* close() waits for a snapshot of _scheduled.  That this is enough needs  *)
(* three facts together: an attempt in flight is in _scheduled unless its  *)
(* thread is still on its way there; those threads were caught; and no     *)
(* thread gets that far once run() has begun to close, since the loop was  *)
(* taken away and the stream is over.                                      *)

(* run() has come to its close(). *)
Ending == {"closing", "snapshot", "draining", "over"}

(* How far run() is, whoever disturbs it: a stream that was never opened   *)
(* made no callbacks, and an attempt has a thread that submitted it.       *)
RunPhases ==
    /\ step["run"] \in {"init", "starting", "streaming"} => outcome = "none"
    /\ step["run"] \in {"init", "starting"} => stream = "absent"
    /\ step["run"] \in {"streaming", "joining"} => stream # "absent"
    /\ \A c \in Callers : step[c] = "closing" => stream # "absent"
    /\ stream = "absent" => \A m \in Callbacks : worker[m] = "none"
    /\ \A m \in Callbacks :
          attempt[m] # "none" => worker[m] \in {"submitted", "tracked", "finished"}

(* How far run() is when nobody disturbs it: it closes the runner itself,  *)
(* after its stream, and the loop is there until then.                     *)
RunOrder ==
    /\ closed => step["run"] \in Ending
    /\ step["run"] \in {"starting", "streaming", "joining"} => loop
    /\ step["run"] \in Ending => stream # "open"
    /\ step["run"] \in Ending /\ stream = "over" => ~loop
    /\ step["run"] \in {"closing", "snapshot", "draining"} => stream = "over"
    /\ step["run"] \notin Ending => caught = {}

(* A callback that was not caught is past the tracking of its future or    *)
(* before the test of the loop when run() closes, and what is in flight is *)
(* in _scheduled, then in the snapshot, then finished.                     *)
NothingLeft ==
    /\ \A m \in Callbacks \ caught :
          /\ step["run"] \in Ending => m \notin UnderWay
          /\ attempt[m] = "in_flight" /\ step["run"] \in {"snapshot", "draining"}
                => m \in draining["run"]
          /\ step["run"] = "over" => attempt[m] # "in_flight"
    /\ step["run"] \notin {"snapshot", "draining", "over"} =>
          \A m \in Callbacks :
             /\ worker[m] = "tracked" => m \in scheduled
             /\ worker[m] = "finished" /\ attempt[m] = "in_flight"
                   => m \in scheduled

(* A future is in _scheduled only from its thread's add on, and a thread   *)
(* that comes to the add has an attempt.                                   *)
FuturesFollow ==
    /\ NoFutureIsLeft
    /\ \A m \in scheduled : worker[m] \in {"tracked", "finished"}
    /\ \A m \in Callbacks :
          worker[m] \in {"submitted", "tracked"} => attempt[m] # "none"

ShutdownInv == /\ ShutdownTypeOK
               /\ RunPhases
               /\ FuturesFollow
               /\ Undisturbed => RunOrder /\ NothingLeft

LEMMA ShutdownBegins == ShutdownInit => ShutdownInv
  BY DEF ShutdownInit, ShutdownInv, ShutdownTypeOK, Callers,
     RunPhases, FuturesFollow, NoFutureIsLeft, Undisturbed, RunOrder, NothingLeft,
     Ending, UnderWay

LEMMA ShutdownTypeStep ==
    ShutdownTypeOK /\ [ShutdownNext]_shutdownVars
        => ShutdownTypeOK'
  <1> SUFFICES ASSUME ShutdownTypeOK, [ShutdownNext]_shutdownVars PROVE ShutdownTypeOK'
    OBVIOUS
  <1> USE DEF ShutdownTypeOK, Callers, threads,
              drains
  <1>1. CASE StartRun
    BY <1>1 DEF StartRun
  <1>2. CASE Subscribed
    BY <1>2 DEF Subscribed
  <1>3. CASE StartFails
    BY <1>3 DEF StartFails
  <1>4. CASE Stop
    BY <1>4 DEF Stop
  <1>5. CASE StreamEnds
    BY <1>5 DEF StreamEnds
  <1>6. CASE CancelRun
    BY <1>6 DEF CancelRun
  <1>7. CASE UserClose
    <2>1. CASE closed
      BY <1>7, <2>1 DEF UserClose, EnterClose
    <2>2. CASE ~closed
      <3>1. step' \in [Callers -> {"init", "starting", "streaming", "joining",
                                  "closing", "snapshot", "draining", "over"}]
        BY <1>7, <2>2 DEF UserClose, EnterClose
      <3> QED
        BY <1>7, <2>2, <3>1 DEF UserClose, EnterClose
    <2> QED
      BY <2>1, <2>2
  <1>8. CASE WakeUp
    BY <1>8 DEF WakeUp
  <1>9. CASE CancelTakesEffect
    BY <1>9 DEF CancelTakesEffect, StreamEnds
  <1>10. CASE Joined
    BY <1>10 DEF Joined, EnterClose, UnderWay
  <1>11. ASSUME NEW c \in Callers, SubscriberClosed(c)
         PROVE  ShutdownTypeOK'
    BY <1>11 DEF SubscriberClosed
  <1>12. ASSUME NEW c \in Callers, CloseFails(c)
         PROVE  ShutdownTypeOK'
    BY <1>12 DEF CloseFails
  <1>13. ASSUME NEW c \in Callers, Cleared(c)
         PROVE  ShutdownTypeOK'
    BY <1>13 DEF Cleared
  <1>14. ASSUME NEW c \in Callers, Drained(c)
         PROVE  ShutdownTypeOK'
    BY <1>14 DEF Drained
  <1>15. ASSUME NEW m \in Callbacks, Callback(m) PROVE ShutdownTypeOK'
    BY <1>15 DEF Callback
  <1>16. ASSUME NEW m \in Callbacks, CheckLoop(m) PROVE ShutdownTypeOK'
    BY <1>16 DEF CheckLoop
  <1>17. ASSUME NEW m \in Callbacks, Submit(m) PROVE ShutdownTypeOK'
    BY <1>17 DEF Submit
  <1>18. ASSUME NEW m \in Callbacks, SubmitTooLate(m)
         PROVE  ShutdownTypeOK'
    BY <1>18 DEF SubmitTooLate
  <1>19. ASSUME NEW m \in Callbacks, Track(m) PROVE ShutdownTypeOK'
    BY <1>19 DEF Track
  <1>20. ASSUME NEW m \in Callbacks, WatchFuture(m)
         PROVE  ShutdownTypeOK'
    BY <1>20 DEF WatchFuture
  <1>21. ASSUME NEW m \in Callbacks, AttemptEnds(m)
         PROVE  ShutdownTypeOK'
    BY <1>21 DEF AttemptEnds
  <1>22. CASE UNCHANGED shutdownVars
    BY <1>22 DEF shutdownVars
  <1> HIDE DEF ShutdownTypeOK
  <1> QED
    BY <1>1, <1>2, <1>3, <1>4, <1>5, <1>6, <1>7, <1>8, <1>9, <1>10, <1>11,
       <1>12, <1>13, <1>14, <1>15, <1>16, <1>17, <1>18, <1>19, <1>20, <1>21,
       <1>22
       DEF ShutdownNext, Closing, Thread

LEMMA RunPhasesStep ==
    ShutdownTypeOK /\ RunPhases /\ [ShutdownNext]_shutdownVars
        => RunPhases'
  <1> SUFFICES ASSUME ShutdownTypeOK, RunPhases, [ShutdownNext]_shutdownVars PROVE RunPhases'
    OBVIOUS
  <1> USE DEF ShutdownTypeOK, Callers, threads,
              drains, RunPhases
  <1>1. CASE StartRun
    BY <1>1 DEF StartRun
  <1>2. CASE Subscribed
    BY <1>2 DEF Subscribed
  <1>3. CASE StartFails
    BY <1>3 DEF StartFails
  <1>4. CASE Stop
    BY <1>4 DEF Stop
  <1>5. CASE StreamEnds
    BY <1>5 DEF StreamEnds
  <1>6. CASE CancelRun
    BY <1>6 DEF CancelRun
  <1>7. CASE UserClose
    BY <1>7 DEF UserClose, EnterClose
  <1>8. CASE WakeUp
    BY <1>8 DEF WakeUp
  <1>9. CASE CancelTakesEffect
    BY <1>9 DEF CancelTakesEffect, StreamEnds
  <1>10. CASE Joined
    BY <1>10 DEF Joined, EnterClose, UnderWay
  <1>11. ASSUME NEW c \in Callers, SubscriberClosed(c)
         PROVE  RunPhases'
    BY <1>11 DEF SubscriberClosed
  <1>12. ASSUME NEW c \in Callers, CloseFails(c)
         PROVE  RunPhases'
    BY <1>12 DEF CloseFails
  <1>13. ASSUME NEW c \in Callers, Cleared(c) PROVE RunPhases'
    BY <1>13 DEF Cleared
  <1>14. ASSUME NEW c \in Callers, Drained(c) PROVE RunPhases'
    BY <1>14 DEF Drained
  <1>15. ASSUME NEW m \in Callbacks, Callback(m) PROVE RunPhases'
    BY <1>15 DEF Callback
  <1>16. ASSUME NEW m \in Callbacks, CheckLoop(m) PROVE RunPhases'
    BY <1>16 DEF CheckLoop
  <1>17. ASSUME NEW m \in Callbacks, Submit(m) PROVE RunPhases'
    BY <1>17 DEF Submit
  <1>18. ASSUME NEW m \in Callbacks, SubmitTooLate(m) PROVE RunPhases'
    BY <1>18 DEF SubmitTooLate
  <1>19. ASSUME NEW m \in Callbacks, Track(m) PROVE RunPhases'
    BY <1>19 DEF Track
  <1>20. ASSUME NEW m \in Callbacks, WatchFuture(m) PROVE RunPhases'
    BY <1>20 DEF WatchFuture
  <1>21. ASSUME NEW m \in Callbacks, AttemptEnds(m) PROVE RunPhases'
    BY <1>21 DEF AttemptEnds
  <1>22. CASE UNCHANGED shutdownVars
    BY <1>22 DEF shutdownVars
  <1> HIDE DEF ShutdownTypeOK, RunPhases
  <1> QED
    BY <1>1, <1>2, <1>3, <1>4, <1>5, <1>6, <1>7, <1>8, <1>9, <1>10, <1>11,
       <1>12, <1>13, <1>14, <1>15, <1>16, <1>17, <1>18, <1>19, <1>20, <1>21,
       <1>22
       DEF ShutdownNext, Closing, Thread

LEMMA FuturesStep ==
    ASSUME ShutdownTypeOK, FuturesFollow, [ShutdownNext]_shutdownVars
    PROVE  FuturesFollow'
  <1> USE DEF FuturesFollow, NoFutureIsLeft
  <1>1. CASE UNCHANGED threads
    BY <1>1 DEF threads
  <1>2. ASSUME NEW c \in Callers, Cleared(c) PROVE FuturesFollow'
    BY <1>2 DEF Cleared
  <1>3. ASSUME NEW m \in Callbacks, Callback(m) \/ CheckLoop(m) \/ SubmitTooLate(m)
        PROVE  FuturesFollow'
    BY <1>3 DEF Callback, CheckLoop, SubmitTooLate, ShutdownTypeOK
  <1>4. ASSUME NEW m \in Callbacks, Submit(m) PROVE FuturesFollow'
    BY <1>4 DEF Submit, ShutdownTypeOK
  <1>5. ASSUME NEW m \in Callbacks, Track(m) PROVE FuturesFollow'
    BY <1>5 DEF Track, ShutdownTypeOK
  <1>6. ASSUME NEW m \in Callbacks, WatchFuture(m) PROVE FuturesFollow'
    BY <1>6 DEF WatchFuture, ShutdownTypeOK
  <1>7. ASSUME NEW m \in Callbacks, AttemptEnds(m) PROVE FuturesFollow'
    BY <1>7 DEF AttemptEnds, ShutdownTypeOK
  <1>8. CASE \/ StartRun \/ Subscribed \/ StartFails \/ Stop \/ StreamEnds
             \/ CancelRun \/ UserClose \/ WakeUp \/ CancelTakesEffect \/ Joined
    <2>1. UNCHANGED threads
      BY <1>8 DEF StartRun, Subscribed, StartFails, Stop, StreamEnds, CancelRun,
         UserClose, WakeUp, CancelTakesEffect, Joined
    <2> QED
      BY <1>1, <2>1
  <1>9. ASSUME NEW c \in Callers, SubscriberClosed(c) \/ CloseFails(c) \/ Drained(c)
        PROVE  FuturesFollow'
    BY <1>1, <1>9 DEF SubscriberClosed, CloseFails, Drained
  <1>10. CASE UNCHANGED shutdownVars
    BY <1>1, <1>10 DEF shutdownVars, threads
  <1> HIDE DEF FuturesFollow
  <1> QED
    BY <1>2, <1>3, <1>4, <1>5, <1>6, <1>7, <1>8, <1>9, <1>10
       DEF ShutdownNext, Closing, Thread

(* A step that leaves the runner undisturbed found it so. *)
ShutdownKept == Undisturbed /\ RunOrder' /\ NothingLeft'

LEMMA NothingLeftStep ==
    ASSUME ShutdownInv, [ShutdownNext]_shutdownVars, Undisturbed'
    PROVE  ShutdownKept
  <1> USE DEF ShutdownInv, ShutdownTypeOK, RunPhases, RunOrder, NothingLeft,
              Undisturbed, Ending, ShutdownKept, Callers,
              threads, drains, UnderWay
  <1>1. CASE StartRun
    BY <1>1 DEF StartRun
  <1>2. CASE Subscribed
    BY <1>2 DEF Subscribed
  <1>3. CASE StartFails
    BY <1>3 DEF StartFails
  <1>4. CASE Stop
    BY <1>4 DEF Stop
  <1>5. CASE StreamEnds
    BY <1>5 DEF StreamEnds
  <1>6. CASE CancelRun
    BY <1>6 DEF CancelRun
  <1>7. CASE UserClose
    BY <1>7 DEF UserClose, EnterClose
  <1>8. CASE WakeUp
    BY <1>8 DEF WakeUp
  <1>9. CASE CancelTakesEffect
    BY <1>9 DEF CancelTakesEffect, StreamEnds
  <1>10. CASE Joined
    BY <1>10 DEF Joined, EnterClose
  <1>11. ASSUME NEW c \in Callers, SubscriberClosed(c)
         PROVE  ShutdownKept
    BY <1>11 DEF SubscriberClosed
  <1>12. ASSUME NEW c \in Callers, CloseFails(c)
         PROVE  ShutdownKept
    BY <1>12 DEF CloseFails
  <1>13. ASSUME NEW c \in Callers, Cleared(c)
         PROVE  ShutdownKept
    BY <1>13 DEF Cleared
  <1>14. ASSUME NEW c \in Callers, Drained(c)
         PROVE  ShutdownKept
    BY <1>14 DEF Drained
  <1>15. ASSUME NEW m \in Callbacks, Callback(m) PROVE ShutdownKept
    BY <1>15 DEF Callback
  <1>16. ASSUME NEW m \in Callbacks, CheckLoop(m) PROVE ShutdownKept
    BY <1>16 DEF CheckLoop
  <1>17. ASSUME NEW m \in Callbacks, Submit(m) PROVE ShutdownKept
    BY <1>17 DEF Submit
  <1>18. ASSUME NEW m \in Callbacks, SubmitTooLate(m) PROVE ShutdownKept
    BY <1>18 DEF SubmitTooLate
  <1>19. ASSUME NEW m \in Callbacks, Track(m) PROVE ShutdownKept
    BY <1>19 DEF Track
  <1>20. ASSUME NEW m \in Callbacks, WatchFuture(m) PROVE ShutdownKept
    BY <1>20 DEF WatchFuture
  <1>21. ASSUME NEW m \in Callbacks, AttemptEnds(m) PROVE ShutdownKept
    BY <1>21 DEF AttemptEnds
  <1>22. CASE UNCHANGED shutdownVars
    BY <1>22 DEF shutdownVars
  <1> HIDE DEF ShutdownInv, Undisturbed, ShutdownKept
  <1> QED
    BY <1>1, <1>2, <1>3, <1>4, <1>5, <1>6, <1>7, <1>8, <1>9, <1>10, <1>11,
       <1>12, <1>13, <1>14, <1>15, <1>16, <1>17, <1>18, <1>19, <1>20, <1>21,
       <1>22
       DEF ShutdownNext, Closing, Thread

LEMMA ShutdownInvariance == ShutdownSpec => []ShutdownInv
  <1>1. ShutdownInv /\ [ShutdownNext]_shutdownVars => ShutdownInv'
    BY ShutdownTypeStep, RunPhasesStep, FuturesStep, NothingLeftStep
       DEF ShutdownInv, ShutdownKept
  <1> QED
    BY ShutdownBegins, <1>1, PTL DEF ShutdownSpec

(* The state of run(), close() and the callbacks is what RunnerShutdown    *)
(* declares it to be.                                                      *)
THEOREM ShutdownTypeCorrect == ShutdownSpec => []ShutdownTypeOK
  BY ShutdownInvariance, PTL DEF ShutdownInv

(* "Returns after the subscriber is closed and scheduled attempts are      *)
(* drained": no attempt is in flight when run() is over, for any number of *)
(* callbacks, but for those under way when the pull future ended.          *)
THEOREM AttemptsAreDrained == ShutdownSpec => []DrainedOnReturn
  <1>1. ShutdownInv => DrainedOnReturn
    BY DEF ShutdownInv, NothingLeft, DrainedOnReturn
  <1> QED
    BY ShutdownInvariance, <1>1, PTL

(* A future leaves _scheduled with its attempt, however its worker thread, *)
(* the end of the attempt and the clearing in close() interleave.          *)
THEOREM FuturesAreForgotten == ShutdownSpec => []NoFutureIsLeft
  <1>1. ShutdownInv => NoFutureIsLeft
    BY DEF ShutdownInv, FuturesFollow
  <1> QED
    BY ShutdownInvariance, <1>1, PTL
=============================================================================
