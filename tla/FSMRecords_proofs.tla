-------------------------- MODULE FSMRecords_proofs -------------------------
(***************************************************************************)
(* Proofs about FSMRecords: type correctness, AppliedToCurrent and         *)
(* UpdatesSurvive, for any calls, clocks and lifetimes, with a store that  *)
(* notices expiry at once and one that does not; and, in the second half,  *)
(* that RedisFSMRecords implements FSMRecords without Prompt.              *)
(***************************************************************************)
EXTENDS RedisFSMRecords, TLAPS

LEMMA NoRecordType == NoRecord \in FSMRecord
BY DEF NoRecord, FSMRecord, Never

(* What a store answers is the record it holds, or none.                   *)
LEMMA ViewType == ASSUME TypeOK, NEW r \in View
                  PROVE  r \in FSMRecord /\ r \in {record, NoRecord}
BY NoRecordType DEF TypeOK, View, Live

(* A replacement has the revision of what it was made of, and is what one  *)
(* that has its expires_at would be.                                       *)
LEMMA ReplacementType ==
    ASSUME NEW c \in Calls, NEW o \in Ops \ {"get"}, NEW r \in FSMRecord, NEW e \in Nat
    PROVE  LET x == Replacement(c, o, r, e) IN
              /\ x \in FSMRecord
              /\ x.revision = r.revision
              /\ x = Replacement(c, o, r, x.expires)
BY DEF Replacement, Ops, FSMRecord

LEMMA StoredType ==
    ASSUME NEW r \in FSMRecord
    PROVE  /\ Stored(r) \in FSMRecord
           /\ Stored(r).revision = r.revision + 1
           /\ Stored(r).data = r.data
           /\ Stored(r).expires = r.expires
           /\ Stored(r) # NoRecord
BY DEF Stored, FSMRecord, NoRecord

-----------------------------------------------------------------------------
LEMMA InitTypeOK == Init => TypeOK
<1> SUFFICES ASSUME Init PROVE TypeOK
    OBVIOUS
<1>1. Left \in FSMRecord /\ Left.revision = 1 /\ NoRecord.revision = 0
    BY TtlAssumption DEF Left, NoRecord, FSMRecord, Never
<1>2. /\ record \in FSMRecord /\ life \in Nat
      /\ record.revision = 0 <=> record = NoRecord
    BY <1>1, NoRecordType DEF Init
<1>3. pc \in [Calls -> {"check", "read", "cas"} \cup Outcomes]
    BY DEF Init, Entry
<1> QED
    BY <1>2, <1>3, NoRecordType DEF Init, TypeOK

LEMMA NextTypeOK == TypeOK /\ [Next]_vars => TypeOK'
<1> SUFFICES ASSUME TypeOK, [Next]_vars PROVE TypeOK'
    OBVIOUS
<1>r. ASSUME record' \in View
      PROVE  record' \in FSMRecord /\ (record'.revision = 0 <=> record' = NoRecord)
    BY <1>r, ViewType DEF TypeOK, NoRecord
<1>1. CASE UNCHANGED vars
    BY <1>1 DEF vars, TypeOK
<1>2. CASE Tick
    BY <1>2 DEF Tick, TypeOK
<1>3. CASE Drop
    BY <1>3, <1>r DEF Drop, View, TypeOK
<1>4. ASSUME NEW c \in Calls, Check(c) PROVE TypeOK'
    BY <1>4, <1>r DEF Check, Goto, TypeOK, Outcomes
<1>5. ASSUME NEW c \in Calls, Read(c) PROVE TypeOK'
  <2>1. CASE op[c] = "get"
      BY <2>1, <1>5, <1>r DEF Read, Goto, TypeOK, Outcomes
  <2>2. CASE op[c] # "get"
    <3>1. PICK r \in View, e \in {Never, now + Ttl} :
             offer' = [offer EXCEPT ![c] = Replacement(c, op[c], r, e)]
        BY <2>2, <1>5 DEF Read
    <3>2. e \in Nat
        BY TtlAssumption DEF TypeOK, Never
    <3>3. Replacement(c, op[c], r, e) \in FSMRecord
        BY <3>2, <2>2, ViewType, ReplacementType DEF TypeOK
    <3> QED
        BY <3>1, <3>3, <2>2, <1>5, <1>r DEF Read, Goto, TypeOK, Outcomes
  <2> QED
      BY <2>1, <2>2
<1>6. ASSUME NEW c \in Calls, Stores(c) PROVE TypeOK'
  <2>1. offer[c] \in FSMRecord
      BY DEF TypeOK
  <2>2. record' \in FSMRecord /\ record' # NoRecord /\ record'.revision # 0
      BY <2>1, <1>6, StoredType DEF Stores, FSMRecord
  <2>3. life' \in Nat
      BY <1>6 DEF Stores, TypeOK
  <2> QED
      BY <2>2, <2>3, <1>6 DEF Stores, Goto, TypeOK, Outcomes
<1>7. ASSUME NEW c \in Calls, Conflicts(c) PROVE TypeOK'
    BY <1>7, <1>r DEF Conflicts, Goto, TypeOK, Outcomes
<1>8. ASSUME NEW c \in Calls, Fails(c) PROVE TypeOK'
    BY <1>8, <1>r DEF Fails, Goto, TypeOK, Outcomes
<1> QED
    BY <1>1, <1>2, <1>3, <1>4, <1>5, <1>6, <1>7, <1>8 DEF Next, Step

(* Every variable has its type, and revision 0 is no record and no record  *)
(* is revision 0.                                                          *)
THEOREM TypeCorrect == Spec => []TypeOK
BY InitTypeOK, NextTypeOK, PTL DEF Spec

-----------------------------------------------------------------------------
(* Call c, which offers a replacement in the life it read the record in,   *)
(* made it of a record that is not younger, and of this one if it has that *)
(* revision.                                                               *)
OfferCurrent(c) ==
    offer[c].revision > 0 /\ seen[c] = life /\ record # NoRecord =>
        /\ offer[c].revision <= record.revision
        /\ offer[c].revision = record.revision =>
              offer[c] = Replacement(c, op[c], record, offer[c].expires)

OfferMeans(c) ==
    /\ op[c] # "get"
    /\ seen[c] <= life
    /\ offer[c].revision > 0 => seen[c] > 0
    /\ offer[c].revision = 0 =>
          offer[c] = Replacement(c, op[c], NoRecord, offer[c].expires)
    /\ OfferCurrent(c)

(* There was no record before the first life.                              *)
FirstLife == life = 0 => /\ record = NoRecord
                         /\ \A c \in Calls : op[c] = "update_data" => pc[c] # "returned"

IInv == /\ TypeOK
        /\ \A c \in Calls : pc[c] = "check" => op[c] = "finish"
        /\ FirstLife
        /\ \A c \in Calls : pc[c] = "cas" => OfferMeans(c)
        /\ UpdatesSurvive

LEMMA InitIInv == Init => IInv
BY InitTypeOK DEF Init, IInv, FirstLife, UpdatesSurvive, Entry

(* A step that leaves the calls' offers alone, and the record too or drops *)
(* it, keeps what is known of the offers.                                  *)
LEMMA OffersKept ==
    ASSUME TypeOK, NEW c \in Calls, OfferMeans(c),
           record' \in {record, NoRecord}, life' = life, op' = op,
           offer'[c] = offer[c], seen'[c] = seen[c]
    PROVE  OfferMeans(c)'
BY DEF OfferMeans, OfferCurrent

(* ... and the fields that were stored, unless a call ends.                *)
LEMMA FieldsKept ==
    ASSUME IInv, record' \in {record, NoRecord}, life' = life, op' = op,
           \A c \in Calls : op[c] = "update_data" /\ pc'[c] = "returned"
                                => pc[c] = "returned"
    PROVE  FirstLife' /\ UpdatesSurvive'
BY DEF IInv, FirstLife, UpdatesSurvive

(* What a call stores was made of what it replaces.                        *)
LEMMA StoresApplies ==
    ASSUME TypeOK, NEW c \in Calls, OfferMeans(c), seen[c] = life,
           NEW r \in View, r.revision = offer[c].revision
    PROVE  offer[c] = Replacement(c, op[c], r, offer[c].expires)
<1>1. r \in {record, NoRecord} /\ offer[c].revision \in Nat
    BY ViewType DEF TypeOK, FSMRecord
<1>2. NoRecord.revision = 0
    BY DEF NoRecord
<1>3. CASE r = NoRecord
    BY <1>2, <1>3 DEF OfferMeans
<1>4. CASE r = record /\ r # NoRecord
  <2>1. offer[c].revision > 0
      BY <1>1, <1>4 DEF TypeOK
  <2> QED
      BY <2>1, <1>4 DEF OfferMeans, OfferCurrent
<1> QED
    BY <1>1, <1>3, <1>4

LEMMA ReadIInv ==
    ASSUME IInv, NEW c \in Calls, Read(c), TypeOK'
    PROVE  IInv'
<1>r. record' \in {record, NoRecord}
    BY ViewType DEF Read, IInv
<1>f. FirstLife' /\ UpdatesSurvive'
    BY <1>r, FieldsKept DEF Read, Goto, IInv, TypeOK
<1>1. ASSUME NEW d \in Calls, d # c, pc'[d] = "cas" PROVE OfferMeans(d)'
  <2>1. offer'[d] = offer[d] /\ seen'[d] = seen[d] /\ pc[d] = "cas"
      BY <1>1 DEF Read, Goto, IInv, TypeOK
  <2> QED
      BY <2>1, <1>r, OffersKept DEF Read, IInv
<1>2. ASSUME pc'[c] = "cas" PROVE OfferMeans(c)'
  <2>1. op[c] # "get"
      BY <1>2 DEF Read, Goto, IInv, TypeOK
  <2>2. PICK r \in View, e \in {Never, now + Ttl} :
           offer' = [offer EXCEPT ![c] = Replacement(c, op[c], r, e)]
      BY <2>1 DEF Read
  <2>3. r \in FSMRecord /\ r \in {record, NoRecord} /\ e \in Nat
      BY ViewType, TtlAssumption DEF IInv, TypeOK, Never
  <2>4. /\ offer'[c].revision = r.revision
        /\ offer'[c] = Replacement(c, op[c], r, offer'[c].expires)
    <3>1. offer'[c] = Replacement(c, op[c], r, e)
        BY <2>2 DEF IInv, TypeOK
    <3>2. op[c] \in Ops \ {"get"}
        BY <2>1 DEF IInv, TypeOK
    <3> QED
        BY <3>1, <3>2, <2>3, ReplacementType
  <2>5. seen'[c] = life /\ life' = life /\ op' = op
      BY <2>1 DEF Read, IInv, TypeOK
  <2>6. NoRecord.revision = 0 /\ r.revision \in Nat /\ (r.revision = 0 <=> r = NoRecord)
      BY <2>3 DEF IInv, TypeOK, FSMRecord, NoRecord
  <2>7. r # NoRecord => life > 0
      BY <2>3 DEF IInv, FirstLife, TypeOK
  <2>8. OfferCurrent(c)'
      BY <2>3, <2>4, <2>5, <2>6, <1>r DEF OfferCurrent
  <2>9. seen'[c] <= life' /\ (offer'[c].revision > 0 => seen'[c] > 0)
      BY <2>4, <2>5, <2>6, <2>7 DEF IInv, TypeOK
  <2>10. offer'[c].revision = 0 =>
            offer'[c] = Replacement(c, op'[c], NoRecord, offer'[c].expires)
      BY <2>4, <2>5, <2>6
  <2> QED
      BY <2>1, <2>5, <2>8, <2>9, <2>10 DEF OfferMeans
<1>3. \A d \in Calls : pc'[d] = "check" => op'[d] = "finish"
    BY DEF Read, Goto, IInv, TypeOK
<1> QED
    BY <1>f, <1>1, <1>2, <1>3 DEF IInv

LEMMA StoresIInv ==
    ASSUME IInv, NEW c \in Calls, Stores(c), TypeOK'
    PROVE  IInv'
<1>1. PICK r \in View : r.revision = offer[c].revision
    BY DEF Stores
<1>2. OfferMeans(c) /\ offer[c] \in FSMRecord /\ life \in Nat
      /\ seen[c] \in Nat /\ record \in FSMRecord
    BY DEF IInv, Stores, TypeOK
<1>3. /\ record'.revision = offer[c].revision + 1
      /\ record'.data = offer[c].data /\ record'.expires = offer[c].expires
      /\ record' # NoRecord
    BY <1>2, StoredType DEF Stores
<1>4. /\ r \in {record, NoRecord} /\ r.revision \in Nat
      /\ offer[c].revision # 0 => r = record /\ record # NoRecord
    BY <1>1, <1>2, ViewType DEF IInv, TypeOK, FSMRecord, NoRecord
<1>5. life' > 0
    BY <1>2, <1>4, <1>1 DEF Stores, OfferMeans
<1>6. ASSUME NEW d \in Calls, pc'[d] = "cas" PROVE OfferMeans(d)'
  <2>1. /\ d # c /\ pc[d] = "cas" /\ OfferMeans(d)
        /\ offer'[d] = offer[d] /\ seen'[d] = seen[d] /\ op'[d] = op[d]
      BY <1>6 DEF Stores, Goto, IInv, TypeOK
  <2>2. seen[d] \in Nat /\ offer[d].revision \in Nat
      BY DEF IInv, TypeOK, FSMRecord
  <2>3. OfferCurrent(d)'
    <3>1. CASE offer[c].revision = 0
        BY <3>1, <2>1, <2>2, <1>2 DEF Stores, OfferMeans, OfferCurrent
    <3>2. CASE offer[c].revision # 0
        BY <3>2, <2>1, <2>2, <1>1, <1>2, <1>3, <1>4
           DEF Stores, OfferMeans, OfferCurrent, FSMRecord
    <3> QED
        BY <3>1, <3>2
  <2>4. seen'[d] <= life'
      BY <2>1, <2>2, <1>2 DEF Stores, OfferMeans
  <2> QED
      BY <2>1, <2>3, <2>4 DEF OfferMeans
<1>7. FirstLife'
    BY <1>5 DEF FirstLife
<1>8. UpdatesSurvive'
  <2> SUFFICES ASSUME \A d \in Calls : op'[d] \in {"get", "set_state", "update_data"},
                      life' = 1, record'.expires = Never,
                      NEW d \in Calls, op'[d] = "update_data", pc'[d] = "returned"
               PROVE  d \in record'.data
      BY DEF UpdatesSurvive
  <2>1. op' = op /\ op[c] \in {"set_state", "update_data"}
      BY <1>2 DEF Stores, OfferMeans
  <2>2. CASE offer[c].revision = 0
    <3>1. life = 0
        BY <2>2, <1>2 DEF Stores
    <3>2. d = c
        BY <3>1, <2>1 DEF Stores, Goto, IInv, FirstLife, TypeOK
    <3>3. offer[c] = Replacement(c, "update_data", NoRecord, offer[c].expires)
        BY <3>2, <2>1, <2>2, <1>2 DEF OfferMeans
    <3>4. offer[c].data = {} \cup {c}
        BY <3>3 DEF Replacement, NoRecord
    <3> QED
        BY <3>2, <3>4, <1>3
  <2>3. CASE offer[c].revision # 0
    <3>1. life = 1 /\ seen[c] = life
        BY <2>3, <1>2 DEF Stores, OfferMeans, FSMRecord
    <3>2. offer[c] = Replacement(c, op[c], record, offer[c].expires)
        BY <3>1, <2>3, <1>1, <1>2, <1>4, StoresApplies DEF IInv
    <3>3. /\ offer[c].expires = record.expires
          /\ offer[c].data = IF op[c] = "update_data" THEN record.data \cup {c}
                                                      ELSE record.data
      <4>1. CASE op[c] = "update_data"
          BY <4>1, <3>2, <1>2 DEF Replacement, FSMRecord
      <4>2. CASE op[c] = "set_state"
          BY <4>2, <3>2, <1>2 DEF Replacement, FSMRecord
      <4> QED
          BY <4>1, <4>2, <2>1
    <3>4. d # c => d \in record.data
        BY <3>1, <3>3, <2>1, <2>3, <1>3, <1>4
           DEF Stores, Goto, IInv, UpdatesSurvive, TypeOK
    <3> QED
        BY <3>3, <3>4, <2>1, <1>3
  <2> QED
      BY <2>2, <2>3
<1>9. \A d \in Calls : pc'[d] = "check" => op'[d] = "finish"
    BY DEF Stores, Goto, IInv, TypeOK
<1> QED
    BY <1>6, <1>7, <1>8, <1>9 DEF IInv

LEMMA NextIInv == IInv /\ [Next]_vars => IInv'
<1> SUFFICES ASSUME IInv, [Next]_vars PROVE IInv'
    OBVIOUS
<1>t. TypeOK /\ TypeOK'
    BY NextTypeOK DEF IInv
<1>k. ASSUME record' \in {record, NoRecord}, life' = life, op' = op,
             offer' = offer, seen' = seen,
             \A c \in Calls : /\ pc'[c] \in {"cas", "check"} => pc[c] = pc'[c]
                              /\ op[c] = "update_data" /\ pc'[c] = "returned"
                                    => pc[c] = "returned"
      PROVE  IInv'
  <2>1. ASSUME NEW c \in Calls, pc'[c] = "cas" PROVE OfferMeans(c)'
      BY <2>1, <1>k, <1>t, OffersKept DEF IInv
  <2>2. FirstLife' /\ UpdatesSurvive'
      BY <1>k, FieldsKept
  <2>3. ASSUME NEW c \in Calls, pc'[c] = "check" PROVE op'[c] = "finish"
      BY <2>3, <1>k DEF IInv
  <2> QED
      BY <2>1, <2>2, <2>3, <1>t DEF IInv
<1>v. View \subseteq {record, NoRecord}
    BY <1>t, ViewType
<1>1. CASE UNCHANGED vars
    BY <1>1, <1>k DEF vars
<1>2. CASE Tick
    BY <1>2, <1>k DEF Tick
<1>3. CASE Drop
    BY <1>3, <1>k DEF Drop, Live
<1>4. ASSUME NEW c \in Calls, Check(c) PROVE IInv'
  <2>1. op[c] = "finish"
      BY <1>4 DEF Check, IInv
  <2> QED
      BY <2>1, <1>4, <1>k, <1>v, <1>t DEF Check, Goto, TypeOK
<1>5. ASSUME NEW c \in Calls, Read(c) PROVE IInv'
    BY <1>5, <1>t, ReadIInv
<1>6. ASSUME NEW c \in Calls, Stores(c) PROVE IInv'
    BY <1>6, <1>t, StoresIInv
<1>7. ASSUME NEW c \in Calls, Conflicts(c) PROVE IInv'
    BY <1>7, <1>k, <1>v, <1>t DEF Conflicts, Goto, TypeOK
<1>8. ASSUME NEW c \in Calls, Fails(c) PROVE IInv'
    BY <1>8, <1>k, <1>v, <1>t DEF Fails, Goto, TypeOK
<1> QED
    BY <1>1, <1>2, <1>3, <1>4, <1>5, <1>6, <1>7, <1>8 DEF Next, Step

LEMMA Invariance == Spec => []IInv
BY InitIInv, NextIInv, PTL DEF Spec

(* A call that found the revision it expects, in the life it read the      *)
(* record in, stores what it would have made of the record it replaces: no *)
(* concurrent modification is lost, however many calls race.               *)
THEOREM NoLostUpdate == Spec => AppliedToCurrent
<1>1. ASSUME IInv, [Next]_vars, NEW c \in Calls,
             pc[c] = "cas", pc'[c] = "returned", seen[c] = life
      PROVE  \E r \in View :
                /\ r.revision = offer[c].revision
                /\ offer[c] = Replacement(c, op[c], r, offer[c].expires)
  <2>1. Stores(c)
    <3>1. pc'[c] # pc[c]
        BY <1>1
    <3>2. PICK d \in Calls : Step(d) \/ Fails(d)
        BY <3>1, <1>1 DEF Next, vars, Tick, Drop
    <3>3. d = c
      <4>1. \E step : pc' = [pc EXCEPT ![d] = step]
          BY <3>2 DEF Step, Check, Read, Stores, Conflicts, Fails, Goto
      <4> QED
          BY <4>1, <3>1, <1>1 DEF IInv, TypeOK
    <3> QED
        BY <3>2, <3>3, <1>1
           DEF Step, Check, Read, Conflicts, Fails, Goto, IInv, TypeOK
  <2>2. PICK r \in View : r.revision = offer[c].revision
      BY <2>1 DEF Stores
  <2> QED
      BY <2>2, <1>1, StoresApplies DEF IInv
<1>2. IInv /\ [Next]_vars =>
        [\A c \in Calls :
            /\ pc[c] = "cas" /\ pc'[c] = "returned"
            /\ seen[c] = life
            => \E r \in View :
                  /\ r.revision = offer[c].revision
                  /\ offer[c] = Replacement(c, op[c], r, offer[c].expires)]_vars
    BY <1>1
<1> QED
    BY <1>2, Invariance, PTL DEF Spec, AppliedToCurrent

(* While nobody replaces the data, ends the conversation or gives it a     *)
(* TTL, the record keeps every field update_data returned for.             *)
THEOREM EveryUpdateSurvives == Spec => []UpdatesSurvive
<1>1. IInv => UpdatesSurvive
    BY DEF IInv
<1> QED
    BY <1>1, Invariance, PTL

-----------------------------------------------------------------------------
(* RedisFSMRecords, whose commands of one call do at the last of them what *)
(* FSMRecords does in a step.  record is the document Redis has.           *)

Lookup == {"get", "watch_expired", "get_expired", "del"}
Write == {"watch", "get_cas", "set"}

RedisTypeOK ==
    /\ record \in FSMRecord
    /\ record.revision = 0 <=> record = NoRecord
    /\ now \in Nat
    /\ life \in Nat
    /\ op \in [Calls -> Ops]
    /\ pc \in [Calls -> {"check", "read", "cas", "unanswered"} \cup Outcomes]
    /\ offer \in [Calls -> FSMRecord]
    /\ seen \in [Calls -> Nat]
    /\ cmd \in [Calls -> Lookup \cup Write]
    /\ raw \in [Calls -> FSMRecord]

(* A call sends the commands of the method it is in.  A lookup on its way  *)
(* to delete read a document that is expired, for good.                    *)
CommandFits(c) ==
    /\ pc[c] \in {"check", "read"} => cmd[c] \in Lookup
    /\ pc[c] = "cas" => cmd[c] \in Write
    /\ pc[c] \in {"check", "read"} /\ cmd[c] # "get" => _expired(raw[c], now)

(* What Redis lets a call find. *)
Findable == {record, Live(record, now)}

(* If c's transaction can still succeed, what it was queued for is so: the *)
(* document is the expired one, or one of the revision expected is found.  *)
TransactionSound(c) ==
    c \notin dirty =>
        /\ Getting(c, "del") => record = raw[c]
        /\ Casing(c, "set") => \E r \in Findable : r.revision = offer[c].revision

RedisInv == /\ RedisTypeOK
            /\ \A c \in Calls : CommandFits(c) /\ TransactionSound(c)

RedisStep == Records!Next \/ UNCHANGED Records!vars
Good == RedisInv' /\ RedisStep

(* The instance has its own copies of the operators on documents.      *)
LEMMA SameRecords ==
    /\ Records!NoRecord = NoRecord /\ Records!Never = 0 /\ Records!Ops = Ops
    /\ Records!Left = Left
    /\ Records!Outcomes = Outcomes
    /\ \A r, t : Records!Live(r, t) = Live(r, t)
    /\ \A c, o, r, e : Records!Replacement(c, o, r, e) = Replacement(c, o, r, e)
    /\ \A r : Records!Stored(r) = Stored(r)
    /\ \A o : Records!Entry(o) = Entry(o)
    /\ Records!View = Findable
<1>1. /\ Records!NoRecord = NoRecord /\ Records!Never = 0 /\ Never = 0
      /\ Records!Ops = Ops
    BY DEF Records!NoRecord, NoRecord, Records!Never, Never, Records!Ops, Ops
<1>2. Records!Left = Left /\ Records!Outcomes = Outcomes
    BY <1>1 DEF Records!Left, Left, Records!Outcomes, Outcomes
<1>3. \A r, t : Records!_expired(r, t) = _expired(r, t)
    BY <1>1 DEF Records!_expired, _expired
<1>4. \A r, t : Records!Live(r, t) = Live(r, t)
    BY <1>1, <1>3 DEF Records!Live, Live
<1>5. \A c, o, r, e : Records!Replacement(c, o, r, e) = Replacement(c, o, r, e)
    BY DEF Records!Replacement, Replacement, Records!Never, Never
<1>6. /\ \A r : Records!Stored(r) = Stored(r)
      /\ \A o : Records!Entry(o) = Entry(o)
    BY DEF Records!Stored, Stored, Records!Entry, Entry
<1>7. Records!View = Findable
    BY <1>4 DEF Records!View, Findable
<1> QED
    BY <1>1, <1>2, <1>4, <1>5, <1>6, <1>7

(* A document stays expired, and what may be found stays so in time.       *)
LEMMA ExpiredForGood ==
    ASSUME NEW r \in FSMRecord, NEW t \in Nat, NEW u \in {t, t + 1}, _expired(r, t)
    PROVE  _expired(r, u)
BY DEF _expired, FSMRecord

(* The part of the invariant about a call that a step leaves alone, unless *)
(* it fails the call's transaction.                                        *)
LEMMA CallKept ==
    ASSUME RedisInv, NEW d \in Calls, now' \in {now, now + 1},
           pc'[d] = pc[d], cmd'[d] = cmd[d], raw'[d] = raw[d], offer'[d] = offer[d],
           \/ record' = record /\ (d \in dirty => d \in dirty')
           \/ d \in Watching => d \in dirty'
    PROVE  CommandFits(d)' /\ TransactionSound(d)'
<1>t. /\ record \in FSMRecord /\ raw[d] \in FSMRecord /\ now \in Nat
      /\ now' \in {now, now + 1}
    BY DEF RedisInv, RedisTypeOK
<1>1. CommandFits(d)'
  <2>1. pc[d] \in {"check", "read"} /\ cmd[d] # "get" => _expired(raw[d], now')
      BY <1>t, ExpiredForGood DEF RedisInv, CommandFits
  <2> QED
      BY <2>1 DEF RedisInv, CommandFits
<1>2. TransactionSound(d)'
  <2>1. CASE record' = record /\ (d \in dirty => d \in dirty')
    <3>1. _expired(record, now) => _expired(record, now')
        BY <1>t, ExpiredForGood
    <3>2. Findable \subseteq Findable'
        BY <3>1, <2>1 DEF Findable, Live
    <3>3. TransactionSound(d)
        BY DEF RedisInv
    <3> QED
        BY <3>2, <3>3, <2>1 DEF TransactionSound, Getting, Casing
  <2>2. CASE d \in Watching => d \in dirty'
    <3>1. d \notin dirty' => ~(Getting(d, "del") \/ Casing(d, "set"))
        BY <2>2, SameRecords
           DEF Watching, Getting, Casing, Outcomes, Ended
    <3> QED
        BY <3>1 DEF TransactionSound, Getting, Casing
  <2> QED
      BY <2>1, <2>2
<1> QED
    BY <1>1, <1>2

LEMMA ToldGoes ==
    ASSUME RedisTypeOK, NEW c \in Calls, NEW s, Goto(c, s)
    PROVE  Records!Goto(c, IF s = "unanswered" THEN "returned" ELSE s)
BY DEF RedisTypeOK, Goto, Records!Goto, Told

LEMMA RecordsSteps ==
    ASSUME NEW c \in Calls,
           \/ Records!Check(c) \/ Records!Read(c)
           \/ Records!Stores(c) \/ Records!Conflicts(c)
           \/ Records!Fails(c)
    PROVE  RedisStep
BY DEF RedisStep, Records!Next, Records!Step

(* Nothing that FSMRecords sees has changed.                               *)
LEMMA Unseen ==
    ASSUME UNCHANGED <<record, now, life, op, pc, offer, seen>>
    PROVE  RedisStep
BY DEF RedisStep, Records!vars, Told

LEMMA Untold == ASSUME NEW c \in Calls, pc[c] # "unanswered"
                PROVE  Told[c] = pc[c]
BY DEF Told

(* get_record returns what it found: Check or Read of FSMRecords.          *)
LEMMA AnswerStep ==
    ASSUME RedisInv, NEW c \in Calls, pc[c] \in {"check", "read"},
           NEW r \in Findable, record' \in Findable, Answer(c, r),
           UNCHANGED <<now, op, life>>
    PROVE  RedisStep
<1>t. RedisTypeOK
    BY DEF RedisInv
<1>1. CASE pc[c] = "read" /\ op[c] # "get"
  <2>1. /\ \E e \in {Never, now + Ttl} :
               offer' = [offer EXCEPT ![c] = Replacement(c, op[c], r, e)]
        /\ seen' = [seen EXCEPT ![c] = life]
        /\ Goto(c, "cas")
      BY <1>1, SameRecords DEF Answer, Never
  <2>2. Records!Goto(c, "cas")
      BY <2>1, <1>t, ToldGoes
  <2>3. Records!Read(c)
      BY <2>1, <2>2, <1>1, SameRecords, Untold
         DEF Records!Read, Told, Never
  <2> QED
      BY <2>3, RecordsSteps
<1>2. CASE pc[c] = "read" /\ op[c] = "get"
  <2>1. Goto(c, "returned") /\ UNCHANGED <<offer, seen>>
      BY <1>2 DEF Answer
  <2>2. Records!Goto(c, "returned")
      BY <2>1, <1>t, ToldGoes
  <2>3. Records!Read(c)
      BY <2>1, <2>2, <1>2, SameRecords, Untold DEF Records!Read, Told
  <2> QED
      BY <2>3, RecordsSteps
<1>3. CASE pc[c] = "check"
  <2>1. /\ Goto(c, IF r # NoRecord THEN "read" ELSE "returned")
        /\ UNCHANGED <<offer, seen>>
      BY <1>3, SameRecords DEF Answer
  <2>2. Records!Goto(c, IF r = NoRecord THEN "returned" ELSE "read")
      BY <2>1, <1>t, ToldGoes
  <2>3. Records!Check(c)
      BY <2>1, <2>2, <1>3, SameRecords, Untold DEF Records!Check, Told
  <2> QED
      BY <2>3, RecordsSteps
<1> QED
    BY <1>1, <1>2, <1>3

LEMMA AnswerInv ==
    ASSUME RedisInv, NEW c \in Calls, pc[c] \in {"check", "read"},
           NEW r \in Findable, Answer(c, r), UNCHANGED <<now, op, life>>,
           \/ UNCHANGED <<record, dirty>>
           \/ record' = NoRecord /\ dirty' = dirty \cup (Watching \ {c})
    PROVE  RedisInv'
<1>t. RedisTypeOK /\ record \in FSMRecord /\ NoRecord \in FSMRecord /\ NoRecord.revision = 0
    BY NoRecordType DEF RedisInv, RedisTypeOK, NoRecord
<1>r. r \in FSMRecord
    BY <1>t DEF Findable, Live
<1>1. /\ offer' \in [Calls -> FSMRecord]
      /\ seen' \in [Calls -> Nat]
      /\ \A d \in Calls \ {c} : offer'[d] = offer[d]
  <2>1. CASE pc[c] = "read" /\ op[c] # "get"
    <3>1. PICK e \in {Never, now + Ttl} :
             offer' = [offer EXCEPT ![c] = Replacement(c, op[c], r, e)]
        BY <2>1, SameRecords DEF Answer, Never
    <3>2. e \in Nat
        BY <1>t, TtlAssumption DEF Never, RedisTypeOK
    <3>3. Replacement(c, op[c], r, e) \in FSMRecord
        BY <3>2, <1>r, <1>t, <2>1, ReplacementType DEF RedisTypeOK
    <3>4. seen' = [seen EXCEPT ![c] = life]
        BY <2>1 DEF Answer
    <3> QED
        BY <3>1, <3>3, <3>4, <1>t DEF RedisTypeOK
  <2>2. CASE ~(pc[c] = "read" /\ op[c] # "get")
      BY <2>2, <1>t DEF Answer, RedisTypeOK
  <2> QED
      BY <2>1, <2>2
<1>2. \E s \in {"cas", "read", "returned"} :
         /\ pc' = [pc EXCEPT ![c] = s]
         /\ cmd' = [cmd EXCEPT ![c] = IF s = "cas" THEN "watch" ELSE "get"]
    BY DEF Answer, Goto, Send
<1>3. raw' = [raw EXCEPT ![c] = NoRecord]
    BY SameRecords DEF Answer
<1>4. RedisTypeOK'
    BY <1>t, <1>1, <1>2, <1>3 DEF RedisTypeOK, Outcomes, Lookup, Write
<1>5. ASSUME NEW d \in Calls, d # c
      PROVE  CommandFits(d)' /\ TransactionSound(d)'
  <2>1. /\ pc'[d] = pc[d] /\ cmd'[d] = cmd[d] /\ raw'[d] = raw[d] /\ offer'[d] = offer[d]
      BY <1>5, <1>t, <1>1, <1>2, <1>3 DEF RedisTypeOK
  <2> QED
      BY <2>1, <1>5, CallKept
<1>6. CommandFits(c)' /\ TransactionSound(c)'
    BY <1>2, <1>t
       DEF CommandFits, TransactionSound, Getting, Casing, RedisTypeOK, Lookup,
           Write
<1> QED
    BY <1>4, <1>5, <1>6 DEF RedisInv

(* A step of c that FSMRecords does not see, or sees as a conflict or a    *)
(* failure: what is left to show is what it says of c itself.              *)
LEMMA MoveInv ==
    ASSUME RedisInv, NEW c \in Calls,
           NEW p \in {"check", "read", "cas", "unanswered"} \cup Outcomes,
           NEW m \in Lookup \cup Write, NEW r \in FSMRecord,
           pc' = [pc EXCEPT ![c] = p], cmd' = [cmd EXCEPT ![c] = m],
           raw' = [raw EXCEPT ![c] = r], UNCHANGED <<now, op, offer, seen>>,
           life' \in Nat, record' \in FSMRecord, record'.revision = 0 <=> record' = NoRecord,
           \/ record' = record /\ (\A d \in Calls \ {c} : d \in dirty => d \in dirty')
           \/ Watching \ {c} \subseteq dirty',
           CommandFits(c)', TransactionSound(c)'
    PROVE  RedisInv'
<1>t. RedisTypeOK
    BY DEF RedisInv
<1>1. RedisTypeOK'
    BY <1>t DEF RedisTypeOK
<1>2. ASSUME NEW d \in Calls, d # c
      PROVE  CommandFits(d)' /\ TransactionSound(d)'
  <2>1. /\ pc'[d] = pc[d] /\ cmd'[d] = cmd[d] /\ raw'[d] = raw[d] /\ offer'[d] = offer[d]
      BY <1>2, <1>t DEF RedisTypeOK
  <2>2. \/ record' = record /\ (d \in dirty => d \in dirty')
        \/ d \in Watching => d \in dirty'
      BY <1>2
  <2> QED
      BY <2>1, <2>2, CallKept
<1> QED
    BY <1>1, <1>2 DEF RedisInv

LEMMA GetGood ==
    ASSUME RedisInv, NEW c \in Calls, Get(c) PROVE Good
<1>t. RedisTypeOK /\ pc[c] \in {"check", "read"}
    BY DEF RedisInv, Get, Getting
<1>1. CASE _expired(record, now)
  <2>1. /\ pc' = [pc EXCEPT ![c] = pc[c]] /\ cmd' = [cmd EXCEPT ![c] = "watch_expired"]
        /\ raw' = [raw EXCEPT ![c] = record]
        /\ UNCHANGED <<record, now, op, life, pc, offer, seen, dirty>>
      BY <1>1, <1>t, SameRecords
         DEF Get, Send, clock, RedisTypeOK
  <2>2. pc'[c] = pc[c] /\ cmd'[c] = "watch_expired" /\ raw'[c] = record
      BY <2>1, <1>t DEF RedisTypeOK
  <2>3. CommandFits(c)' /\ TransactionSound(c)'
      BY <2>1, <2>2, <1>1, <1>t
         DEF CommandFits, TransactionSound, Getting, Casing, Lookup
  <2>4. /\ pc[c] \in {"check", "read", "cas", "unanswered"} \cup Outcomes
        /\ "watch_expired" \in Lookup \cup Write
        /\ record \in FSMRecord /\ life' \in Nat /\ record' \in FSMRecord
        /\ record'.revision = 0 <=> record' = NoRecord
      BY <2>1, <1>t DEF RedisTypeOK, Lookup
  <2>5. RedisInv'
      BY <2>1, <2>3, <2>4, MoveInv
  <2> QED
      BY <2>1, <2>5, Unseen DEF Good
<1>2. CASE ~_expired(record, now)
  <2>1. /\ Answer(c, record) /\ UNCHANGED <<now, op, life, record, dirty>>
      BY <1>2, SameRecords DEF Get, clock
  <2>2. record \in Findable /\ record' \in Findable
      BY <2>1 DEF Findable
  <2> QED
      BY <2>1, <2>2, <1>t, AnswerStep, AnswerInv DEF Good
<1> QED
    BY <1>1, <1>2

LEMMA GetExpiredGood ==
    ASSUME RedisInv, NEW c \in Calls, GetExpired(c) PROVE Good
<1>t. RedisTypeOK /\ pc[c] \in {"check", "read"} /\ cmd[c] = "get_expired"
    BY DEF RedisInv, GetExpired, Getting
<1>1. CASE record = raw[c]
  <2>1. /\ pc' = [pc EXCEPT ![c] = pc[c]] /\ cmd' = [cmd EXCEPT ![c] = "del"]
        /\ raw' = [raw EXCEPT ![c] = raw[c]]
        /\ UNCHANGED <<record, now, op, life, pc, offer, seen, raw, dirty>>
      BY <1>1, <1>t DEF GetExpired, Send, clock, RedisTypeOK
  <2>2. pc'[c] = pc[c] /\ cmd'[c] = "del" /\ raw'[c] = raw[c]
      BY <2>1, <1>t DEF RedisTypeOK
  <2>3. CommandFits(c)' /\ TransactionSound(c)'
      BY <2>1, <2>2, <1>1, <1>t
         DEF RedisInv, CommandFits, TransactionSound, Getting, Casing, Lookup
  <2>4. /\ pc[c] \in {"check", "read", "cas", "unanswered"} \cup Outcomes
        /\ "del" \in Lookup \cup Write
        /\ raw[c] \in FSMRecord /\ life' \in Nat /\ record' \in FSMRecord
        /\ record'.revision = 0 <=> record' = NoRecord
      BY <2>1, <1>t DEF RedisTypeOK, Lookup
  <2>5. RedisInv'
      BY <2>1, <2>3, <2>4, MoveInv
  <2> QED
      BY <2>1, <2>5, Unseen DEF Good
<1>2. CASE record # raw[c]
  <2>1. /\ Answer(c, Live(record, now)) /\ UNCHANGED <<now, op, life, record, dirty>>
      BY <1>2, SameRecords DEF GetExpired, clock
  <2>2. Live(record, now) \in Findable /\ record' \in Findable
      BY <2>1 DEF Findable
  <2> QED
      BY <2>1, <2>2, <1>t, AnswerStep, AnswerInv DEF Good
<1> QED
    BY <1>1, <1>2

(* The transaction that deletes is executed: nobody replaced the document. *)
LEMMA Deletes ==
    ASSUME RedisInv, NEW c \in Calls, Getting(c, "del"), c \notin dirty
    PROVE  NoRecord \in Findable
<1>1. record = raw[c] /\ _expired(raw[c], now)
    BY DEF RedisInv, CommandFits, TransactionSound, Getting
<1> QED
    BY <1>1 DEF Findable, Live

LEMMA DelGood ==
    ASSUME RedisInv, NEW c \in Calls, Del(c) PROVE Good
<1>1. /\ Getting(c, "del") /\ c \notin dirty /\ Answer(c, NoRecord)
      /\ record' = NoRecord /\ dirty' = dirty \cup (Watching \ {c})
      /\ UNCHANGED <<now, op, life>>
    BY SameRecords DEF Del, Exec, clock
<1>2. NoRecord \in Findable /\ pc[c] \in {"check", "read"}
    BY <1>1, Deletes DEF Getting
<1> QED
    BY <1>1, <1>2, AnswerStep, AnswerInv DEF Good

(* WATCH, or the end of a failed transaction: no transaction of c is ready.*)
LEMMA SendGood ==
    ASSUME RedisInv, NEW c \in Calls, Send(c, cmd'[c]),
           \/ pc[c] \in {"check", "read"} /\ cmd'[c] \in {"watch_expired", "get_expired"}
                 /\ cmd[c] # "get"
           \/ pc[c] = "cas" /\ cmd'[c] \in {"watch", "get_cas"},
           dirty' \in {dirty, dirty \ {c}},
           UNCHANGED <<record, now, op, life, pc, offer, seen, raw>>
    PROVE  Good
<1>t. RedisTypeOK
    BY DEF RedisInv
<1>1. /\ pc' = [pc EXCEPT ![c] = pc[c]] /\ raw' = [raw EXCEPT ![c] = raw[c]]
      /\ cmd' = [cmd EXCEPT ![c] = cmd'[c]]
    BY <1>t DEF Send, RedisTypeOK
<1>2. CommandFits(c)' /\ TransactionSound(c)'
    BY <1>1
       DEF RedisInv, CommandFits, TransactionSound, Getting, Casing, Lookup,
           Write
<1>3. /\ pc[c] \in {"check", "read", "cas", "unanswered"} \cup Outcomes
      /\ cmd'[c] \in Lookup \cup Write
      /\ raw[c] \in FSMRecord /\ life' \in Nat /\ record' \in FSMRecord
      /\ record'.revision = 0 <=> record' = NoRecord
    BY <1>t DEF RedisTypeOK, Lookup, Write
<1>4. RedisInv'
    BY <1>1, <1>2, <1>3, MoveInv
<1> QED
    BY <1>4, Unseen DEF Good

LEMMA WatchExpiredGood ==
    ASSUME RedisInv, NEW c \in Calls, WatchExpired(c) PROVE Good
<1>1. /\ cmd' = [cmd EXCEPT ![c] = "get_expired"] /\ dirty' = dirty \ {c}
      /\ pc[c] \in {"check", "read"} /\ cmd[c] = "watch_expired"
      /\ UNCHANGED <<record, now, op, life, pc, offer, seen, raw>>
    BY DEF WatchExpired, Watch, Getting, Send, clock
<1>2. cmd'[c] = "get_expired"
    BY <1>1 DEF RedisInv, RedisTypeOK
<1>3. Send(c, cmd'[c])
    BY <1>1, <1>2 DEF Send
<1> QED
    BY <1>1, <1>2, <1>3, SendGood

LEMMA WatchCasGood ==
    ASSUME RedisInv, NEW c \in Calls, WatchCas(c) PROVE Good
<1>1. /\ cmd' = [cmd EXCEPT ![c] = "get_cas"] /\ dirty' = dirty \ {c}
      /\ pc[c] = "cas"
      /\ UNCHANGED <<record, now, op, life, pc, offer, seen, raw>>
    BY DEF WatchCas, Watch, Casing, Send, clock
<1>2. cmd'[c] = "get_cas"
    BY <1>1 DEF RedisInv, RedisTypeOK
<1>3. Send(c, cmd'[c])
    BY <1>1, <1>2 DEF Send
<1> QED
    BY <1>1, <1>2, <1>3, SendGood

LEMMA WatchErrorGood ==
    ASSUME RedisInv, NEW c \in Calls, WatchError(c) PROVE Good
<1>1. /\ \/ cmd[c] = "del" /\ cmd' = [cmd EXCEPT ![c] = "watch_expired"]
         \/ cmd[c] = "set" /\ cmd' = [cmd EXCEPT ![c] = "watch"]
      /\ pc[c] \in {"check", "read", "cas"}
      /\ UNCHANGED <<record, now, op, life, pc, offer, seen, raw, dirty>>
    BY DEF WatchError, Send, clock, RedisInv, RedisTypeOK, Ended
<1>2. \/ cmd[c] = "del" /\ cmd'[c] = "watch_expired" /\ pc[c] \in {"check", "read"}
      \/ cmd[c] = "set" /\ cmd'[c] = "watch" /\ pc[c] = "cas"
    BY <1>1 DEF RedisInv, RedisTypeOK, CommandFits, Lookup, Write
<1>3. Send(c, cmd'[c])
    BY <1>1, <1>2 DEF Send
<1> QED
    BY <1>1, <1>2, <1>3, SendGood

(* compare_and_set finds another revision.                                 *)
LEMMA GetCasGood ==
    ASSUME RedisInv, NEW c \in Calls, GetCas(c) PROVE Good
<1>t. RedisTypeOK /\ pc[c] = "cas"
    BY DEF RedisInv, GetCas, Casing
<1>u. UNCHANGED <<record, now, op, life, offer, seen, raw, dirty>>
    BY DEF GetCas, clock
<1>r. /\ raw' = [raw EXCEPT ![c] = raw[c]] /\ raw[c] \in FSMRecord
      /\ life' \in Nat /\ record' \in FSMRecord
      /\ record'.revision = 0 <=> record' = NoRecord
    BY <1>t, <1>u DEF RedisTypeOK
<1>1. CASE Live(record, now).revision = offer[c].revision
  <2>1. cmd' = [cmd EXCEPT ![c] = "set"] /\ UNCHANGED pc
      BY <1>1, SameRecords DEF GetCas, Send
  <2>2. pc' = [pc EXCEPT ![c] = "cas"] /\ pc'[c] = "cas" /\ cmd'[c] = "set"
      BY <2>1, <1>t DEF RedisTypeOK
  <2>3. \E r \in Findable' : r.revision = offer'[c].revision
      BY <1>1, <1>u DEF Findable
  <2>4. CommandFits(c)' /\ TransactionSound(c)'
      BY <2>2, <2>3 DEF CommandFits, TransactionSound, Getting, Write
  <2>5. /\ "cas" \in {"check", "read", "cas", "unanswered"} \cup Outcomes
        /\ "set" \in Lookup \cup Write
      BY DEF Write
  <2>6. RedisInv'
      BY <2>1, <2>2, <2>4, <2>5, <1>u, <1>r, MoveInv
  <2> QED
      BY <2>1, <2>6, <1>u, Unseen DEF Good
<1>2. CASE Live(record, now).revision # offer[c].revision
  <2> PICK p : p = IF op[c] = "update_data" THEN "read" ELSE "conflict"
      OBVIOUS
  <2>1. cmd' = [cmd EXCEPT ![c] = "get"] /\ pc' = [pc EXCEPT ![c] = p]
      BY <1>2, SameRecords DEF GetCas, Send, Goto
  <2>2. cmd'[c] = "get" /\ pc'[c] = p
      BY <2>1, <1>t DEF RedisTypeOK
  <2>3. CommandFits(c)' /\ TransactionSound(c)'
      BY <2>2
         DEF CommandFits, TransactionSound, Getting, Casing, Lookup
  <2>4. p \in {"check", "read", "cas", "unanswered"} \cup Outcomes /\ "get" \in Lookup
      BY DEF Outcomes, Lookup
  <2>5. RedisInv'
      BY <2>1, <2>3, <2>4, <1>u, <1>r, MoveInv
  <2>6. Records!Goto(c, p)
    <3>1. p # "unanswered"
        OBVIOUS
    <3> QED
        BY <3>1, <2>1, <1>t, ToldGoes DEF Goto
  <2>7. Records!Conflicts(c)
    <3>1. record' \in Findable /\ \E r \in Findable : r.revision # offer[c].revision
        BY <1>2, <1>u DEF Findable
    <3>2. Told[c] = "cas"
        BY <1>t, Untold
    <3>3. Records!Goto(c, IF op[c] = "update_data" THEN "read" ELSE "conflict")
        BY <2>6 DEF Records!Goto
    <3>4. Records!View = Findable
        BY SameRecords
    <3> QED
        BY <3>1, <3>2, <3>3, <3>4, <1>u DEF Records!Conflicts, Told
  <2> QED
      BY <2>5, <2>7, RecordsSteps DEF Good
<1> QED
    BY <1>1, <1>2

(* The transaction that stores is executed, whatever comes of its answer.  *)
LEMMA SetGood ==
    ASSUME RedisInv, NEW c \in Calls, NEW s \in {"returned", "unanswered"}, Set(c, s)
    PROVE  Good
<1>t. RedisTypeOK /\ pc[c] = "cas" /\ offer[c] \in FSMRecord
    BY DEF RedisInv, RedisTypeOK, Set, Casing
<1>1. /\ Casing(c, "set") /\ c \notin dirty
      /\ record' = Stored(offer[c]) /\ dirty' = dirty \cup (Watching \ {c})
      /\ life' = IF offer[c].revision = 0 THEN life + 1 ELSE life
      /\ pc' = [pc EXCEPT ![c] = s] /\ cmd' = [cmd EXCEPT ![c] = "get"]
      /\ UNCHANGED <<now, op, offer, seen, raw>>
    BY SameRecords
       DEF Set, Exec, clock, Goto, Send
<1>2. \E r \in Findable : r.revision = offer[c].revision
    BY <1>1 DEF RedisInv, TransactionSound
<1>3. Records!Goto(c, "returned")
    BY <1>1, <1>t, ToldGoes DEF Goto
<1>4. Records!Stores(c)
    BY <1>1, <1>2, <1>3, <1>t, SameRecords, Untold
       DEF Records!Stores, Told
<1>5. /\ record' \in FSMRecord /\ record' # NoRecord /\ record'.revision # 0
      /\ life' \in Nat
    BY <1>1, <1>t, StoredType DEF RedisTypeOK, FSMRecord
<1>6. /\ raw' = [raw EXCEPT ![c] = raw[c]] /\ raw[c] \in FSMRecord
      /\ pc'[c] = s /\ cmd'[c] = "get"
    BY <1>1, <1>t DEF RedisTypeOK
<1>7. CommandFits(c)' /\ TransactionSound(c)'
    BY <1>6 DEF CommandFits, TransactionSound, Getting, Casing
<1>8. s \in {"check", "read", "cas", "unanswered"} \cup Outcomes /\ "get" \in Lookup
    BY DEF Outcomes, Lookup
<1>9. NoRecord.revision = 0
    BY DEF NoRecord
<1>10. RedisInv'
    BY <1>1, <1>5, <1>6, <1>7, <1>8, <1>9, MoveInv
<1> QED
    BY <1>4, <1>10, RecordsSteps DEF Good

(* The call is cancelled, or a command fails, with or without its deletion.*)
LEMMA FailGood ==
    ASSUME RedisInv, NEW c \in Calls, pc[c] \in {"check", "read", "cas"},
           Goto(c, "raised"), Send(c, "get"), raw' = [raw EXCEPT ![c] = NoRecord],
           UNCHANGED <<now, op, life, offer, seen>>,
           \/ UNCHANGED <<record, dirty>>
           \/ /\ record' = NoRecord /\ NoRecord \in Findable
              /\ dirty' = dirty \cup (Watching \ {c})
    PROVE  Good
<1>t. RedisTypeOK
    BY DEF RedisInv
<1>1. /\ pc' = [pc EXCEPT ![c] = "raised"] /\ pc'[c] = "raised"
      /\ cmd' = [cmd EXCEPT ![c] = "get"] /\ cmd'[c] = "get"
    BY <1>t DEF Goto, Send, RedisTypeOK
<1>2. CommandFits(c)' /\ TransactionSound(c)'
    BY <1>1 DEF CommandFits, TransactionSound, Getting, Casing
<1>3. /\ "raised" \in {"check", "read", "cas", "unanswered"} \cup Outcomes
      /\ "get" \in Lookup \cup Write
    BY DEF Outcomes, Lookup
<1>4. NoRecord \in FSMRecord /\ NoRecord.revision = 0
    BY NoRecordType DEF NoRecord
<1>5. /\ record' \in FSMRecord /\ life' \in Nat
      /\ record'.revision = 0 <=> record' = NoRecord
    BY <1>t, <1>4 DEF RedisTypeOK
<1>6. RedisInv'
    BY <1>1, <1>2, <1>3, <1>4, <1>5, MoveInv
<1>7. Records!Fails(c)
  <2>1. record' \in Findable
      BY DEF Findable
  <2>2. Records!Goto(c, "raised")
      BY <1>t, ToldGoes
  <2>3. Told[c] \notin Outcomes
      BY Untold DEF Outcomes
  <2>4. Records!View = Findable /\ Records!Outcomes = Outcomes
      BY SameRecords
  <2> QED
      BY <2>1, <2>2, <2>3, <2>4 DEF Records!Fails, Told
<1> QED
    BY <1>6, <1>7, RecordsSteps DEF Good

LEMMA FailsGood ==
    ASSUME RedisInv, NEW c \in Calls, CommandFails(c) PROVE Good
<1>1. /\ pc[c] \in {"check", "read", "cas"}
      /\ Goto(c, "raised") /\ Send(c, "get")
      /\ raw' = [raw EXCEPT ![c] = NoRecord]
      /\ UNCHANGED <<record, now, op, life, offer, seen, dirty>>
    BY DEF CommandFails, clock, RedisInv, RedisTypeOK, Ended
<1> QED
    BY <1>1, FailGood

LEMMA AnswerLostGood ==
    ASSUME RedisInv, NEW c \in Calls, AnswerLost(c) PROVE Good
<1>1. CASE Set(c, "unanswered")
    BY <1>1, SetGood
<1>2. CASE ~Set(c, "unanswered")
  <2>1. /\ Getting(c, "del") /\ c \notin dirty
        /\ record' = NoRecord /\ dirty' = dirty \cup (Watching \ {c})
        /\ Goto(c, "raised") /\ Send(c, "get")
        /\ raw' = [raw EXCEPT ![c] = NoRecord]
        /\ UNCHANGED <<now, op, life, offer, seen>>
      BY <1>2, SameRecords DEF AnswerLost, Exec, clock
  <2>2. NoRecord \in Findable /\ pc[c] \in {"check", "read", "cas"}
      BY <2>1, Deletes DEF Getting
  <2> QED
      BY <2>1, <2>2, FailGood
<1> QED
    BY <1>1, <1>2

(* Time passes, and the document may go when it has expired.               *)
LEMMA TickGood == ASSUME RedisInv, RedisTick PROVE Good
<1>1. /\ now' = now + 1
      /\ UNCHANGED <<record, life, op, pc, offer, seen, cmd, raw, dirty>>
    BY DEF RedisTick, Tick
<1>2. RedisTypeOK'
    BY <1>1 DEF RedisInv, RedisTypeOK
<1>3. \A d \in Calls : CommandFits(d)' /\ TransactionSound(d)'
    BY <1>1, CallKept
<1>4. Records!Tick
    BY <1>1 DEF RedisTick, Tick, Records!Tick, Told
<1> QED
    BY <1>2, <1>3, <1>4 DEF Good, RedisInv, RedisStep, Records!Next

LEMMA ExpireGood == ASSUME RedisInv, Expire PROVE Good
<1>1. /\ _expired(record, now) /\ record' = NoRecord
      /\ dirty' = dirty \cup Watching
      /\ UNCHANGED <<now, life, op, pc, offer, seen, cmd, raw>>
    BY SameRecords DEF Expire
<1>2. RedisTypeOK'
    BY <1>1, NoRecordType DEF RedisInv, RedisTypeOK, NoRecord
<1>3. \A d \in Calls : CommandFits(d)' /\ TransactionSound(d)'
    BY <1>1, CallKept
<1>4. Records!Drop
    BY <1>1, SameRecords DEF Records!Drop, Live, Told
<1> QED
    BY <1>2, <1>3, <1>4 DEF Good, RedisInv, RedisStep, Records!Next

-----------------------------------------------------------------------------
LEMMA RedisStepGood == RedisInv /\ [RedisNext]_redisVars => Good
<1> SUFFICES ASSUME RedisInv, [RedisNext]_redisVars PROVE Good
    OBVIOUS
<1>1. CASE UNCHANGED redisVars
  <2>1. UNCHANGED <<record, now, life, op, pc, offer, seen, cmd, raw, dirty>>
      BY <1>1 DEF redisVars
  <2>2. RedisTypeOK'
      BY <2>1 DEF RedisInv, RedisTypeOK
  <2>3. \A d \in Calls : CommandFits(d)' /\ TransactionSound(d)'
      BY <2>1, CallKept
  <2> QED
      BY <2>1, <2>2, <2>3, Unseen DEF Good, RedisInv
<1>2. ASSUME NEW c \in Calls, Command(c) PROVE Good
    BY <1>2, GetGood, WatchExpiredGood, GetExpiredGood, DelGood, WatchCasGood,
       GetCasGood,
       SetGood, WatchErrorGood DEF Command
<1> QED
    BY <1>1, <1>2, TickGood, ExpireGood, FailsGood, AnswerLostGood
       DEF RedisNext

LEMMA RedisInitGood == RedisInit => RedisInv /\ Records!Init
<1> SUFFICES ASSUME RedisInit PROVE RedisInv /\ Records!Init
    OBVIOUS
<1>1. /\ \/ record = NoRecord /\ life = 0
         \/ record = Left /\ life = 1
      /\ now = 0 /\ op \in [Calls -> Ops]
      /\ pc = [c \in Calls |-> Entry(op[c])]
      /\ offer = [c \in Calls |-> NoRecord]
      /\ seen = [c \in Calls |-> 0]
      /\ cmd = [c \in Calls |-> "get"]
      /\ raw = [c \in Calls |-> NoRecord]
    BY SameRecords DEF RedisInit, Init
<1>2. \A c \in Calls : pc[c] \in {"check", "read"} /\ cmd[c] = "get"
    BY <1>1 DEF Entry
<1>3. Left \in FSMRecord /\ Left.revision = 1 /\ NoRecord.revision = 0
    BY TtlAssumption DEF Left, NoRecord, FSMRecord, Never
<1>4. pc \in [Calls -> {"check", "read"}] /\ cmd \in [Calls -> Lookup]
    BY <1>1 DEF Entry, Lookup
<1>5. RedisTypeOK
    BY <1>1, <1>3, <1>4, NoRecordType DEF RedisTypeOK
<1>6. RedisInv
    BY <1>2, <1>5
       DEF RedisInv, CommandFits, TransactionSound, Getting, Casing, Lookup
<1>7. Told = pc
    BY <1>1, <1>2 DEF Told
<1>8. Records!Init
    BY <1>1, <1>7, SameRecords DEF Records!Init, Told
<1> QED
    BY <1>6, <1>8

(* RedisFSMRecordStorage keeps the promise of FSMRecordStorage: however    *)
(* the commands of any number of calls interleave, whichever fail or lose  *)
(* their answers and whenever Redis expires the key, every method behaves  *)
(* as if get_record and compare_and_set were atomic.                       *)
THEOREM RedisImplementsRecords == RedisSpec => ImplementsRecords
<1>1. RedisInv /\ [RedisNext]_redisVars => RedisInv'
    BY RedisStepGood DEF Good
<1>2. RedisInv /\ [RedisNext]_redisVars => [Records!Next]_(Records!vars)
    BY RedisStepGood DEF Good, RedisStep
<1> QED
    BY <1>1, <1>2, RedisInitGood, PTL
       DEF RedisSpec, ImplementsRecords, Records!Spec
=============================================================================
