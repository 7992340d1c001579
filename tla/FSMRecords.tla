----------------------------- MODULE FSMRecords -----------------------------
(***************************************************************************)
(* Calls on one conversation through BaseStorageFromRecord                 *)
(* (src/src/chattice/fsm/record.py) over an FSMRecordStorage whose         *)
(* get_record and compare_and_set are atomic.  A call reads the record,    *)
(* makes a replacement of it, and stores that if the revision is still the *)
(* one it read; update_data starts over on a conflict, the others raise    *)
(* FSMRecordConflict.                                                      *)
(*                                                                         *)
(* With Prompt this is MemoryFSMRecordStorage, which holds the key's lock, *)
(* awaits nothing inside, and looks at the clock in the same step.         *)
(* Without, it is what any FSMRecordStorage promises: a record is not seen *)
(* to expire before its time, but afterwards a call may still find it, and *)
(* the store may drop it at any time.                                      *)
(***************************************************************************)
EXTENDS FSMDocuments

CONSTANT Prompt

ASSUME PromptAssumption == Prompt \in BOOLEAN

VARIABLES record,  \* what the store holds
          now,     \* its clock
          life,    \* how many times a record was created
          op,      \* per call: which operation it is
          pc,      \* per call: where it is, or how it ended
          offer,   \* the replacement it made of what it read
          seen     \* the life of the record it read

vars == <<record, now, life, op, pc, offer, seen>>

Outcomes == {"returned", "conflict", "raised"}

TypeOK == /\ record \in FSMRecord
          /\ record.revision = 0 <=> record = NoRecord
          /\ now \in Nat
          /\ life \in Nat
          /\ op \in [Calls -> Ops]
          /\ pc \in [Calls -> {"check", "read", "cas"} \cup Outcomes]
          /\ offer \in [Calls -> FSMRecord]
          /\ seen \in [Calls -> Nat]

(* finish looks for a record before it does what the others do. *)
Entry(o) == IF o = "finish" THEN "check" ELSE "read"

(* The conversation is new, or an earlier call left a record with a TTL.   *)
Left == [NoRecord EXCEPT !.revision = 1, !.expires = Ttl]

Init == /\ \/ record = NoRecord /\ life = 0
           \/ record = Left /\ life = 1
        /\ now = 0
        /\ op \in [Calls -> Ops]
        /\ pc = [c \in Calls |-> Entry(op[c])]
        /\ offer = [c \in Calls |-> NoRecord]
        /\ seen = [c \in Calls |-> 0]

(* What an operation of the store may find. *)
View == {Live(record, now)} \cup (IF Prompt THEN {} ELSE {record})

Goto(c, step) == pc' = [pc EXCEPT ![c] = step]

-----------------------------------------------------------------------------
Tick == /\ now < MaxTime
        /\ now' = now + 1
        /\ UNCHANGED <<record, life, op, pc, offer, seen>>

(* An expired record is dropped by the store (in memory nobody can tell). *)
Drop == /\ record' = Live(record, now)
        /\ UNCHANGED <<now, life, op, pc, offer, seen>>

(* The first get_record of finish. *)
Check(c) ==
    /\ pc[c] = "check"
    /\ record' \in View
    /\ \E r \in View : Goto(c, IF r = NoRecord THEN "returned" ELSE "read")
    /\ UNCHANGED <<now, life, op, offer, seen>>

(* get_record and the replacement. *)
Read(c) ==
    /\ pc[c] = "read"
    /\ record' \in View
    /\ IF op[c] = "get"
       THEN Goto(c, "returned") /\ UNCHANGED <<offer, seen>>
       ELSE /\ \E r \in View, e \in {Never, now + Ttl} :
                  offer' = [offer EXCEPT ![c] = Replacement(c, op[c], r, e)]
            /\ seen' = [seen EXCEPT ![c] = life]
            /\ Goto(c, "cas")
    /\ UNCHANGED <<now, life, op>>

StoresBlindly(c) ==
    /\ pc[c] = "cas"
    /\ \E r \in View :
          /\ record' = [offer[c] EXCEPT !.revision = r.revision + 1]
          /\ life' = IF r = NoRecord THEN life + 1 ELSE life
    /\ Goto(c, "returned")
    /\ UNCHANGED <<now, op, offer, seen>>

(* compare_and_set finds the revision it expects. *)
Stores(c) ==
    /\ pc[c] = "cas"
    /\ \E r \in View : r.revision = offer[c].revision
    /\ record' = Stored(offer[c])
    /\ life' = IF offer[c].revision = 0 THEN life + 1 ELSE life
    /\ Goto(c, "returned")
    /\ UNCHANGED <<now, op, offer, seen>>

(* ... or another one: FSMRecordConflict. *)
Conflicts(c) ==
    /\ pc[c] = "cas"
    /\ record' \in View
    /\ \E r \in View : r.revision # offer[c].revision
    /\ Goto(c, IF op[c] = "update_data" THEN "read" ELSE "conflict")
    /\ UNCHANGED <<now, life, op, offer, seen>>

(* The call is cancelled, or its connection fails, without effect. *)
Fails(c) ==
    /\ pc[c] \notin Outcomes
    /\ record' \in View
    /\ Goto(c, "raised")
    /\ UNCHANGED <<now, life, op, offer, seen>>

-----------------------------------------------------------------------------
Step(c) == Check(c) \/ Read(c) \/ Stores(c) \/ Conflicts(c)

Next == Tick \/ Drop \/ \E c \in Calls : Step(c) \/ Fails(c)

Spec == Init /\ [][Next]_vars

-----------------------------------------------------------------------------
(* "a concurrent modification raises FSMRecordConflict instead of silently *)
(* losing data": what a call stores is what it would have made of the      *)
(* record it replaces, although it made it of an earlier one - provided    *)
(* that no record was created since it read.  (A record that expired and   *)
(* was created again counts its revisions from 1 again; a call that read   *)
(* the former one may then overwrite the new one.)                         *)
AppliedToCurrent ==
    [][\A c \in Calls :
          /\ pc[c] = "cas" /\ pc'[c] = "returned"
          /\ seen[c] = life
          => \E r \in View :
                /\ r.revision = offer[c].revision
                /\ offer[c] = Replacement(c, op[c], r, offer[c].expires)]_vars

(* "concurrent updates never silently overwrite each other": while nobody  *)
(* replaces the data, ends the conversation or gives it a TTL, every field *)
(* that update_data returned for is there, whoever updates and sets states *)
(* at once and whichever of the calls fail.                                *)
UpdatesSurvive ==
    /\ \A c \in Calls : op[c] \in {"get", "set_state", "update_data"}
    /\ life = 1 /\ record # NoRecord /\ record.expires = Never
    => {c \in Calls : op[c] = "update_data" /\ pc[c] = "returned"} \subseteq record.data
=============================================================================
