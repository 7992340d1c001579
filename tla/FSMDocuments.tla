---------------------------- MODULE FSMDocuments ----------------------------
(***************************************************************************)
(* The record of one conversation (StorageKey) in chattice's FSM record    *)
(* stores (src/src/chattice/fsm/record.py), and what the calls of          *)
(* BaseStorageFromRecord and of the application make of a record they      *)
(* read.  Keys share nothing, so one is enough.                            *)
(*                                                                         *)
(* Data is what the calls put there: a call that stores a state or a field *)
(* stores itself, so that what is lost or resurrected can be told.         *)
(* Revision 0 stands for "no record", as in compare_and_set.               *)
(***************************************************************************)
EXTENDS Naturals

CONSTANTS Calls,    \* calls of the storage's methods
          None,     \* the state of a conversation that has none
          Ttl,      \* how long a record lives that is stored with expires_at
          MaxTime   \* bound: the clock stops here

ASSUME NoneAssumption == None \notin Calls
ASSUME TtlAssumption == Ttl \in Nat /\ Ttl > 0

(* "put" is the application's own get_record and compare_and_set with      *)
(* expires_at; the others are the adapter's methods, "get" for get_state   *)
(* and get_data.                                                           *)
Ops == {"get", "set_state", "set_data", "update_data", "finish", "put"}

Never == 0

FSMRecord == [state : Calls \cup {None}, data : SUBSET Calls,
              revision : Nat, expires : Nat]

NoRecord == [state |-> None, data |-> {}, revision |-> 0, expires |-> Never]

_expired(r, now) == r.expires # Never /\ r.expires <= now

(* What a store answers that holds r. *)
Live(r, now) == IF _expired(r, now) THEN NoRecord ELSE r

(* The replacement that call c of operation o makes of what it read.  Its  *)
(* revision is the one compare_and_set is to expect.                       *)
Replacement(c, o, r, expires) ==
    CASE o = "update_data" -> [r EXCEPT !.data = @ \cup {c}]
      [] o = "set_state"   -> [r EXCEPT !.state = c]
      [] o = "set_data"    -> [r EXCEPT !.data = {c}]
      [] o = "finish"      -> [r EXCEPT !.state = None, !.data = {}]
      [] o = "put"         -> [r EXCEPT !.state = c, !.data = {c},
                                        !.expires = expires]

StoredUnbumped(r) == r

(* replace(replacement, revision=current_revision + 1) *)
Stored(r) == [r EXCEPT !.revision = @ + 1]
=============================================================================
