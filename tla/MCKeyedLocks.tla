---------------------------- MODULE MCKeyedLocks ----------------------------
(* Small instances of KeyedLocks; see the configurations. *)
EXTENDS KeyedLocks
=============================================================================
