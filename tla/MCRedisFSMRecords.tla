------------------------- MODULE MCRedisFSMRecords --------------------------
(* A small instance of RedisFSMRecords. *)
EXTENDS RedisFSMRecords
=============================================================================
