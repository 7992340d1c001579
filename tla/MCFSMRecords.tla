---------------------------- MODULE MCFSMRecords ----------------------------
(* Small instances of FSMRecords; see the configurations. *)
EXTENDS FSMRecords
=============================================================================
