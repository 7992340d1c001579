------------------------ MODULE MCMemoryIdempotency ------------------------
(* Small instance of MemoryIdempotency; see the configuration. *)
EXTENDS MemoryIdempotency
=============================================================================
