------------------------- MODULE MCRedisIdempotency -------------------------
(* A small instance of RedisIdempotency. *)
EXTENDS RedisIdempotency
=============================================================================
