---------------------------- MODULE MCPubSubPush ----------------------------
(* A small instance of PubSubPush. *)
EXTENDS PubSubPush, TLC

RequestSymmetry == Permutations(Owners)
=============================================================================
