---------------------------- MODULE MCPubSubPull ----------------------------
(* Small instances of PubSubPull; see the configurations. *)
EXTENDS PubSubPull
=============================================================================
