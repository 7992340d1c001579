--------------------------- MODULE MCBotLifecycle ---------------------------
(* Small instances of BotLifecycle; see the configurations. *)
EXTENDS BotLifecycle
=============================================================================
