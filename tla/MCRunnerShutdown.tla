-------------------------- MODULE MCRunnerShutdown --------------------------
(* Small instances of RunnerShutdown; see the configurations. *)
EXTENDS RunnerShutdown
=============================================================================
