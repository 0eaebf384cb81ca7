----------------------------- MODULE MCOrchestrator -----------------------------
(***************************************************************************)
(* An instance of Orchestrator for TLC: three requests of one thread.      *)
(***************************************************************************)
EXTENDS Orchestrator, TLC

CONSTANTS r1, r2, r3, thread, other

OneThread == r1 :> thread @@ r2 :> thread @@ r3 :> thread
=============================================================================
