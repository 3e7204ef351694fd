---------------------------- MODULE MCWorkerCycle ----------------------------
(***************************************************************************)
(* Two worker processes, one of them step by step, for TLC.                *)
(***************************************************************************)
EXTENDS WorkerCycle
=============================================================================
