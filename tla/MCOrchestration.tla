---------------------------- MODULE MCOrchestration ----------------------------
(* A small instance of OrchestrationService for TLC.  Liveness is checked,  *)
(* so there is no symmetry.                                                *)
EXTENDS OrchestrationService
=============================================================================
