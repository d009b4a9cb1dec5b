---------------------------- MODULE MCPersistence ----------------------------
(* Instances of Persistence for TLC.  The run checks liveness: no symmetry. *)
EXTENDS Persistence

CONSTANTS a1, a2, b1, b2
=============================================================================
