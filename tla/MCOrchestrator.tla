--------------------------- MODULE MCOrchestrator ---------------------------
(* The FSM alone: two callers are the least that can overlap; a third one  *)
(* switches twice while the first is suspended.                            *)
EXTENDS Orchestrator

CONSTANTS c1, c2, c3

MCCallers == {c1, c2, c3}
=============================================================================
