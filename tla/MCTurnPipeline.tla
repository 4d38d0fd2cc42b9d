-------------------------- MODULE MCTurnPipeline --------------------------
(* Small sessions of TurnPipeline for TLC.                                 *)
EXTENDS TurnPipeline
============================================================================
