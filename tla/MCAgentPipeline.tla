--------------------------- MODULE MCAgentPipeline ---------------------------
(* The instances of AgentPipeline that TLC checks: results are numbers, and *)
(* the odd ones belong to the first scheduler.                              *)
EXTENDS AgentPipeline

CONSTANTS s1, s2

MCOwner == [r \in Results |-> IF r % 2 = 1 THEN s1 ELSE s2]

=============================================================================
