--------------------------- MODULE MCAgentPipeline ---------------------------
(* Instances of AgentPipeline for TLC. *)
EXTENDS AgentPipeline

(* Each lane channel has one place. *)
OneEach == [l \in Lane |-> 1]
=============================================================================
