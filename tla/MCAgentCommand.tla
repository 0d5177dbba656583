--------------------------- MODULE MCAgentCommand ---------------------------
(* Instances of AgentCommand for TLC. *)
EXTENDS AgentCommand, TLC

(* Every request is about the first key, except r4. *)
Keys == [r \in Request |-> IF r = "r4" THEN "k2" ELSE "k1"]

(* r2 is sent to the subject of the agent, the others to that of all agents. *)
Subjects == [r \in Request |-> IF r = "r2" THEN "own" ELSE "all"]
=============================================================================
