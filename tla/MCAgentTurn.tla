---------------------------- MODULE MCAgentTurn ----------------------------
(* Instances of AgentTurn for TLC: in the run about one session's history *)
(* the messages are interchangeable.                                       *)
EXTENDS AgentTurn, TLC

Symmetry == Permutations(Message)
=============================================================================
