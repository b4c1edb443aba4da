--------------------------- MODULE MCAgentManager ---------------------------
(* Instances of AgentManager for TLC.                                       *)
EXTENDS AgentManager, TLC

CONSTANTS w1, w2, m1, m2, m3

MCCalls == Requests \cup EventSlots \cup {OpSlot(a) : a \in Writers}

(* Writers and prompts are interchangeable: only safety is checked with it. *)
Symmetry == Permutations(Writers) \cup Permutations(Requests)
=============================================================================
