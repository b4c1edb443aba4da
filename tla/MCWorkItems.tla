---------------------------- MODULE MCWorkItems ----------------------------
(* WorkItems with three handlers at a time: one creates, one resets and    *)
(* one sets the status of an agent.                                        *)
EXTENDS WorkItems, TLC

CONSTANTS c1, c2, c3

MCCalls == {c1, c2, c3}
Symmetry == Permutations(MCCalls)
=============================================================================
