--------------------------- MODULE ExclusiveLease ---------------------------
(***************************************************************************)
(* What the write lease of a project promises to the agents: it is granted *)
(* only while nobody has it, and at most one agent has it at a time.       *)
(***************************************************************************)
CONSTANT Agents

VARIABLE holders    \* the agents that may modify the project

Init == holders = {}

Grant(a) == holders = {} /\ holders' = {a}

Revoke(a) == a \in holders /\ holders' = holders \ {a}

Next == \E a \in Agents : Grant(a) \/ Revoke(a)

Spec == Init /\ [][Next]_holders
=============================================================================
