--------------------------- MODULE MCAgentSession ---------------------------
(* AgentSession with few prompts, retries and commands.                    *)
EXTENDS AgentSession

CONSTANTS p1, p2, p3

MCPrompts == {p1, p2, p3}
MCTroubles == {{"flaky"}, {"gateway"}}
=============================================================================
