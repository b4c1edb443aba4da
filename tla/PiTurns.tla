------------------------------ MODULE PiTurns ------------------------------
(***************************************************************************)
(* What the desktop program relies on in a Pi child: it works or it does   *)
(* not, and it says "agent_settled" once, at the end of each work.         *)
(* PiRpcProcess has its children behave so; AgentSession implements it.    *)
(***************************************************************************)
EXTENDS Naturals

VARIABLES
    working,    \* a run, its retries and continuations go on
    settled     \* number of "agent_settled" lines

turnVars == <<working, settled>>

Begin == ~working /\ working' = TRUE /\ UNCHANGED settled

Settle == working /\ working' = FALSE /\ settled' = settled + 1

TurnsInit == working = FALSE /\ settled = 0

Turns == TurnsInit /\ [][Begin \/ Settle]_turnVars /\ WF_turnVars(Settle)
=============================================================================
