--------------------------- MODULE MCDurableLane ---------------------------
(* DurableLane for TLC.                                                    *)
EXTENDS DurableLane
=============================================================================
