--------------------------- MODULE MCPiRpcProcess ---------------------------
(* Instances of PiRpcProcess for TLC.                                       *)
EXTENDS PiRpcProcess

CONSTANTS q1, q2    \* model values
=============================================================================
