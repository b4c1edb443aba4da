--------------------------- MODULE MCLeaseClients ---------------------------
(* Instances of LeaseClients for TLC.                                      *)
EXTENDS LeaseClients

CONSTANTS a1, a2, p1, p2, p3, c1    \* model values

MCCalls == {a1, a2, c1}
=============================================================================
