----------------------- MODULE MCPermissionForwarding -----------------------
(* Instances of PermissionForwarding for TLC.                              *)
EXTENDS PermissionForwarding

CONSTANTS r1, r2, s1, s2    \* model values
=============================================================================
