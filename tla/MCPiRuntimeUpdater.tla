------------------------ MODULE MCPiRuntimeUpdater -------------------------
(* Instances of PiRuntimeUpdater for TLC.                                  *)
EXTENDS PiRuntimeUpdater

CONSTANTS a1, a2    \* model values
=============================================================================
