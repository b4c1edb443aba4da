----------------------------- MODULE MCPiLogins -----------------------------
(* PiLogins as TLC runs it: the bounds are in the configuration.           *)
EXTENDS PiLogins
=============================================================================
