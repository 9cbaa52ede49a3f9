--------------------------- MODULE MCPlatformSync ---------------------------
(***************************************************************************)
(* PlatformSync on one member.  No symmetry: the run checks liveness.      *)
(***************************************************************************)
EXTENDS PlatformSync, TLC

=============================================================================
