--------------------------- MODULE MCMcpRegistry ---------------------------
(* Instances of McpRegistry for TLC. *)
EXTENDS McpRegistry
=============================================================================
