----------------------------- MODULE MCMcpActor -----------------------------
(* Instances of McpActor for TLC. *)
EXTENDS McpActor, TLC

Symmetry == Permutations(Tasks) \union Permutations(Handlers)
=============================================================================
