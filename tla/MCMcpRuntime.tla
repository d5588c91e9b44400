---------------------------- MODULE MCMcpRuntime ---------------------------
(* Model-checking instances of McpRuntime.                                  *)
EXTENDS McpRuntime

CONSTANTS s1, s2, h1, h2

World(servers, handlers, swallows) ==
    [servers |-> servers, handlers |-> handlers, swallows |-> swallows]

\* One handler and two servers; two handlers that meet at one server.
SmallWorlds == {World({s1, s2}, {h1}, TRUE), World({s1}, {h1, h2}, FALSE)}
=============================================================================
