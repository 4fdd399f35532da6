----------------------------- MODULE MCMcpClient -----------------------------
(* The handshake, the listing and two calls that may overlap. *)
EXTENDS McpClient

CONSTANTS hello, listing, c1, c2

MCCall == {hello, listing, c1, c2}
=============================================================================
