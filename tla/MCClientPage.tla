---------------------------- MODULE MCClientPage ----------------------------
(* ClientPage with one peer: two channels at most of each side.            *)
EXTENDS ClientPage

CONSTANT p1

MCPeers == {p1}
=============================================================================
