--------------------------- MODULE MCClientSocket ---------------------------
(* ClientSocket with two tasks that send, and a buffer smaller than their  *)
(* requests.                                                               *)
EXTENDS ClientSocket

CONSTANTS t1, t2, p1, p2

MCCallers == {t1, t2}
MCPeers   == {p1, p2}
=============================================================================
