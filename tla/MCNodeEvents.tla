--------------------------- MODULE MCNodeEvents ---------------------------
(* A small instance of NodeEvents: the second endpoint may close.           *)
EXTENDS NodeEvents

Closing == {2}
=============================================================================
