--------------------------- MODULE MCNegotiation ---------------------------
(* Two clients of Negotiation. (No symmetry: the run has a liveness        *)
(* property.)                                                              *)
EXTENDS Negotiation, TLC

CONSTANTS c1, c2

MCClients == {c1, c2}

(* The first client may call again before the answer is there, the second  *)
(* may call at the same time.                                              *)
MCMaxCalls == c1 :> 2 @@ c2 :> 1
=============================================================================
