--------------------------- MODULE MCSignalServer ---------------------------
(* Small instances of SignalServer for TLC. *)
EXTENDS SignalServer, TLC

CONSTANTS c1, c2, c3, p1, p2

(* Two connections that present the same identifier, two that do not, and  *)
(* two that do beside a third.                                             *)
IdOfTwins == (c1 :> p1) @@ (c2 :> p1)
IdOfPair  == (c1 :> p1) @@ (c2 :> p2)
IdOfTrio  == (c1 :> p1) @@ (c2 :> p1) @@ (c3 :> p2)
=============================================================================
