------------------------------ MODULE MCServer -------------------------------
(* The server for TLC. *)
EXTENDS Server, TLC

CONSTANTS c1, c2, t1, t2

\* Half a request on one connection, two requests on the other.
HalfAndFour == (c1 :> 1) @@ (c2 :> 4)
OneRequest == (c1 :> 2)
=============================================================================
