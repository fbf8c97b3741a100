------------------------------- MODULE MCPool -------------------------------
(* The connection pool for TLC: more threads than connections, so that     *)
(* callers do wait, and two sleepers can stand beside two releases.  The   *)
(* bounds are the constants of the two cfgs; nothing else is bounded.      *)
EXTENDS ConnectionPool
=============================================================================
