------------------------------- MODULE MCServer --------------------------------
(* An instance of Server for TLC: two requests and one tunnel, so that a       *)
(* shutdown finds one request finished, one in flight and a connection that it *)
(* does not know of.                                                           *)
EXTENDS Server

CONSTANTS r1, r2, t1
MCRequest == {r1, r2}
MCTunnel == {t1}
===============================================================================
