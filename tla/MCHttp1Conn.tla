----------------------------- MODULE MCHttp1Conn ------------------------------
(* Instances of Http1Conn for TLC: two requests, the least that can disturb  *)
(* each other, with bodies of up to two pieces, the least that can be partly *)
(* read.                                                                     *)
EXTENDS Http1Conn
===============================================================================
