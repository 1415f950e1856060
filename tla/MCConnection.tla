----------------------------- MODULE MCConnection -----------------------------
(* Instances of Connection for TLC: on HTTP/1.1 two requests, the least that   *)
(* can disturb each other; bodies of two pieces, the least that can be partly  *)
(* read; a body limit of one piece and a dump limit of one unit, so that bodies *)
(* are below, at and above both.                                               *)
EXTENDS Connection
===============================================================================
