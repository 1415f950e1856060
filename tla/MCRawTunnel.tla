----------------------------- MODULE MCRawTunnel ------------------------------
(* Instances of RawTunnel for TLC: two chunks each way and a window of one,  *)
(* so that a copy can be blocked in a write with more to read.               *)
EXTENDS RawTunnel
===============================================================================
