---------------------------- MODULE MCLeafCertsLRU ----------------------------
(* MCLeafCerts with the history against which the order of the LRU cache is    *)
(* checked.                                                                   *)
EXTENDS MCLeafCerts, LeafCertsLRU
===============================================================================
