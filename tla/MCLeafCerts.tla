----------------------------- MODULE MCLeafCerts ------------------------------
(* Instances of LeafCerts for TLC.  A free lock cell exists for each thread, *)
(* and a free certificate for each thread beside those the cache holds, so   *)
(* that allocation never waits.                                              *)
EXTENDS LeafCerts, TLC

ASSUME EnoughCells == /\ Cardinality(Lock) >= Cardinality(Thread)
                      /\ Cardinality(Cert) >= Cardinality(Thread) + CacheMax

Symmetry == Permutations(Thread) \cup Permutations(Host)
              \cup Permutations(Lock) \cup Permutations(Cert)
===============================================================================
