----------------------------- MODULE LeafCertsLRU ------------------------------
(* LeafCerts with a history of its answers, which is not computed from the     *)
(* cache and against which the cache is checked: putCached and getCached keep  *)
(* it as a list, the hosts served last in front.                               *)
EXTENDS LeafCerts

VARIABLES served, \* the hosts that were served a certificate
          later   \* <<g, h>>: g was last served after h was

history == <<served, later>>

Serves(t) == pc[t] \in {"lookup", "put"} /\ pc'[t] = "unlock"

Remember ==
  \/ \E t \in Thread : LET h == hostOf[t]
                       IN  /\ Serves(t)
                           /\ served' = served \cup {h}
                           /\ later' = {p \in later : h \notin {p[1], p[2]}} \cup ({h} \X (served \ {h}))
  \/ (\A t \in Thread : ~Serves(t)) /\ UNCHANGED history

HistoryInit == Init /\ served = {} /\ later = {}
HistorySpec == HistoryInit /\ [][Next /\ Remember]_<<vars, history>>

\* The map and the list of the cache agree: both hold the hosts served most
\* recently, as many as fit, the list in the order of their last use.
HoldsMostRecent ==
  LET kept == {cacheLRU[i] : i \in DOMAIN cacheLRU}
  IN  /\ \A h \in Host : Cached(h) <=> h \in kept
      /\ kept \subseteq served
      /\ \A i, j \in DOMAIN cacheLRU : i < j => <<cacheLRU[i], cacheLRU[j]>> \in later
      /\ \A g \in kept, h \in served \ kept : <<g, h>> \in later
      /\ kept = served \/ Len(cacheLRU) = CacheMax
===============================================================================
