CONSTANTS
  Nil = Nil
  Thread = {t1, t2, t3}
  Host = {h1, h2, h3}
  Lock = {l1, l2, l3}
  Cert = {c1, c2, c3, c4, c5}
  CacheMax = 2
SPECIFICATION HistorySpec
SYMMETRY Symmetry
INVARIANTS TypeOK SingleFlight BlockedBySameHost LocksReclaimed HoldsMostRecent
PROPERTIES NeverReissuedWhileCached ImplementsAbs
