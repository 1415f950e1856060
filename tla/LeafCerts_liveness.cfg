CONSTANTS
  Nil = Nil
  Thread = {t1, t2, t3}
  Host = {h1}
  Lock = {l1, l2, l3}
  Cert = {c1, c2, c3, c4}
  CacheMax = 1
SPECIFICATION FairSpec
PROPERTIES EveryCallReturns
