CONSTANTS
  r1 = r1
  r2 = r2
  t1 = t1
  Request <- MCRequest
  Tunnel <- MCTunnel
  Nil = Nil
  BindError = BindError
SPECIFICATION FairSpec
INVARIANTS TypeOK BlocksUntilDone
PROPERTIES ProcessEnds
CHECK_DEADLOCK FALSE
