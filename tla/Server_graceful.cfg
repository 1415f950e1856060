CONSTANTS
  r1 = r1
  r2 = r2
  t1 = t1
  Request <- MCRequest
  Tunnel <- MCTunnel
  Nil = Nil
  BindError = BindError
SPECIFICATION Spec
INVARIANTS GracefulShutdown
CHECK_DEADLOCK FALSE
