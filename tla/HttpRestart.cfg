SPECIFICATION Spec
CONSTANTS
  c1 = c1
  c2 = c2
  c3 = c3
  s1 = s1
  s2 = s2
  s3 = s3
  Conns <- MCTwoConns
  Sockets <- MCTwoSockets
  Origins <- MCOrigins
  Origin <- MCTwoOrigin
  MaxConnections = 1
  None = None
INVARIANTS
  StartNeverTerminates
