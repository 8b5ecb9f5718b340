SPECIFICATION FairSpec
CONSTANTS
  attach1 = attach1
  attach2 = attach2
  again = again
  polite = polite
  init = init
  restart = restart
  p1 = p1
  p2 = p2
  A = A
  B = B
  None = None
  Kind <- MCKind
  Target <- MCTarget
  Polite <- MCPolite
  Pids <- MCPids
  Image <- MCImage
CHECK_DEADLOCK FALSE
CONSTANTS
  Ops <- MCMixed
  Patient = FALSE
INVARIANT TypeOK
INVARIANT CacheNamesLastProgram
PROPERTY CallsReturn
