SPECIFICATION Spec
CONSTANTS
  c1 = c1
  c2 = c2
  c3 = c3
  s1 = s1
  s2 = s2
  s3 = s3
  Conns <- MCConns
  Sockets <- MCSockets
  Origins <- MCOrigins
  Origin <- MCOrigin
  MaxConnections = 2
  None = None
SYMMETRY MCSymmetry
INVARIANTS
  RegistriesNameOpenSockets
  TypeOK
  HandlesFollowTasks
  ResponseReachesItsSession
INVARIANTS
  NoClientEscapesStop
  StoppedIsQuiescent
PROPERTIES
  ImplementsAdmission
