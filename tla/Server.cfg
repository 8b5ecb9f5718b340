SPECIFICATION ServerSpec
CONSTANTS
  c1 = c1
  c2 = c2
  s1 = s1
  s2 = s2
  Conns <- MCConns
  Sockets <- MCSockets
  Origins = {"editor"}
  Origin <- MCOrigin
  MaxConnections = 2
  None = None
  Documents <- MCDocuments
  Edits <- MCEdits
  Clients <- MCConns
  Bodies <- MCBodies
  MaxBatch = 3
  MaxCommands = 2
  Messages <- MCMessages
  ReceiveChunk = 2
  MaxHeaderSize = 4
  MaxHttpRequest = 7
  HeaderTimeout = 2
  RateWindow = 2
  MaxRequests = 1
  MaxClock = 5
  Streams = {"sse", "mcp"}
  Legacy = {"sse"}
  Parts = 2
  MaxFrames = 3
  LineSizes = {1, 2, 9}
  LogLimits = {2, 4}
  LeastLimit = 3
  SizeRange = 16
  MaxLines = 4
INVARIANTS
  PermissionsFollowTree
  LimitsAreUsable
  AnswersAreExact
  NothingMoreIsDone
  CatalogueIsServed
  ReceptionIsSound
  RequestsAreChecked
  SessionIsAnnounced
  FramesReachOpenStreams
  RunningServerHasToken
  EffectsArePermitted
  NewestLinesAreKept
PROPERTIES
  OtherSettingsStay
  StopReturns
  LinesFitTheLimit
CHECK_DEADLOCK FALSE
