SPECIFICATION DebuggeeSpec
CONSTANTS
  None = None
  Addrs <- MCAddrs
  HwConds <- MCHwConds
  HwSizes <- MCHwSizes
  MemSizes <- MCMemSizes
  MaxAddress = 3
  MaxHits = 1
  LastAddress = 5
  Bytes = {0, 1}
  ReadChunk = 2
  SearchChunk = 2
  MaxReadSize = 5
  MaxWriteSize = 3
  Patterns <- MCPatterns
  Windows <- MCWindows
  Limits <- MCLimits
  StartRegions <- MCStartRegions
  Wildcard = Wildcard
  StartRights <- MCStartRights
  Max32 = 15
  SizeSpan = 64
  DosSize = 2
  FileHeaderSize = 2
  OptionalSize = 1
  SectionSize = 1
  NtAlign = 2
  SectionAlign = 1
  MaxDirectories = 1
  DefaultAlignment = 4
  Images <- MCImages
  DumpRights <- MCDumpRights
  DumpRequests <- MCDumpRequests
  ScanWindow = 3
  HeaderSpan = 4
  SearchWindow = 8
  LargeSpan = 2
  NoFile = NoFile
  NameChars = {"a", "b"}
  MaxText = 3
  ByteValues = {0, 63, 129, 255}
  CodePoints = {65, 130, 168, 195, 230, 300}
  AddressSpan = 256
  AddressWidth = 1
INVARIANTS
  QuietRequestsMeetContract
  MemoryAnswersAreExact
  RebuiltDumpIsConsistent
  DumpsAreAllOrNothing
  ConversionsAreExact
  CountIsOwnRemovals
  TextsNeedPermission
PROPERTIES
  BreakpointCallsReturn
CHECK_DEADLOCK FALSE
