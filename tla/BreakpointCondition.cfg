SPECIFICATION BreakpointSpec
CONSTANTS
  None = None
  Addrs = {2}
  HwConds = {"execute"}
  HwSizes = {1}
  MemSizes = {1}
  MaxAddress = 3
  MaxHits = 1
INVARIANTS
  ConditionOnOwnBreakpoint
CHECK_DEADLOCK FALSE
