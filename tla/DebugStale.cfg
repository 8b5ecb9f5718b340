SPECIFICATION ReportedSpec
CONSTANTS
  step1 = step1
  step2 = step2
  runTo = runTo
  run = run
  pause = pause
  stop = stop
  None = None
  Ops <- MCRunStep
  Kind <- MCKind
  MaxStops = 2
  LateCallback = TRUE
  DelayedStart = TRUE
  Undisturbed = TRUE
INVARIANTS
  SuccessIsOwnStop
CHECK_DEADLOCK FALSE
