SPECIFICATION FairSpec
CONSTANTS
  step1 = step1
  step2 = step2
  runTo = runTo
  run = run
  pause = pause
  stop = stop
  None = None
  Ops <- MCMixed
  Kind <- MCKind
  MaxStops = 1
  LateCallback = TRUE
  DelayedStart = TRUE
  Undisturbed = FALSE
PROPERTIES
  CallsReturn
CHECK_DEADLOCK FALSE
