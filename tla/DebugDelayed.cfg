SPECIFICATION Spec
CONSTANTS
  step1 = step1
  step2 = step2
  runTo = runTo
  run = run
  pause = pause
  stop = stop
  None = None
  Ops <- MCWaiting
  Kind <- MCKind
  MaxStops = 3
  LateCallback = FALSE
  DelayedStart = TRUE
  Undisturbed = TRUE
INVARIANTS
  SuccessIsOwnStop
CHECK_DEADLOCK FALSE
