SPECIFICATION Spec
CONSTANTS
  step1 = step1
  step2 = step2
  runTo = runTo
  run = run
  pause = pause
  stop = stop
  None = None
  Ops <- MCResuming
  Kind <- MCKind
  MaxStops = 2
  LateCallback = TRUE
  DelayedStart = FALSE
  Undisturbed = FALSE
SYMMETRY MCSymmetry
INVARIANTS
  TypeOK
  SuccessIsOwnStop
  StepsReturnDistinctStops
CHECK_DEADLOCK FALSE
