\* The stream ends before the exit frame: the status the parent sees.
CONSTANTS
  None = None
  Loads <- Idle
  WireCap = 2
  PipeCap = 1
  Codes <- SomeCodes
  Stubborn <- Nobody
SPECIFICATION Spec
\* The relay ends, and nothing is left to do.
CHECK_DEADLOCK FALSE
INVARIANT ExitCodeIsChilds
