\* Two output streams and an exit, or input and its end, with a signal: who writes the
\* stream, and when.
CONSTANTS
  None = None
  Loads <- Transfers
  WireCap = 2
  PipeCap = 1
  Codes <- SomeCodes
  Stubborn <- Nobody
SPECIFICATION Spec
\* The relay ends, and nothing is left to do.
CHECK_DEADLOCK FALSE
INVARIANTS TypeOK InOrder ExitIsLast EofAfterInput
