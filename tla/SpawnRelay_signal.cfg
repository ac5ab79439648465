\* A signal behind input that the process does not read.
CONSTANTS
  None = None
  Loads <- UnreadInput
  WireCap = 2
  PipeCap = 1
  Codes <- OneCode
  Stubborn <- Nobody
SPECIFICATION FairSpec
\* The relay ends, and nothing is left to do.
CHECK_DEADLOCK FALSE
PROPERTY SignalsArrive
