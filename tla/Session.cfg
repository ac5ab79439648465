\* Two sessions of one project side by side: what they share, and what one leaves behind.
CONSTANTS
  s1 = s1
  s2 = s2
  d1 = d1
  d2 = d2
  None = None
  Sessions = {s1, s2}
  Dirs = {d1, d2}
  Routed <- OneProject
  Codes = {0}
  MaxSignals = 1
SPECIFICATION Spec
CHECK_DEADLOCK FALSE
INVARIANTS TypeOK NeverTorn ExitIsPrograms ReturnMeansDone KeepsView 
