\* Two threads, two slots and three numbers: one open too many for either.
CONSTANTS
  t1 = t1  t2 = t2  p = p  d = d  l = l
  None = None
  Threads <- BothThreads
  Paths <- FileAndDir
  Dirs <- OnlyDir
  Locals <- OneLocal
  Modes = {"read", "append"}
  MaxSlots = 2
  MaxFd = 3
  MaxLen = 1
  MaxHandles = 2
SPECIFICATION Spec
SYMMETRY ThreadSymmetry
INVARIANTS TypeOK NumbersGoHome HandlesOwned 
