\* --default-remote, with a local prefix.
CONSTANTS
  root = root  child = child
  None = None
  Tasks <- TwoTasks
  Root = root
  Table <- DefaultTable
  LocalBins <- Locals
  Proxy <- ProxyPath
  Requests <- OneProgram
  MAX_ARGV = 2
  MaxExecs = 1
  MaxSignals = 2
SPECIFICATION Spec
\* The supervisor ends.
CHECK_DEADLOCK FALSE
INVARIANT ExecFollowsTable
