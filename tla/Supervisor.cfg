\* A process and a child: execs of every kind, signals, forks and deaths.
CONSTANTS
  root = root  child = child
  None = None
  Tasks <- TwoTasks
  Root = root
  Table <- WorkTable
  LocalBins <- Locals
  Proxy <- ProxyPath
  Requests <- Programs
  MAX_ARGV = 2
  MaxExecs = 1
  MaxSignals = 2
SPECIFICATION FairSpec
\* The supervisor ends.
CHECK_DEADLOCK FALSE
INVARIANTS TypeOK ExecFollowsTable StatusIsRoots
PROPERTIES StopsAreAnswered SignalsReach NoneLeft
