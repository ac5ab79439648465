\* What must happen in the end, of a subprocess, of serve and of a session.
CONSTANTS
  None = None
  r1 = r1
  c1 = c1
  s1 = s1
  d1 = d1
  Relays <- OneRelay
  Clients <- OneClient
  HostId <- PeerId
  Direct <- Address
  Circuit <- Through
  Base = 4
  QueueCap = 1
  TTL = 12
  Skew = 1
  MaxFaults = 4
SPECIFICATION ProgressSpec
\* Each part ends, and nothing is left to do.
CHECK_DEADLOCK FALSE
INVARIANTS TypeOK LapseTakesFailures CodeReadBack
PROPERTIES ProxyReturns OutputStreams OrphanSeesEof KillEnds StaysReachable ProbeEnds SignalEnds
