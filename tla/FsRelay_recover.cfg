\* A broken executor stream and a client that keeps trying.
CONSTANTS
  r1 = r1  r2 = r2  b1 = b1  c1 = c1  c2 = c2
  None = None
  Files <- SoloFiles
  RemoteFiles <- SoloRemote
  Conns <- OneConn
SPECIFICATION RetrySpec
\* The process may exit and everything be released: nothing is left to do.
CHECK_DEADLOCK FALSE
PROPERTY StreamRecovers
