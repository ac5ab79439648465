\* One connection, opens on both sides: the two handle spaces behind one table.
CONSTANTS
  r1 = r1  r2 = r2  b1 = b1  c1 = c1  c2 = c2
  None = None
  Files <- MixedFiles
  RemoteFiles <- MixedRemote
  Conns <- OneConn
SPECIFICATION FairSpec
\* The process may exit and everything be released: nothing is left to do.
CHECK_DEADLOCK FALSE
INVARIANT OpenStaysOpen
PROPERTIES ImplementsHandleService  AbandonedIsReleased
