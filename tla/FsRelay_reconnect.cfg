\* Two connections, two routed opens: cuts, oversized frames, reconnects and
\* the use of a handle on a connection that did not issue it.
CONSTANTS
  r1 = r1  r2 = r2  b1 = b1  c1 = c1  c2 = c2
  None = None
  Files <- PairFiles
  RemoteFiles <- PairRemote
  Conns <- TwoConns
SPECIFICATION Spec
\* The process may exit and everything be released: nothing is left to do.
CHECK_DEADLOCK FALSE
SYMMETRY RoutedSymmetry
INVARIANTS TypeOK Lockstep HandleFidelity NoLeak IInv
