----------------------------- MODULE MCFsRelay -----------------------------
(* Model-checking instances of FsRelay.  r1, r2 are opens routed to the    *)
(* executor, b1 one served on the brain host.                              *)
EXTENDS FsRelay, TLC
CONSTANTS r1, r2, b1, c1, c2

\* Reconnects: two routed opens over two connections.
PairFiles == {r1, r2}
PairRemote == {r1, r2}
\* Both sides behind one connection.
MixedFiles == {r1, r2, b1}
MixedRemote == {r1, r2}
\* A single routed open.
SoloFiles == {r1}
SoloRemote == {r1}
OneConn == {c1}
TwoConns == {c1, c2}

RoutedSymmetry == Permutations({r1, r2})
=============================================================================
