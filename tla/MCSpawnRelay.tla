--------------------------- MODULE MCSpawnRelay ----------------------------
(* Model-checking instances of SpawnRelay. *)
EXTENDS SpawnRelay

Load(in, stdout, stderr, signals) ==
  [in |-> in, signals |-> signals,
   out |-> [s \in Outputs |-> IF s = "stdout" THEN stdout ELSE stderr]]

\* Output and a signal; input and a signal.  What the parent does, and what the
\* process writes, is chosen for each behaviour.
Transfers   == {Load(0, 2, 1, 1), Load(2, 0, 0, 1)}
Idle        == {Load(0, 0, 0, 0)}
UnreadInput == {Load(2, 0, 0, 1)}
OneCode     == {3}
SomeCodes   == {0, 3}
Nobody      == {}
=============================================================================
