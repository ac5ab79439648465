----------------------------- MODULE MCSession -----------------------------
(* Model-checking instances of Session. *)
EXTENDS Session

CONSTANTS s1, s2, d1, d2

\* Sessions of one project, one of which routes another directory too.
OneProject == [s \in Sessions |-> IF s = s1 THEN <<d1, d2>> ELSE <<d1>>]
=============================================================================
