---------------------------- MODULE MCInterpose ----------------------------
(* Model-checking instances of Interpose. *)
EXTENDS Interpose, TLC
CONSTANTS t1, t2, p, d, l

BothThreads == {t1, t2}
FileAndDir  == {p, d}
OnlyDir     == {d}
OneLocal    == {l}

ThreadSymmetry == Permutations({t1, t2})
=============================================================================
