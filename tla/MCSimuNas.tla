----------------------------- MODULE MCSimuNas ------------------------------
(* Model checking of SimuNas.                                              *)
EXTENDS SimuNas, TLC

Symmetry == Permutations(Stations)
=============================================================================
