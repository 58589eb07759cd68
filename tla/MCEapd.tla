------------------------------- MODULE MCEapd -------------------------------
(* Model checking of Eapd.                                                 *)
EXTENDS Eapd, TLC

MC_Enabled == {"tls"}
MC_NoAuth == {}
MC_Ids == {0, 1}

Symmetry == Permutations(Paes) \cup Permutations(Pids)
=============================================================================
