---------------------------- MODULE MCEapEngine -----------------------------
(* Model checking of EapEngine.                                             *)
EXTENDS EapEngine

MC_Enabled == {"md5", "tls"}
MC_Ids == {0, 1}
MC_Challenges == {1, 2, 3}
=============================================================================
