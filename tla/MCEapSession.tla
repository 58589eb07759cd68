---------------------------- MODULE MCEapSession ----------------------------
(* Model checking of EapSession: the constant is given in the .cfg files.   *)
EXTENDS EapSession
=============================================================================
