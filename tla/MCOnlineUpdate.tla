--------------------------- MODULE MCOnlineUpdate ---------------------------
(* Model checking of OnlineUpdate.                                         *)
EXTENDS OnlineUpdate
=============================================================================
