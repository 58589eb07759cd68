--------------------------- MODULE MCRadiusSocket ---------------------------
EXTENDS RadiusSocket, TLC
=============================================================================
