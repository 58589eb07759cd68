--------------------------- MODULE MCRadiusServer ---------------------------
EXTENDS RadiusServer, TLC

\* Requests and threads are interchangeable: only safety is checked with it.
Symmetry == Permutations(Requests) \cup Permutations(Workers)
=============================================================================
