--------------------------- MODULE MCSessionState ---------------------------
EXTENDS SessionState, TLC

MCSymmetry == Permutations(Streams) \cup Permutations(Conns) \cup Permutations(Warnings)
=============================================================================
