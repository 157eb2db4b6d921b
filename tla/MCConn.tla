------------------------------- MODULE MCConn -------------------------------
EXTENDS Conn, TLC

MCSymmetry == Permutations(Streams) \cup Permutations(Conns) \cup Permutations(Callers)
=============================================================================
