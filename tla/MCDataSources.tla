---------------------------- MODULE MCDataSources ----------------------------
EXTENDS DataSources, TLC

CONSTANTS a, b, c, typed, exported, Symmetric

\* The environment gives a password for one of the names.
MCEnvironment == [n \in Names |-> IF n = c THEN exported ELSE None]
MCSymmetry == Permutations(Symmetric)
=============================================================================
