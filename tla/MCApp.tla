------------------------------- MODULE MCApp --------------------------------
EXTENDS App, TLC

\* The shortest batch with a transaction and something left to do after a
\* statement.
MCScripts == {<<"begin", "stmt", "commit">>}

MCSymmetry == Permutations(Sessions) \cup Permutations(DataSources) \cup Permutations(Slots)
=============================================================================
