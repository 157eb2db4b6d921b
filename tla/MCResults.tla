------------------------------ MODULE MCResults ------------------------------
EXTENDS Results

\* NULL, and 9 which is before 10 as numbers and after it as texts.
MCCells == {0, 9, 10}
MCNaNs == {}
MCReadable == {9, 10}
MCParsed == [n \in MCReadable |-> n]
MCText == [n \in MCCells |-> IF n = 10 THEN 1 ELSE 2]
MCColumnType == <<"INT", "VARCHAR">>
MCRows == {<<0, 10>>, <<9, 9>>, <<10, 9>>, <<10, 10>>}
=============================================================================
