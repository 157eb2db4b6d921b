------------------------------ MODULE MCSqlText ------------------------------
EXTENDS SqlText
MCTypable == {"SELECT", "FROM", "AND", "UPDATE", "LIMIT", "FOR", "q", "#", "--1", "nl", "/*M!", "/*!", "*/", "(", ")", ";", ","}
MCBeginnings == {<<>>, <<"SELECT", "FROM", "WHERE">>}
=============================================================================
