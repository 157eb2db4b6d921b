---------------------------- MODULE MCCompletion ----------------------------
EXTENDS Completion
MCLexemes == {"a", "b", ".", "SELECT", "FROM", "nl"}
MCLetters == {"a", "b", "c", "d", "e"}
MCSchemas == {<<"d">>, <<"b">>}
MCTablesOf == [s \in MCSchemas |-> IF s = <<"d">> THEN << <<"a", "b">>, <<"b", "a">>, <<"b">> >> ELSE << <<"b">> >>]
MCColumnsOf == [t \in {<<"a", "b">>, <<"b", "a">>, <<"b">>} |->
                 IF t = <<"b">> THEN << <<"a">>, <<"b">> >> ELSE << <<"b">>, <<"a", "e">> >>]
MCRecalled == { <<"SELECT", "a", "FROM", "b">> }
MCKeywords == << <<"AS">> >>
MCSpelled == [k \in {<<"AS">>} |-> <<"a", "s">>]
=============================================================================
