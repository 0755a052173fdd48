---------------------------- MODULE MCSqlSession ----------------------------
\* Texts for the session: sentences with and without leading space, so that a
\* later text can hold a sentence behind the previous one's length, an error with
\* and without an open BETWEEN, comments open and closed, and a statement without
\* a tree.
EXTENDS SqlSession

Spaced(n, s) == [i \in 1 .. n |-> "space"] \o s

MCTexts ==
    {<<"semicolon">>,
     <<"a", "semicolon">>,
     <<"SELECT", "a", "semicolon">>,
     <<"SELECT", "a", "BETWEEN", "semicolon">>,
     <<"USE", "a", "semicolon">>,
     <<"SELECT", "a", "/*", "AND", "*/", "semicolon">>,
     <<"SELECT", "a", "/*", "semicolon">>,
     <<"SELECT", "a", "BETWEEN", "/*", "AND", "*/", "a", "AND", "a", "semicolon">>,
     <<"SELECT", "a", "BETWEEN", "a", "AND", "a", "semicolon">>,
     Spaced(3, <<"SELECT", "a", "AND", "a", "semicolon">>),
     Spaced(7, <<"SELECT", "a", "AND", "a", "semicolon">>),
     Spaced(5, <<"SELECT", "a", "BETWEEN", "a", "AND", "a", "semicolon">>),
     Spaced(12, <<"SELECT", "a", "semicolon">>),
     Spaced(15, <<"USE", "a", "semicolon">>)}

=============================================================================
