------------------------------ MODULE RecallMC ------------------------------
(* Instances of Recall for TLC: words, search strings and histories.        *)
EXTENDS Recall

Piece(type, v) == [type |-> type, v |-> v]
Word(type, v) == <<Piece(type, v)>>

\* Monday, 23 March 1970, 12:00:30
AMonday == 81 * Day + 12 * Hour + 30

MCWords ==
    {Word("keyword", k) : k \in {"from", "to", "search"}}
    \cup {Word("now", 0), Word("today", 0), Word("yesterday", 0), Word("other", 0)}
    \cup {Word("nextlast", d) : d \in {-1, 1}} \cup {Word("weekday", d) : d \in {1, 4}}
    \cup {Word("date", <<0, 2, 31>>), Word("date", <<70, 3, 22>>), Word("date", <<0, 13, 1>>)}
    \cup {Word("time", <<11, 59, 0>>), Word("time", <<24, 0, 0>>)}
    \cup {Word("sign", -1), Word("number", 0), Word("number", 2), Word("unit", Hour),
          Word("lines", 0)}
    \cup {<<Piece("sign", d), Piece("number", n)>> \o Word("lines", 0) : d \in {-1, 1}, n \in {1, 2}}
    \cup {<<Piece("sign", 1), Piece("number", 30), Piece("unit", Day)>>}

MCPatterns ==
    {<<"a">>, <<"b", ".", "*", "a">>, <<"a", ".">>, <<"a", "b", ".", "*", "b">>,
     <<".", "*", "b">>, <<"a", ".", "*", ".", "*", "b">>, <<"b", ".", "*">>}

Line(time, text) == [time |-> time, text |-> text]

\* The second one has lines of a day whose clock was set back.
MCHistories ==
    {<<Line(AMonday - Day, <<"a", "b">>)>>,
     <<Line(AMonday - 2 * Hour, <<"a", "b", "a">>), Line(AMonday, <<"b">>),
       Line(AMonday - Hour, <<"a", "b", "b">>), Line(AMonday, <<"b", "a", "a">>)>>}
=============================================================================
