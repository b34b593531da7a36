------------------------------- MODULE Recall -------------------------------
(***************************************************************************)
(* /recall with from, to and search (recall.c): the arguments are parsed   *)
(* word by word, then the history is scanned line by line.  The parser is  *)
(* in a place of its grammar, held in pc, and reads the argument string    *)
(* one word ahead; a run of the model chooses each word as it is read.     *)
(*                                                                         *)
(*   keywords   parse_arguments()                                          *)
(*   timespec   the loops of parse_keyword_from() and parse_keyword_to()   *)
(*   weekday    parse_when_absolute(), after `next' or `last'              *)
(*   number, unit   parse_when_relative(), after the sign, the number      *)
(*   back, scan     recall_search_and_recall()                             *)
(*   done, failed   the recall has ended, or was refused with a message    *)
(*                                                                         *)
(* A word is a sequence of pieces [type, v], of which only a relative      *)
(* timespec has more than one ("-2days" is a sign, a number and a unit);   *)
(* End, the empty word, is the end of the arguments.  A piece stands for   *)
(* all its spellings.  Times are seconds since 1970 in a zone without      *)
(* daylight saving time, and the clock stands still during the command.    *)
(* Colours, upper case and the wording of messages are left out, and so is *)
(* the overflow of numbers.                                                *)
(*                                                                         *)
(* Definitions named Slip... are what a slip in the code would make of the *)
(* definition that follows them; no specification uses them.               *)
(***************************************************************************)
EXTENDS Integers, Sequences, FiniteSets

CONSTANTS
    Words,      \* words of which arguments are made
    MaxWords,   \* bound: words read before End
    Patterns,   \* what may follow `search', as sequences of characters
    Histories,  \* contents of history_lines, oldest line first
    Now         \* current_time()

\* The pieces of words: unit in seconds; <<YY, MM, DD>> and <<HH, MM, SS>>;
\* "other" is what is none of these.
Pieces ==
    [type : {"keyword"}, v : STRING]
    \cup [type : {"now", "today", "yesterday", "lines", "other"}, v : {0}]
    \cup [type : {"sign", "nextlast"}, v : {-1, 1}]
    \cup [type : {"number", "unit"}, v : Nat]
    \cup [type : {"weekday"}, v : 0 .. 6]
    \cup [type : {"date", "time"}, v : Nat \X Nat \X Nat]

ASSUME WordsAssumption ==
    /\ \A w \in Words : w \in Seq(Pieces) /\ w # <<>>
    /\ MaxWords \in Nat
ASSUME HistoriesAssumption ==
    \A h \in Histories : h \in Seq([time : Int, text : Seq(STRING)]) /\ h # <<>>
ASSUME NowAssumption == Now \in Int
ASSUME PatternsAssumption == Patterns \subseteq Seq(STRING) \ {<<>>}

VARIABLES
    pc,
    word, words,       \* the current word, and how many were read
    seen,              \* keywords_seen
    first,             \* is it the first timespec of the keyword?
    dir, number,       \* of the relative timespec, dir also of a weekday
    when, from, to, lines, search,    \* of Params
    history,           \* history_lines
    line,              \* the index of the line that is looked at
    limit,             \* `lines' of recall_search_and_recall()
    inperiod,          \* lines_inperiod, and `count' where that is used
    recalled           \* indices of the lines appended to client_toqueue

spec == <<dir, number>>
options == <<from, to, lines, search>>
scanning == <<line, limit, inperiod, recalled>>
vars == <<pc, word, words, seen, first, spec, when, options, history, scanning>>

End == <<>>
NULL == <<>>
Keywords == {"from", "to", "search"}

-----------------------------------------------------------------------------
(* Times: struct tm, localtime() and mktime().                             *)

Minute == 60
Hour == 60 * Minute
Day == 24 * Hour

DayOf(t) == t \div Day
Midnight(t) == Day * (t \div Day)
WeekdayOf(t) == (DayOf(t) + 4) % 7       \* tm_wday; day 0 was a thursday

\* Days from 1970 to the first of January, and those of the months before.
YearDays(y) == 365 * (y - 1970) + (y - 1969) \div 4
MonthDays == <<0, 31, 59, 90, 120, 151, 181, 212, 243, 273, 304, 334>>

\* mktime() carries a day that the month does not have into the next month.
DateTime(y, m, d) ==
    Day * (YearDays(y) + MonthDays[m] + (IF m > 2 /\ y % 4 = 0 THEN 1 ELSE 0) + d - 1)

YearOf(t) == 1900 + Cardinality({y \in 1901 .. 2099 : YearDays(y) <= DayOf(t)})

-----------------------------------------------------------------------------
(* Reading the argument string.                                            *)

\* parse_nextword()
NextWord ==
    \/ /\ words < MaxWords
       /\ word' \in Words
       /\ words' = words + 1
    \/ word' = End /\ UNCHANGED words

\* `If there's nothing left, continue parsing at the next word.'
Continue == IF Len(word) > 1 THEN word' = Tail(word) /\ UNCHANGED words ELSE NextWord

Is(type) == word # End /\ Head(word).type = type
IsAll(type) == Is(type) /\ Len(word) = 1
Value == Head(word).v

Fail ==
    /\ pc' = "failed"
    /\ UNCHANGED <<word, words, seen, first, spec, when, options, history, scanning>>

\* The oldest line's time; command_recall() has seen that there is one.
Init ==
    /\ pc = "keywords"
    /\ word \in Words
    /\ words = 1
    /\ seen = {} /\ first = TRUE
    /\ dir = 1 /\ number = 0
    /\ when = Now
    /\ history \in Histories
    /\ from = history[1].time
    /\ to = Now
    /\ lines = 0
    /\ search = NULL
    /\ line = 0 /\ limit = 0 /\ inperiod = 0
    /\ recalled = <<>>

\* A keyword that was not seen; and `from' must come before `to'.
Permitted ==
    /\ IsAll("keyword")
    /\ Value \in Keywords \ seen
    /\ ~(Value = "from" /\ "to" \in seen)

KeywordRefused == pc = "keywords" /\ word # End /\ ~Permitted /\ Fail

\* parse_keyword_from() and parse_keyword_to(), up to the loop
StartsFrom == Now
StartsTo == IF "from" \in seen THEN from ELSE Now

KeywordWhen ==
    /\ pc = "keywords" /\ Permitted /\ Value # "search"
    /\ seen' = seen \cup {Value}
    /\ when' = IF Value = "from" THEN StartsFrom ELSE StartsTo
    /\ first' = TRUE
    /\ NextWord
    /\ pc' = "timespec"
    /\ UNCHANGED <<spec, options, history, scanning>>

\* The rest of the arguments is the search string.
KeywordSearch ==
    /\ pc = "keywords" /\ Permitted /\ Value = "search"
    /\ \E p \in Patterns : search' = p
    /\ seen' = seen \cup {"search"}
    /\ word' = End
    /\ UNCHANGED <<pc, words, first, spec, when, from, to, lines, history, scanning>>

\* There is no word after `search'.
NoSearchString ==
    pc = "keywords" /\ Permitted /\ Value = "search" /\ Fail

-----------------------------------------------------------------------------
(* Timespecs.                                                              *)

\* The end of a turn of the loop: the new time becomes that of the keyword.
Store(t) ==
    /\ when' = t
    /\ IF "to" \in seen THEN to' = t /\ UNCHANGED from
                        ELSE from' = t /\ UNCHANGED to
    /\ first' = FALSE
    /\ pc' = "timespec"

Accept(t) ==
    /\ Store(t)
    /\ NextWord
    /\ UNCHANGED <<seen, spec, lines, search, history, scanning>>

SimpleTypes == {"now", "today", "yesterday"}

Simple ==
    /\ pc = "timespec"
    /\ \E type \in SimpleTypes :
          /\ IsAll(type)
          /\ Accept(CASE type = "now"       -> Now
                      [] type = "today"     -> Midnight(Now)
                      [] type = "yesterday" -> Midnight(Now) - Day)

\* [YY/]MM/DD; a year of 0 stands for one that is left out.
DateInRange(v) == v[2] \in 1 .. 12 /\ v[3] \in 1 .. 31
YearMeant(yy) == IF yy = 0 THEN YearOf(when) ELSE 1970 + ((yy + 30) % 100)

AbsoluteDate ==
    /\ pc = "timespec" /\ IsAll("date") /\ DateInRange(Value)
    /\ Accept(DateTime(YearMeant(Value[1]), Value[2], Value[3]))

\* HH:MM[:SS]
TimeInRange(v) == v[1] \in 0 .. 23 /\ v[2] \in 0 .. 59 /\ v[3] \in 0 .. 59

AbsoluteTime ==
    /\ pc = "timespec" /\ IsAll("time") /\ TimeInRange(Value)
    /\ Accept(Midnight(when) + Value[1] * Hour + Value[2] * Minute + Value[3])

OutOfRange ==
    /\ pc = "timespec"
    /\ \/ IsAll("date") /\ ~DateInRange(Value)
       \/ IsAll("time") /\ ~TimeInRange(Value)
    /\ Fail

\* `next' and `last', and the weekday after them
NextOrLast ==
    /\ pc = "timespec" /\ IsAll("nextlast")
    /\ dir' = Value
    /\ NextWord
    /\ pc' = "weekday"
    /\ UNCHANGED <<seen, first, number, when, options, history, scanning>>

SlipDaysTo(wday) ==
    IF dir = 1 THEN (wday - WeekdayOf(when) + 7) % 7
               ELSE -((WeekdayOf(when) - wday + 7) % 7)
DaysTo(wday) ==
    IF dir = 1 THEN ((wday - WeekdayOf(when) + 6) % 7) + 1
               ELSE -(((WeekdayOf(when) - wday + 6) % 7) + 1)

Weekday ==
    /\ pc = "weekday" /\ IsAll("weekday")
    /\ Accept(Midnight(when) + Day * DaysTo(Value))

NoWeekday == pc = "weekday" /\ ~IsAll("weekday") /\ Fail

\* -/+ <number> <unit>
Sign ==
    /\ pc = "timespec" /\ Is("sign")
    /\ dir' = Value
    /\ Continue
    /\ pc' = "number"
    /\ UNCHANGED <<seen, first, number, when, options, history, scanning>>

Number ==
    /\ pc = "number" /\ Is("number") /\ Value # 0
    /\ number' = Value
    /\ Continue
    /\ pc' = "unit"
    /\ UNCHANGED <<seen, first, dir, when, options, history, scanning>>

NoNumber == pc = "number" /\ ~(Is("number") /\ Value # 0) /\ Fail

Unit ==
    /\ pc = "unit" /\ IsAll("unit")
    /\ Accept(when + dir * number * Value)

\* Only with `to', and only as its first timespec: the end of parsing `to'.
LinesAllowed == "to" \in seen /\ first

Lines ==
    /\ pc = "unit" /\ IsAll("lines") /\ LinesAllowed
    /\ lines' = dir * number
    /\ NextWord
    /\ pc' = "keywords"
    /\ UNCHANGED <<seen, first, spec, when, from, to, search, history, scanning>>

NoUnit ==
    /\ pc = "unit"
    /\ ~IsAll("unit")
    /\ ~(IsAll("lines") /\ LinesAllowed)
    /\ Fail

SlipUnparsable ==
    /\ pc = "timespec"
    /\ ~Is("sign")
    /\ \A type \in SimpleTypes \cup {"date", "time", "nextlast"} : ~IsAll(type)
    /\ IF first THEN Fail ELSE UNCHANGED vars

\* A word that is no timespec is an error only where one must be.
Unparsable ==
    /\ pc = "timespec"
    /\ ~Is("sign")
    /\ \A type \in SimpleTypes \cup {"date", "time", "nextlast"} : ~IsAll(type)
    /\ IF first
          THEN Fail
          ELSE /\ pc' = "keywords"
               /\ UNCHANGED <<word, words, seen, first, spec, when, options, history, scanning>>

-----------------------------------------------------------------------------
(* The search string: pieces between each `.*', in which . is any          *)
(* character, are looked for one after the other.                          *)

\* Where the first `.*' from position i on is, or the end of the string.
SplitAt(p, i) ==
    LET at == {j \in i .. Len(p) - 1 : p[j] = "." /\ p[j + 1] = "*"}
    IN  IF at = {} THEN Len(p) + 1 ELSE CHOOSE j \in at : \A k \in at : j <= k

\* The pieces from position i on.
PiecesOf(p) ==
    LET pieces[i \in 1 .. Len(p) + 2] ==
            LET j == SplitAt(p, i)
            IN  <<SubSeq(p, i, j - 1)>>
                \o (IF j > Len(p) THEN <<>> ELSE pieces[j + 2])
    IN  pieces[1]

FitsAt(piece, text, i) ==
    /\ i + Len(piece) - 1 <= Len(text)
    /\ \A k \in 1 .. Len(piece) : piece[k] \in {".", text[i + k - 1]}

SlipMatches(p, text) ==
    LET pieces == PiecesOf(p)
        match[at \in (1 .. Len(pieces) + 1) \X (1 .. Len(text) + 1)] ==
            LET k == at[1]
                i == at[2]
            IN  \/ k > Len(pieces) \/ pieces[k] = <<>>
                \/ /\ i <= Len(text)
                   /\ IF FitsAt(pieces[k], text, i)
                         THEN match[<<k + 1, i + 1>>]
                         ELSE match[<<k, i + 1>>]
    IN  match[<<1, 1>>]

\* recall_match(): each piece is taken where it first fits; an empty piece
\* ends the list of pieces.
Matches(p, text) ==
    LET pieces == PiecesOf(p)
        match[at \in (1 .. Len(pieces) + 1) \X (1 .. Len(text) + 1)] ==
            LET k == at[1]
                i == at[2]
            IN  \/ k > Len(pieces) \/ pieces[k] = <<>>
                \/ /\ i <= Len(text)
                   /\ IF FitsAt(pieces[k], text, i)
                         THEN match[<<k + 1, i + Len(pieces[k])>>]
                         ELSE match[<<k, i + 1>>]
    IN  match[<<1, 1>>]

-----------------------------------------------------------------------------
(* Scanning the history.                                                   *)

\* The end of the arguments: world_recall_command() orders the two times.
StartScan ==
    /\ pc = "keywords" /\ word = End
    /\ from' = IF from > to THEN to ELSE from
    /\ to' = IF from > to THEN from ELSE to
    /\ IF lines < 0 THEN pc' = "back" /\ line' = Len(history)
                    ELSE pc' = "scan" /\ line' = 1
    /\ limit' = 0 /\ inperiod' = 0
    /\ UNCHANGED <<word, words, seen, first, spec, when, lines, search, history, recalled>>

Time == history[line].time

\* Back from the newest line until -lines lines are old enough.
Back ==
    /\ pc = "back" /\ line >= 1
    /\ limit' = IF Time > from THEN limit ELSE limit + 1
    /\ IF Time <= from /\ limit' >= -lines
          THEN pc' = "scan" /\ UNCHANGED line
          ELSE line' = line - 1 /\ UNCHANGED pc
    /\ UNCHANGED <<word, words, seen, first, spec, when, options, history, inperiod, recalled>>

BackAtHead ==
    /\ pc = "back" /\ line = 0
    /\ line' = 1
    /\ pc' = "scan"
    /\ UNCHANGED <<word, words, seen, first, spec, when, options, history, limit, inperiod, recalled>>

Fits(i) ==
    LET t == history[i].time
    IN  IF lines < 0 THEN t <= from ELSE from <= t /\ (lines = 0 => t <= to)
TimeFits == Fits(line)

SlipEnough == lines # 0 /\ inperiod > (IF lines > 0 THEN lines ELSE limit)
Enough == lines # 0 /\ inperiod >= (IF lines > 0 THEN lines ELSE limit)

\* recall_match_one_line()
Inspect ==
    /\ inperiod' = inperiod + 1
    /\ recalled' = IF search = NULL \/ Matches(search, history[line].text)
                      THEN Append(recalled, line) ELSE recalled

Scan ==
    /\ pc = "scan" /\ line <= Len(history)
    /\ ~(TimeFits /\ Enough)
    /\ IF TimeFits THEN Inspect ELSE UNCHANGED <<inperiod, recalled>>
    /\ line' = line + 1
    /\ UNCHANGED <<pc, word, words, seen, first, spec, when, options, history, limit>>

ScanEnds ==
    /\ pc = "scan"
    /\ line <= Len(history) => TimeFits /\ Enough
    /\ pc' = "done"
    /\ UNCHANGED <<word, words, seen, first, spec, when, options, history, scanning>>

-----------------------------------------------------------------------------

Parse ==
    \/ KeywordRefused \/ KeywordWhen \/ KeywordSearch \/ NoSearchString
    \/ Simple \/ AbsoluteDate \/ AbsoluteTime \/ OutOfRange
    \/ NextOrLast \/ Weekday \/ NoWeekday
    \/ Sign \/ Number \/ NoNumber \/ Unit \/ Lines \/ NoUnit
    \/ Unparsable

Next == Parse \/ StartScan \/ Back \/ BackAtHead \/ Scan \/ ScanEnds

\* The command runs to its end before mainloop() goes on.
Spec == Init /\ [][Next]_vars /\ WF_vars(Next)

-----------------------------------------------------------------------------
(* Properties.                                                             *)

\* The type of every variable.
TypeOK ==
    /\ pc \in {"keywords", "timespec", "weekday", "number", "unit", "back", "scan",
               "done", "failed"}
    /\ word \in Seq(Pieces)
    /\ words \in Nat
    /\ seen \subseteq Keywords
    /\ first \in BOOLEAN
    /\ dir \in {-1, 1} /\ number \in Nat
    /\ when \in Int /\ from \in Int /\ to \in Int /\ lines \in Int
    /\ search = NULL \/ search \in Patterns
    /\ history \in Histories
    /\ line \in 0 .. Len(history) + 1
    /\ limit \in Nat /\ inperiod \in Nat
    /\ recalled \in Seq(1 .. Len(history))

\* Of the lines from a to b, those from a time on, or up to it.
Fitting(a, b) ==
    {i \in a .. b : IF lines > 0 THEN from <= history[i].time ELSE history[i].time <= from}

\* The lines the options ask for: those of the period, or the first `lines'
\* from a time on, or the last -lines up to it.
Asked ==
    LET n == Len(history)
    IN  CASE lines = 0 -> {i \in 1 .. n : history[i].time \in from .. to}
          [] lines > 0 -> {i \in Fitting(1, n) : Cardinality(Fitting(1, i)) <= lines}
          [] lines < 0 -> {i \in Fitting(1, n) : Cardinality(Fitting(i, n)) <= -lines}

\* The last lines, `to -80 lines' without a `from'.
AskedForLast == lines < 0 /\ "from" \notin seen

\* A recall ends with exactly the lines asked for that match, each once and
\* in the order of the history, and tells how many were asked for.  The two
\* scans must agree on how many lines are old enough, though times need not
\* ascend (recall_search_and_recall()).  What is asked for is what README.md
\* says of the period and of `before/after <from timespec>'; it says something
\* else of the last lines, for which see LastLinesRecalled.
RecalledAsAsked ==
    pc = "done" /\ ~AskedForLast =>
        /\ {recalled[i] : i \in 1 .. Len(recalled)}
              = {i \in Asked : search = NULL \/ Matches(search, history[i].text)}
        /\ \A i, j \in 1 .. Len(recalled) : i < j => recalled[i] < recalled[j]
        /\ inperiod = Cardinality(Asked)

\* README.md: `Recall the last 80 lines: /recall to -80 lines'.
LastLinesRecalled ==
    pc = "done" /\ AskedForLast /\ search = NULL =>
        LET n == Len(history)
        IN  {recalled[i] : i \in 1 .. Len(recalled)} = {i \in 1 .. n : i > n + lines}

\* Where all the pieces of a search string fit somewhere, one behind the
\* other, taking each at its first place finds them (recall_match()).  Said
\* of search strings in which no piece is empty.
MatchesSomehow(p, text) ==
    LET pieces == PiecesOf(p)
    IN  \E at \in [1 .. Len(pieces) -> 1 .. Len(text)] :
            \A k \in 1 .. Len(pieces) :
                /\ FitsAt(pieces[k], text, at[k])
                /\ k > 1 => at[k] >= at[k - 1] + Len(pieces[k - 1])

SearchAsDocumented ==
    pc = "scan" /\ search # NULL =>
        \/ \E k \in 1 .. Len(PiecesOf(search)) : PiecesOf(search)[k] = <<>>
        \/ \A i \in 1 .. Len(history) :
              Matches(search, history[i].text) <=> MatchesSomehow(search, history[i].text)

\* `next' and `last' go to the weekday they name, at 0:00, at least one and
\* at most seven days away (parse_when_absolute()).
GoesToWeekday ==
    pc = "weekday" /\ pc' = "timespec" =>
        /\ when' % Day = 0 /\ WeekdayOf(when') = Value
        /\ dir * (DayOf(when') - DayOf(when)) \in 1 .. 7
WeekdayInWeek == [][GoesToWeekday]_vars

\* Every recall ends, whatever its arguments: each turn of the parser's loops
\* takes a word or leaves the loop.
Ends == <>(pc \in {"done", "failed"})
=============================================================================
