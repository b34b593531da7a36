---------------------------- MODULE RecallProofs ----------------------------
(* Theorems about Recall, for all words, search strings and histories.       *)
EXTENDS Recall, FiniteSetTheorems, SequenceTheorems, WellFoundedInduction, TLAPS

-----------------------------------------------------------------------------
(* Types of the pieces of a word, and of times.                            *)

LEMMA PieceTypes ==
    ASSUME NEW p \in Pieces
    PROVE  /\ p.type \in {"sign", "nextlast"} => p.v \in {-1, 1}
           /\ p.type \in {"number", "unit"} => p.v \in Nat
           /\ p.type = "weekday" => p.v \in 0 .. 6
           /\ p.type \in {"date", "time"} => p.v \in Nat \X Nat \X Nat
<1>1. CASE p \in [type : {"keyword"}, v : STRING]
      BY <1>1
<1>2. CASE p \in [type : {"now", "today", "yesterday", "lines", "other"}, v : {0}]
      BY <1>2
<1>3. CASE p \in [type : {"sign", "nextlast"}, v : {-1, 1}]
      BY <1>3
<1>4. CASE p \in [type : {"number", "unit"}, v : Nat]
      BY <1>4
<1>5. CASE p \in [type : {"weekday"}, v : 0 .. 6]
      BY <1>5
<1>6. CASE p \in [type : {"date", "time"}, v : Nat \X Nat \X Nat]
      BY <1>6
<1> QED BY <1>1, <1>2, <1>3, <1>4, <1>5, <1>6 DEF Pieces

LEMMA ValueTypes ==
    ASSUME word \in Seq(Pieces), NEW type, Is(type)
    PROVE  /\ type \in {"sign", "nextlast"} => Value \in {-1, 1}
           /\ type \in {"number", "unit"} => Value \in Nat
           /\ type = "weekday" => Value \in 0 .. 6
           /\ type \in {"date", "time"} => Value \in Nat \X Nat \X Nat
<1>1. Head(word) \in Pieces /\ Head(word).type = type
      BY HeadTailProperties DEF Is, End
<1> QED BY <1>1, PieceTypes DEF Value

LEMMA WordStep ==
    ASSUME word \in Seq(Pieces), words \in Nat
    PROVE  /\ NextWord => word' \in Seq(Pieces) /\ words' \in Nat
           /\ Continue => word' \in Seq(Pieces) /\ words' \in Nat
<1>1. NextWord => word' \in Seq(Pieces) /\ words' \in Nat
      <2>1. <<>> \in Seq(Pieces)
            OBVIOUS
      <2>2. \A w \in Words : w \in Seq(Pieces)
            BY WordsAssumption
      <2>3. word' \in Words \/ word' = <<>>  => word' \in Seq(Pieces)
            BY <2>1, <2>2
      <2>4. NextWord => words' \in {words, words + 1}
            BY DEF NextWord
      <2>5. NextWord => word' \in Words \/ word' = <<>>
            BY DEF NextWord, End
      <2> QED BY <2>3, <2>4, <2>5
<1>2. Len(word) > 1 => Tail(word) \in Seq(Pieces)
      BY HeadTailProperties
<1> QED BY <1>1, <1>2 DEF Continue

LEMMA MidnightType ==
    ASSUME NEW t \in Int
    PROVE  DayOf(t) \in Int /\ Midnight(t) \in Int
BY DEF DayOf, Midnight, Day, Hour, Minute

LEMMA IntervalSubset ==
    ASSUME NEW a \in Int, NEW b \in Int, NEW T \in SUBSET (a .. b)
    PROVE  IsFiniteSet(T) /\ Cardinality(T) \in Nat
<1>1. IsFiniteSet(a .. b)
      BY FS_Interval
<1>2. IsFiniteSet(T)
      BY <1>1, FS_Subset
<1> QED BY <1>2, FS_CardinalityType

LEMMA YearOfType ==
    ASSUME NEW t
    PROVE  YearOf(t) \in Int
<1> DEFINE ys(a, b) == {y \in a .. b : YearDays(y) <= DayOf(t)}
<1>1. \A a, b \in Int : Cardinality(ys(a, b)) \in Nat
      BY IntervalSubset
<1>2. YearOf(t) = 1900 + Cardinality(ys(1901, 2099))
      BY DEF YearOf
<1> HIDE DEF ys
<1>3. Cardinality(ys(1901, 2099)) \in Nat
      BY <1>1
<1> QED BY <1>2, <1>3

LEMMA DateTimeType ==
    ASSUME NEW y \in Int, NEW m \in 1 .. 12, NEW d \in Int
    PROVE  DateTime(y, m, d) \in Int
<1>1. MonthDays[m] \in Int
      BY DEF MonthDays
<1>2. YearDays(y) \in Int
      BY DEF YearDays
<1>3. (IF m > 2 /\ y % 4 = 0 THEN 1 ELSE 0) \in Int
      OBVIOUS
<1>4. YearDays(y) + MonthDays[m] + (IF m > 2 /\ y % 4 = 0 THEN 1 ELSE 0) + d - 1 \in Int
      BY <1>1, <1>2, <1>3
<1>5. Day \in Int
      BY DEF Day, Hour, Minute
<1> QED BY <1>4, <1>5 DEF DateTime

LEMMA DaysToType ==
    ASSUME when \in Int, dir \in {-1, 1}, NEW w \in 0 .. 6
    PROVE  DaysTo(w) \in Int
BY DEF DaysTo, WeekdayOf, DayOf, Day, Hour, Minute

\* The time that each kind of timespec makes is an integer.
LEMMA TimeTypes ==
    ASSUME word \in Seq(Pieces), when \in Int, dir \in {-1, 1}, number \in Nat
    PROVE  /\ Now \in Int /\ Midnight(Now) \in Int /\ Midnight(Now) - Day \in Int
           /\ IsAll("date") /\ DateInRange(Value) =>
                 DateTime(YearMeant(Value[1]), Value[2], Value[3]) \in Int
           /\ IsAll("time") =>
                 Midnight(when) + Value[1] * Hour + Value[2] * Minute + Value[3] \in Int
           /\ IsAll("weekday") => Midnight(when) + Day * DaysTo(Value) \in Int
           /\ IsAll("unit") => when + dir * number * Value \in Int
<1>1. Day \in Int /\ Hour \in Int /\ Minute \in Int
      BY DEF Day, Hour, Minute
<1>2. Now \in Int /\ Midnight(Now) \in Int /\ Midnight(when) \in Int
      BY NowAssumption, MidnightType
<1>3. ASSUME IsAll("date"), DateInRange(Value)
      PROVE  DateTime(YearMeant(Value[1]), Value[2], Value[3]) \in Int
      <2>1. Value \in Nat \X Nat \X Nat
            BY <1>3, ValueTypes DEF IsAll
      <2>2. Value[1] \in Nat /\ Value[2] \in 1 .. 12 /\ Value[3] \in Int
            <3>1. Value[1] \in Nat /\ Value[2] \in Nat /\ Value[3] \in Nat
                  BY <2>1
            <3> QED BY <1>3, <3>1 DEF DateInRange
      <2>3. YearMeant(Value[1]) \in Int
            BY <2>2, YearOfType DEF YearMeant
      <2> QED BY <2>2, <2>3, DateTimeType
<1>4. ASSUME IsAll("time")
      PROVE  Midnight(when) + Value[1] * Hour + Value[2] * Minute + Value[3] \in Int
      <2>1. Value \in Nat \X Nat \X Nat
            BY <1>4, ValueTypes DEF IsAll
      <2>2. Value[1] \in Int /\ Value[2] \in Int /\ Value[3] \in Int
            <3>1. Value[1] \in Nat /\ Value[2] \in Nat /\ Value[3] \in Nat
                  BY <2>1
            <3> QED BY <3>1
      <2> DEFINE h == Value[1] * Hour
                 m == Value[2] * Minute
                 s == Value[3]
      <2>3. h \in Int /\ m \in Int /\ s \in Int
            BY <2>2 DEF Hour, Minute
      <2> HIDE DEF h, m, s
      <2>4. Midnight(when) + h + m + s \in Int
            BY ONLY <1>2, <2>3
      <2> QED BY <2>4 DEF h, m, s
<1>5. ASSUME IsAll("weekday")
      PROVE  Midnight(when) + Day * DaysTo(Value) \in Int
      <2>1. Value \in 0 .. 6
            BY <1>5, ValueTypes DEF IsAll
      <2>2. DaysTo(Value) \in Int
            BY <2>1, DaysToType
      <2> QED BY <1>1, <1>2, <2>2
<1>6. ASSUME IsAll("unit")
      PROVE  when + dir * number * Value \in Int
      <2>1. Value \in Int /\ dir \in Int /\ number \in Int
            BY <1>6, ValueTypes DEF IsAll
      <2>2. dir * number \in Int
            BY <2>1
      <2> QED BY <2>1, <2>2
<1> QED BY <1>1, <1>2, <1>3, <1>4, <1>5, <1>6

-----------------------------------------------------------------------------
(* Type correctness, by parts: what the parser reads, what it makes of it, *)
(* and the scan.                                                           *)

WordType == word \in Seq(Pieces) /\ words \in Nat
ParserType ==
    /\ seen \subseteq Keywords
    /\ first \in BOOLEAN
    /\ dir \in {-1, 1} /\ number \in Nat
TimesType == when \in Int /\ from \in Int /\ to \in Int /\ lines \in Int
SearchType == search = NULL \/ search \in Patterns
ScanType ==
    /\ history \in Histories
    /\ line \in 0 .. Len(history) + 1
    /\ pc = "scan" => line >= 1
    /\ pc = "back" => line <= Len(history)
    /\ limit \in Nat /\ inperiod \in Nat
    /\ recalled \in Seq(1 .. Len(history))
Places == {"keywords", "timespec", "weekday", "number", "unit", "back", "scan", "done", "failed"}

TypeInv ==
    /\ pc \in Places
    /\ WordType /\ ParserType /\ TimesType /\ SearchType /\ ScanType

LEMMA TypeInvTypeOK == TypeInv => TypeOK
BY DEF TypeInv, WordType, ParserType, TimesType, SearchType, ScanType, Places, TypeOK

LEMMA HistoryType ==
    ASSUME NEW h \in Histories
    PROVE  /\ Len(h) \in Nat /\ Len(h) >= 1
           /\ \A i \in 1 .. Len(h) : h[i].time \in Int
<1> DEFINE HistoryLine == [time : Int, text : Seq(STRING)]
<1>1. h \in Seq(HistoryLine) /\ h # <<>>
      BY HistoriesAssumption
<1>2. \A l \in HistoryLine : l.time \in Int
      OBVIOUS
<1> HIDE DEF HistoryLine
<1>3. Len(h) \in Nat /\ Len(h) >= 1 /\ \A i \in 1 .. Len(h) : h[i] \in HistoryLine
      BY <1>1
<1> QED BY <1>2, <1>3

LEMMA InitTypeInv == Init => TypeInv
<1> SUFFICES ASSUME Init PROVE TypeInv
    OBVIOUS
<1>1. pc \in Places /\ WordType
      <2>1. word \in Words /\ word \in Seq(Pieces)
            BY WordsAssumption DEF Init
      <2> QED BY <2>1 DEF Init, Places, WordType
<1>2. ParserType
      BY DEF Init, ParserType
<1>3. history \in Histories /\ from = history[1].time
      BY DEF Init
<1>4. Len(history) \in Nat /\ Len(history) >= 1 /\ history[1].time \in Int
      BY <1>3, HistoryType
<1>5. TimesType
      BY <1>3, <1>4, NowAssumption DEF Init, TimesType
<1>6. SearchType
      BY DEF Init, SearchType
<1>7. ScanType
      BY <1>3, <1>4 DEF Init, ScanType
<1> QED BY <1>1, <1>2, <1>5, <1>6, <1>7 DEF TypeInv

LEMMA AcceptType ==
    ASSUME TypeInv, NEW t \in Int, Accept(t)
    PROVE  TypeInv'
<1>1. pc' \in Places /\ WordType'
      BY WordStep DEF Accept, Store, TypeInv, WordType, Places
<1>2. ParserType'
      BY DEF Accept, Store, TypeInv, ParserType, spec
<1>3. TimesType'
      BY DEF Accept, Store, TypeInv, TimesType
<1>4. SearchType' /\ ScanType'
      BY DEF Accept, Store, TypeInv, SearchType, ScanType, scanning
<1> QED BY <1>1, <1>2, <1>3, <1>4 DEF TypeInv

\* Steps of the parser that leave the times alone, Accept aside.
LEMMA ParseType ==
    ASSUME TypeInv, Parse
    PROVE  TypeInv'
<1>1. CASE Simple
      <2>1. PICK type \in SimpleTypes :
               Accept(CASE type = "now"       -> Now
                        [] type = "today"     -> Midnight(Now)
                        [] type = "yesterday" -> Midnight(Now) - Day)
            BY <1>1 DEF Simple
      <2>2. Now \in Int /\ Midnight(Now) \in Int /\ Midnight(Now) - Day \in Int
            BY TimeTypes DEF TypeInv, WordType, TimesType, ParserType
      <2>3. CASE type = "now"
            BY <2>1, <2>2, <2>3, AcceptType
      <2>4. CASE type = "today"
            BY <2>1, <2>2, <2>4, AcceptType
      <2>5. CASE type = "yesterday"
            BY <2>1, <2>2, <2>5, AcceptType
      <2> QED BY <2>3, <2>4, <2>5 DEF SimpleTypes
<1>2. CASE AbsoluteDate
      BY <1>2, TimeTypes, AcceptType DEF AbsoluteDate, TypeInv, WordType, TimesType, ParserType
<1>3. CASE AbsoluteTime
      BY <1>3, TimeTypes, AcceptType DEF AbsoluteTime, TypeInv, WordType, TimesType, ParserType
<1>4. CASE Weekday
      BY <1>4, TimeTypes, AcceptType DEF Weekday, TypeInv, WordType, TimesType, ParserType
<1>5. CASE Unit
      BY <1>5, TimeTypes, AcceptType DEF Unit, TypeInv, WordType, TimesType, ParserType
<1>6. CASE KeywordRefused \/ NoSearchString \/ OutOfRange \/ NoWeekday \/ NoNumber \/ NoUnit
           \/ Unparsable
      <2>1. UNCHANGED <<word, words, seen, first, spec, when, options, history, scanning>>
            /\ pc' \in {"failed", "keywords"}
            BY <1>6 DEF KeywordRefused, NoSearchString, OutOfRange, NoWeekday, NoNumber, NoUnit,
                        Unparsable, Fail
      <2> QED BY <2>1 DEF TypeInv, WordType, ParserType, TimesType, SearchType, ScanType, Places,
                          spec, options, scanning
<1>7. CASE KeywordWhen
      <2>1. WordType' /\ pc' \in Places
            BY <1>7, WordStep DEF KeywordWhen, TypeInv, WordType, Places
      <2>2. ParserType'
            BY <1>7 DEF KeywordWhen, Permitted, TypeInv, ParserType, spec
      <2>3. TimesType' /\ SearchType'
            BY <1>7, NowAssumption
            DEF KeywordWhen, StartsFrom, StartsTo, TypeInv, TimesType, SearchType, options
      <2>4. ScanType'
            BY <1>7 DEF KeywordWhen, TypeInv, ScanType, scanning
      <2> QED BY <2>1, <2>2, <2>3, <2>4 DEF TypeInv
<1>8. CASE KeywordSearch
      <2>1. WordType' /\ pc' \in Places
            BY <1>8 DEF KeywordSearch, TypeInv, WordType, Places, End
      <2>2. ParserType'
            BY <1>8 DEF KeywordSearch, Permitted, TypeInv, ParserType, spec, Keywords
      <2>3. TimesType' /\ SearchType'
            BY <1>8 DEF KeywordSearch, TypeInv, TimesType, SearchType
      <2>4. ScanType'
            BY <1>8 DEF KeywordSearch, TypeInv, ScanType, scanning
      <2> QED BY <2>1, <2>2, <2>3, <2>4 DEF TypeInv
<1>9. CASE NextOrLast \/ Sign \/ Number
      <2>1. WordType' /\ pc' \in Places
            BY <1>9, WordStep DEF NextOrLast, Sign, Number, TypeInv, WordType, Places
      <2>2. dir' \in {-1, 1} /\ number' \in Nat
            BY <1>9, ValueTypes
            DEF NextOrLast, Sign, Number, IsAll, TypeInv, WordType, ParserType
      <2>3. UNCHANGED <<seen, first>>
            BY <1>9 DEF NextOrLast, Sign, Number
      <2>4. ParserType'
            BY <2>2, <2>3 DEF TypeInv, ParserType
      <2>5. UNCHANGED <<when, options, history, scanning>> /\ pc' \notin {"scan", "back"}
            BY <1>9 DEF NextOrLast, Sign, Number
      <2> QED BY <2>1, <2>4, <2>5 DEF TypeInv, TimesType, SearchType, ScanType, options, scanning
<1>10. CASE Lines
      <2>1. WordType' /\ pc' \in Places
            BY <1>10, WordStep DEF Lines, TypeInv, WordType, Places
      <2>2. ParserType'
            BY <1>10 DEF Lines, TypeInv, ParserType, spec
      <2>3. dir * number \in Int
            BY DEF TypeInv, ParserType
      <2>4. TimesType' /\ SearchType'
            BY <1>10, <2>3 DEF Lines, TypeInv, TimesType, SearchType
      <2>5. ScanType'
            BY <1>10 DEF Lines, TypeInv, ScanType, scanning
      <2> QED BY <2>1, <2>2, <2>4, <2>5 DEF TypeInv
<1> QED BY <1>1, <1>2, <1>3, <1>4, <1>5, <1>6, <1>7, <1>8, <1>9, <1>10 DEF Parse

LEMMA TypeStep == TypeInv /\ [Next]_vars => TypeInv'
<1> SUFFICES ASSUME TypeInv, [Next]_vars PROVE TypeInv'
    OBVIOUS
<1>0. Len(history) \in Nat /\ Len(history) >= 1
      BY HistoryType DEF TypeInv, ScanType
<1>1. CASE UNCHANGED vars
      BY <1>1 DEF vars, TypeInv, WordType, ParserType, TimesType, SearchType, ScanType,
                  spec, options, scanning
<1>2. CASE Parse
      BY <1>2, ParseType
<1>3. CASE StartScan \/ Back \/ BackAtHead \/ Scan \/ ScanEnds
      <2>1. WordType' /\ ParserType' /\ SearchType'
            BY <1>3 DEF StartScan, Back, BackAtHead, Scan, ScanEnds, TypeInv, WordType, ParserType,
                        SearchType, spec, options
      <2>2. TimesType'
            BY <1>3 DEF StartScan, Back, BackAtHead, Scan, ScanEnds, TypeInv, TimesType, options
      <2>3. pc' \in Places
            BY <1>3 DEF StartScan, Back, BackAtHead, Scan, ScanEnds, TypeInv, Places
      <2>4. ScanType'
            <3>1. CASE StartScan
                  BY <1>0, <3>1 DEF StartScan, TypeInv, ScanType
            <3>2. CASE Back
                  BY <1>0, <3>2 DEF Back, TypeInv, ScanType
            <3>3. CASE BackAtHead
                  BY <1>0, <3>3 DEF BackAtHead, TypeInv, ScanType
            <3>4. CASE Scan
                  <4>1. line \in 1 .. Len(history)
                        BY <3>4 DEF Scan, TypeInv, ScanType
                  <4>2. Append(recalled, line) \in Seq(1 .. Len(history))
                        BY <4>1, AppendProperties DEF TypeInv, ScanType
                  <4>3. recalled' \in {recalled, Append(recalled, line)}
                        BY <3>4 DEF Scan, Inspect
                  <4>4. inperiod' \in {inperiod, inperiod + 1}
                        BY <3>4 DEF Scan, Inspect
                  <4>5. UNCHANGED <<pc, history, limit>> /\ line' = line + 1 /\ pc = "scan"
                        BY <3>4 DEF Scan
                  <4>6. recalled' \in Seq(1 .. Len(history)) /\ inperiod' \in Nat
                        <5>1. recalled \in Seq(1 .. Len(history)) /\ inperiod \in Nat
                              BY DEF TypeInv, ScanType
                        <5>2. recalled' \in Seq(1 .. Len(history))
                              BY ONLY <4>2, <4>3, <5>1
                        <5>3. inperiod' \in Nat
                              BY ONLY <4>4, <5>1
                        <5> QED BY <5>2, <5>3
                  <4>7. line' \in 0 .. Len(history') + 1 /\ line' >= 1
                        <5>1. Len(history') = Len(history) /\ line' = line + 1
                              BY <4>5
                        <5>2. line + 1 \in 0 .. Len(history) + 1 /\ line + 1 >= 1
                              BY ONLY <1>0, <4>1
                        <5> QED BY ONLY <5>1, <5>2
                  <4>8. history' \in Histories /\ limit' \in Nat
                        BY <4>5 DEF TypeInv, ScanType
                  <4>9. recalled' \in Seq(1 .. Len(history')) /\ pc' = "scan"
                        BY <4>5, <4>6
                  <4> QED BY <4>6, <4>7, <4>8, <4>9 DEF ScanType
            <3>5. CASE ScanEnds
                  BY <3>5 DEF ScanEnds, TypeInv, ScanType, scanning
            <3> QED BY <1>3, <3>1, <3>2, <3>3, <3>4, <3>5
      <2> QED BY <2>1, <2>2, <2>3, <2>4 DEF TypeInv
<1> QED BY <1>1, <1>2, <1>3 DEF Next

\* Every variable keeps its type, whatever the words of the arguments are;
\* a line that is looked at is one of the history (recall.c).
THEOREM TypeCorrect == Spec => []TypeOK
<1>1. Init => TypeInv
      BY InitTypeInv
<1>2. TypeInv /\ [Next]_vars => TypeInv'
      BY TypeStep
<1>3. TypeInv => TypeOK
      BY TypeInvTypeOK
<1> QED BY <1>1, <1>2, <1>3, PTL DEF Spec

-----------------------------------------------------------------------------
(* Counting lines that fit.                                                *)

LEMMA FittingFinite ==
    ASSUME NEW a \in Int, NEW b \in Int
    PROVE  IsFiniteSet(Fitting(a, b)) /\ Cardinality(Fitting(a, b)) \in Nat
<1>1. Fitting(a, b) \in SUBSET (a .. b)
      BY DEF Fitting
<1> QED BY <1>1, IntervalSubset

LEMMA CardinalityMono ==
    ASSUME NEW a \in Int, NEW b \in Int, NEW c \in Int, NEW d \in Int, c <= a, b <= d
    PROVE  Cardinality(Fitting(a, b)) <= Cardinality(Fitting(c, d))
<1>1. Fitting(a, b) \in SUBSET Fitting(c, d)
      BY DEF Fitting
<1> QED BY <1>1, FittingFinite, FS_Subset

\* One more line, at the end or at the start.
LEMMA FittingMore ==
    ASSUME NEW a \in Int, NEW b \in Int, NEW i \in Int, NEW S \in SUBSET Int,
           i \notin Fitting(a, b), S = Fitting(a, b) \cup {i}
    PROVE  IsFiniteSet(S) /\ Cardinality(S) = Cardinality(Fitting(a, b)) + 1
BY FittingFinite, FS_AddElement

LEMMA FittingNat ==
    ASSUME Len(history) \in Nat, NEW k \in Int
    PROVE  Cardinality(Fitting(k, Len(history))) \in Nat
<1>1. Len(history) \in Int
      OBVIOUS
<1> QED BY <1>1, FittingFinite

LEMMA FittingUp ==
    ASSUME NEW a \in Int, NEW b \in Int, a <= b + 1
    PROVE  Cardinality(Fitting(a, b + 1)) =
              Cardinality(Fitting(a, b)) + (IF b + 1 \in Fitting(a, b + 1) THEN 1 ELSE 0)
<1>1. CASE b + 1 \in Fitting(a, b + 1)
      <2>1. Fitting(a, b + 1) = Fitting(a, b) \cup {b + 1} /\ b + 1 \notin Fitting(a, b)
            BY <1>1 DEF Fitting
      <2>2. Fitting(a, b + 1) \in SUBSET Int
            BY DEF Fitting
      <2> QED BY <1>1, <2>1, <2>2, FittingMore
<1>2. CASE b + 1 \notin Fitting(a, b + 1)
      <2>1. Fitting(a, b + 1) = Fitting(a, b)
            BY <1>2 DEF Fitting
      <2> QED BY <1>2, <2>1, FittingFinite
<1> QED BY <1>1, <1>2

LEMMA FittingDown ==
    ASSUME NEW a \in Int, NEW b \in Int, a <= b
    PROVE  Cardinality(Fitting(a, b)) =
              Cardinality(Fitting(a + 1, b)) + (IF a \in Fitting(a, b) THEN 1 ELSE 0)
<1>1. CASE a \in Fitting(a, b)
      <2>1. Fitting(a, b) = Fitting(a + 1, b) \cup {a} /\ a \notin Fitting(a + 1, b)
            BY <1>1 DEF Fitting
      <2>2. Fitting(a, b) \in SUBSET Int /\ a + 1 \in Int
            BY DEF Fitting
      <2>3. Cardinality(Fitting(a, b)) = Cardinality(Fitting(a + 1, b)) + 1
            BY <2>1, <2>2, FittingMore
      <2> QED BY <1>1, <2>3
<1>2. CASE a \notin Fitting(a, b)
      <2>1. Fitting(a, b) = Fitting(a + 1, b)
            BY <1>2 DEF Fitting
      <2> QED BY <1>2, <2>1, FittingFinite
<1> QED BY <1>1, <1>2

-----------------------------------------------------------------------------
(* The invariant of the two scans.                                         *)

N == Len(history)
AskedBelow(k) == {i \in Asked : i < k}
MatchesSearch(i) == search = NULL \/ Matches(search, history[i].text)
Picked(k) == {i \in AskedBelow(k) : MatchesSearch(i)}

\* Backwards, limit counts the lines that are old enough, too few so far.
BackInv ==
    pc = "back" =>
        /\ lines < 0 /\ inperiod = 0
        /\ limit = Cardinality(Fitting(line + 1, N)) /\ limit < -lines

\* Forwards, limit is the number of lines asked for, and those asked for and
\* seen so far are counted.
CountInv ==
    pc \in {"scan", "done"} =>
        /\ inperiod = Cardinality(AskedBelow(line))
        /\ lines > 0 => inperiod = Cardinality(Fitting(1, line - 1)) /\ inperiod <= lines
        /\ lines < 0 => limit = Cardinality(Asked)
                        /\ \A i \in line .. N : i \in Fitting(1, N) => i \in Asked
        /\ pc = "done" => \A i \in Asked : i < line

\* recalled has those of them that match.
PickedInv ==
    /\ pc \in {"scan", "done"} =>
          /\ {recalled[i] : i \in 1 .. Len(recalled)} = Picked(line)
          /\ \A i, j \in 1 .. Len(recalled) : i < j => recalled[i] < recalled[j]
    /\ pc \notin {"scan", "done"} => recalled = <<>>

IInv == TypeInv /\ (pc = "done" => line >= 1) /\ BackInv /\ CountInv /\ PickedInv

LEMMA InvTypes ==
    ASSUME TypeInv
    PROVE  /\ N \in Nat /\ N >= 1 /\ line \in 0 .. N + 1
           /\ lines \in Int /\ from \in Int /\ to \in Int
           /\ limit \in Nat /\ inperiod \in Nat
           /\ \A i \in 1 .. N : history[i].time \in Int
           /\ recalled \in Seq(1 .. N)
BY HistoryType DEF TypeInv, ScanType, TimesType, N

LEMMA AskedFinite ==
    ASSUME TypeInv, NEW k \in Int
    PROVE  /\ Asked \in SUBSET (1 .. N) /\ IsFiniteSet(Asked) /\ Cardinality(Asked) \in Nat
           /\ IsFiniteSet(AskedBelow(k)) /\ Cardinality(AskedBelow(k)) \in Nat
<1>0. N \in Nat /\ lines \in Int
      BY InvTypes
<1>1. Asked \in SUBSET (1 .. N)
      BY <1>0 DEF Asked, Fitting, N
<1>2. AskedBelow(k) \in SUBSET (1 .. N)
      BY <1>1 DEF AskedBelow
<1>3. 1 \in Int /\ N \in Int
      BY <1>0
<1> QED BY <1>1, <1>2, <1>3, IntervalSubset

\* The options of a recall and the history stay as they are while it scans.
LEMMA OptionsStay ==
    ASSUME UNCHANGED <<from, to, lines, search, history>>
    PROVE  /\ Asked' = Asked /\ N' = N
           /\ \A a, b : Fitting(a, b)' = Fitting(a, b)
           /\ \A k : AskedBelow(k)' = AskedBelow(k)
           /\ \A k : Picked(k)' = Picked(k)
<1>1. N' = N
      BY DEF N
<1>2. \A a, b : Fitting(a, b)' = Fitting(a, b)
      BY DEF Fitting
<1>3. Asked' = Asked
      BY <1>2 DEF Asked
<1>4. \A k : AskedBelow(k)' = AskedBelow(k)
      BY <1>3 DEF AskedBelow
<1>5. \A k : Picked(k)' = Picked(k)
      BY <1>4 DEF Picked, MatchesSearch
<1> QED BY <1>1, <1>2, <1>3, <1>4, <1>5

LEMMA FitsMeans ==
    ASSUME lines \in Int
    PROVE  /\ lines > 0 => (TimeFits <=> from <= history[line].time)
           /\ lines < 0 => (TimeFits <=> history[line].time <= from)
BY DEF TimeFits, Fits

\* The line looked at is one asked for just when it fits and there are not
\* enough yet.
LEMMA AskedHere ==
    ASSUME TypeInv, CountInv, pc = "scan", line <= N
    PROVE  line \in Asked <=> TimeFits /\ ~Enough
<1>0. /\ N \in Nat /\ lines \in Int /\ inperiod \in Nat /\ limit \in Nat
      /\ line \in 1 .. N /\ line - 1 \in Int /\ line \in Int
      BY InvTypes DEF TypeInv, ScanType
<1>1. CASE lines = 0
      BY <1>0, <1>1, InvTypes DEF Asked, TimeFits, Fits, Enough, N
<1>2. CASE lines > 0
      <2>1. Asked = {i \in Fitting(1, N) : Cardinality(Fitting(1, i)) <= lines}
            BY <1>0, <1>2 DEF Asked, N
      <2>2. line \in Fitting(1, N) <=> TimeFits
            BY <1>0, <1>2, FitsMeans DEF Fitting
      <2>3. line \in Fitting(1, line) <=> TimeFits
            BY <1>0, <1>2, FitsMeans DEF Fitting
      <2>4. inperiod = Cardinality(Fitting(1, line - 1)) /\ inperiod <= lines
            BY <1>2 DEF CountInv
      <2>5. TimeFits => Cardinality(Fitting(1, line)) = inperiod + 1
            <3>1. (line - 1) + 1 = line
                  BY <1>0
            <3>2. Cardinality(Fitting(1, (line - 1) + 1)) = Cardinality(Fitting(1, line - 1))
                     + (IF (line - 1) + 1 \in Fitting(1, (line - 1) + 1) THEN 1 ELSE 0)
                  BY <1>0, FittingUp
            <3> QED BY <2>3, <2>4, <3>1, <3>2
      <2>6. Enough <=> inperiod >= lines
            BY <1>0, <1>2 DEF Enough
      <2> QED BY <1>0, <2>1, <2>2, <2>5, <2>6
<1>3. CASE lines < 0
      <2>1. line \in Fitting(1, N) <=> TimeFits
            BY <1>0, <1>3, FitsMeans DEF Fitting
      <2>2. line \in Asked <=> line \in Fitting(1, N)
            <3>1. Asked \subseteq Fitting(1, N)
                  BY <1>0, <1>3 DEF Asked, N
            <3> QED BY <1>0, <1>3, <3>1 DEF CountInv
      <2>3. Enough => line \notin Asked
            <3> SUFFICES ASSUME Enough PROVE line \notin Asked
                OBVIOUS
            <3>1. Cardinality(AskedBelow(line)) >= Cardinality(Asked)
                  BY <1>0, <1>3 DEF CountInv, Enough
            <3>2. AskedBelow(line) \in SUBSET Asked
                  BY DEF AskedBelow
            <3>3. IsFiniteSet(Asked) /\ Cardinality(Asked) \in Nat
                  /\ Cardinality(AskedBelow(line)) \in Nat
                  BY <1>0, AskedFinite
            <3>4. AskedBelow(line) = Asked
                  BY <3>1, <3>2, <3>3, FS_Subset
            <3> QED BY <1>0, <3>4 DEF AskedBelow
      <2> QED BY <2>1, <2>2, <2>3
<1> QED BY <1>0, <1>1, <1>2, <1>3

\* Once a line fits but there are enough, no line from there on is asked for.
LEMMA EnoughIsAll ==
    ASSUME TypeInv, CountInv, pc = "scan", line <= N, TimeFits, Enough
    PROVE  \A i \in Asked : i < line
<1>0. /\ N \in Nat /\ lines \in Int /\ inperiod \in Nat /\ limit \in Nat
      /\ line \in 1 .. N /\ line - 1 \in Int /\ line \in Int
      BY InvTypes DEF TypeInv, ScanType
<1>1. line \notin Asked
      BY AskedHere
<1>2. CASE lines > 0
      <2>1. Asked = {i \in Fitting(1, N) : Cardinality(Fitting(1, i)) <= lines}
            BY <1>0, <1>2 DEF Asked, N
      <2>2. Cardinality(Fitting(1, line)) > lines
            <3>1. line \in Fitting(1, N)
                  BY <1>0, <1>2, FitsMeans DEF Fitting
            <3> QED BY <1>0, <1>1, <2>1, <3>1, FittingFinite
      <2> SUFFICES ASSUME NEW i \in Asked, i >= line PROVE FALSE
          BY <1>0, <2>1 DEF Fitting
      <2>3. i \in Int /\ Cardinality(Fitting(1, i)) <= lines
            BY <2>1 DEF Fitting
      <2>4. Cardinality(Fitting(1, line)) <= Cardinality(Fitting(1, i))
            BY <1>0, <2>3, CardinalityMono
      <2>5. \A k \in Int : Cardinality(Fitting(1, k)) \in Nat
            BY FittingFinite
      <2> QED BY <1>0, <2>2, <2>3, <2>4, <2>5
<1>3. CASE lines < 0
      <2>1. line \in Fitting(1, N)
            BY <1>0, <1>3, FitsMeans DEF Fitting
      <2> QED BY <1>0, <1>1, <1>3, <2>1 DEF CountInv
<1>4. lines # 0
      BY DEF Enough
<1> QED BY <1>0, <1>2, <1>3, <1>4

\* What the loop has counted and appended after a line.
LEMMA BelowNext ==
    ASSUME TypeInv, NEW k \in 1 .. N
    PROVE  /\ k \in Asked =>
                 /\ AskedBelow(k + 1) = AskedBelow(k) \cup {k}
                 /\ Cardinality(AskedBelow(k + 1)) = Cardinality(AskedBelow(k)) + 1
                 /\ Picked(k + 1) = Picked(k) \cup (IF MatchesSearch(k) THEN {k} ELSE {})
           /\ k \notin Asked => AskedBelow(k + 1) = AskedBelow(k) /\ Picked(k + 1) = Picked(k)
<1>1. N \in Nat /\ k \in Int /\ Asked \in SUBSET (1 .. N)
      /\ IsFiniteSet(AskedBelow(k))
      BY InvTypes, AskedFinite
<1>2. AskedBelow(k + 1) = AskedBelow(k) \cup (IF k \in Asked THEN {k} ELSE {})
      <2>1. \A i \in Asked : i < k + 1 <=> i < k \/ i = k
            BY <1>1
      <2> QED BY <2>1 DEF AskedBelow
<1>3. k \notin AskedBelow(k)
      BY <1>1 DEF AskedBelow
<1>4. k \in Asked => Cardinality(AskedBelow(k + 1)) = Cardinality(AskedBelow(k)) + 1
      BY <1>1, <1>2, <1>3, FS_AddElement
<1>5. Picked(k + 1) = Picked(k) \cup (IF k \in Asked /\ MatchesSearch(k) THEN {k} ELSE {})
      BY <1>2 DEF Picked
<1> QED BY <1>2, <1>4, <1>5

LEMMA ScanCount ==
    ASSUME TypeInv, CountInv, Scan
    PROVE  CountInv'
<1>0. /\ N \in Nat /\ lines \in Int /\ inperiod \in Nat /\ limit \in Nat
      /\ line \in 1 .. N /\ line - 1 \in Int /\ line \in Int /\ pc = "scan"
      BY InvTypes DEF TypeInv, ScanType, Scan, N
<1>1. UNCHANGED <<pc, from, to, lines, search, history, limit>> /\ line' = line + 1
      /\ (TimeFits => ~Enough)
      BY DEF Scan, options
<1>2. /\ Asked' = Asked /\ N' = N
      /\ \A a, b : Fitting(a, b)' = Fitting(a, b)
      /\ \A k : AskedBelow(k)' = AskedBelow(k)
      BY <1>1, OptionsStay
<1>3. line \in Asked <=> TimeFits
      BY <1>0, <1>1, AskedHere
<1>4. inperiod' = inperiod + (IF TimeFits THEN 1 ELSE 0)
      BY <1>0 DEF Scan, Inspect
<1>5. inperiod = Cardinality(AskedBelow(line))
      BY <1>0 DEF CountInv
<1>6. inperiod' = Cardinality(AskedBelow(line + 1))
      <2>1. CASE TimeFits
            BY <1>0, <1>3, <1>4, <1>5, <2>1, BelowNext
      <2>2. CASE ~TimeFits
            BY <1>0, <1>3, <1>4, <1>5, <2>2, BelowNext
      <2> QED BY <2>1, <2>2
<1>7. lines > 0 => inperiod' = Cardinality(Fitting(1, line)) /\ inperiod' <= lines
      <2> SUFFICES ASSUME lines > 0
                   PROVE  inperiod' = Cardinality(Fitting(1, line)) /\ inperiod' <= lines
          OBVIOUS
      <2>1. inperiod = Cardinality(Fitting(1, line - 1)) /\ inperiod <= lines
            BY <1>0 DEF CountInv
      <2>2. (line - 1) + 1 = line
            BY <1>0
      <2>3. Cardinality(Fitting(1, (line - 1) + 1)) = Cardinality(Fitting(1, line - 1))
               + (IF (line - 1) + 1 \in Fitting(1, (line - 1) + 1) THEN 1 ELSE 0)
            BY <1>0, FittingUp
      <2>4. line \in Fitting(1, line) <=> TimeFits
            BY <1>0, FitsMeans DEF Fitting
      <2>5. TimeFits => inperiod < lines
            BY <1>0, <1>1 DEF Enough
      <2> QED BY <1>0, <1>4, <2>1, <2>2, <2>3, <2>4, <2>5
<1>8. lines < 0 => /\ limit = Cardinality(Asked)
                   /\ \A i \in line + 1 .. N : i \in Fitting(1, N) => i \in Asked
      BY <1>0 DEF CountInv
<1>9. (line + 1) - 1 = line
      BY <1>0
<1> QED BY <1>0, <1>1, <1>2, <1>6, <1>7, <1>8, <1>9 DEF CountInv

LEMMA ScanPicked ==
    ASSUME TypeInv, CountInv, PickedInv, Scan
    PROVE  PickedInv'
<1>0. /\ N \in Nat /\ line \in 1 .. N /\ line \in Int /\ pc = "scan"
      /\ recalled \in Seq(1 .. N)
      BY InvTypes DEF TypeInv, ScanType, Scan, N
<1>1. UNCHANGED <<pc, from, to, lines, search, history>> /\ line' = line + 1
      /\ (TimeFits => ~Enough)
      BY DEF Scan, options
<1>2. \A k : Picked(k)' = Picked(k)
      BY <1>1, OptionsStay
<1>3. line \in Asked <=> TimeFits
      BY <1>0, <1>1, AskedHere
<1>4. /\ {recalled[i] : i \in 1 .. Len(recalled)} = Picked(line)
      /\ \A i, j \in 1 .. Len(recalled) : i < j => recalled[i] < recalled[j]
      BY <1>0 DEF PickedInv
<1>5. recalled' = IF line \in Asked /\ MatchesSearch(line)
                     THEN Append(recalled, line) ELSE recalled
      BY <1>3 DEF Scan, Inspect, MatchesSearch
<1>6. CASE line \in Asked /\ MatchesSearch(line)
      <2>1. Picked(line + 1) = Picked(line) \cup {line}
            BY <1>0, <1>6, BelowNext
      <2>2. /\ Len(recalled) \in Nat /\ Len(recalled') = Len(recalled) + 1
            /\ recalled'[Len(recalled) + 1] = line
            /\ \A i \in 1 .. Len(recalled) : recalled'[i] = recalled[i]
            BY <1>0, <1>5, <1>6, AppendProperties
      <2>3. {recalled'[i] : i \in 1 .. Len(recalled')}
               = {recalled[i] : i \in 1 .. Len(recalled)} \cup {line}
            BY <2>2
      <2>4. \A i \in 1 .. Len(recalled) : recalled[i] < line
            <3>1. \A k \in Picked(line) : k < line
                  BY DEF Picked, AskedBelow
            <3> QED BY <1>4, <3>1
      <2>5. \A i, j \in 1 .. Len(recalled') : i < j => recalled'[i] < recalled'[j]
            BY <1>4, <2>2, <2>4
      <2> QED BY <1>0, <1>1, <1>2, <1>4, <2>1, <2>3, <2>5 DEF PickedInv
<1>7. CASE ~(line \in Asked /\ MatchesSearch(line))
      <2>1. Picked(line + 1) = Picked(line)
            BY <1>0, <1>7, BelowNext
      <2> QED BY <1>0, <1>1, <1>2, <1>4, <1>5, <1>7, <2>1 DEF PickedInv
<1> QED BY <1>6, <1>7

\* Going back, a line that is old enough is one more of those to recall; the
\* lines of the last -lines are those from where going back ended.
LEMMA BackStep ==
    ASSUME TypeInv, BackInv, PickedInv, Back
    PROVE  BackInv' /\ CountInv' /\ PickedInv'
<1>0. /\ N \in Nat /\ lines \in Int /\ limit \in Nat /\ line \in 1 .. N /\ line \in Int
      /\ pc = "back" /\ from \in Int /\ history[line].time \in Int
      BY InvTypes DEF TypeInv, ScanType, Back, N
<1>1. UNCHANGED <<from, to, lines, search, history, inperiod, recalled>>
      BY DEF Back, options
<1>2. /\ Asked' = Asked /\ N' = N
      /\ \A a, b : Fitting(a, b)' = Fitting(a, b)
      /\ \A k : AskedBelow(k)' = AskedBelow(k)
      /\ \A k : Picked(k)' = Picked(k)
      BY <1>1, OptionsStay
<1>3. lines < 0 /\ inperiod = 0 /\ limit = Cardinality(Fitting(line + 1, N)) /\ limit < -lines
      /\ recalled = <<>>
      BY <1>0 DEF BackInv, PickedInv
<1>4. line \in Fitting(line, N) <=> history[line].time <= from
      BY <1>0, <1>3 DEF Fitting
<1>5. limit' = Cardinality(Fitting(line, N))
      <2>1. Cardinality(Fitting(line, N)) =
               Cardinality(Fitting(line + 1, N)) + (IF line \in Fitting(line, N) THEN 1 ELSE 0)
            BY <1>0, FittingDown
      <2>2. limit' = IF history[line].time > from THEN limit ELSE limit + 1
            BY DEF Back, Time
      <2> QED BY <1>0, <1>3, <1>4, <2>1, <2>2
<1>6. CASE history[line].time <= from /\ limit' >= -lines
      <2>1. pc' = "scan" /\ line' = line
            BY <1>6 DEF Back, Time
      <2>2. limit' = -lines
            BY <1>0, <1>3, <1>6 DEF Back, Time
      <2>3. Asked = {i \in Fitting(1, N) : Cardinality(Fitting(i, N)) <= -lines}
            BY <1>0, <1>3 DEF Asked, N
      <2>4. Asked = Fitting(line, N)
            <3>1. ASSUME NEW i \in Fitting(line, N) PROVE i \in Asked
                  <4>1. i \in Int /\ line <= i /\ i \in Fitting(1, N)
                        BY <1>0 DEF Fitting
                  <4>2. Cardinality(Fitting(i, N)) <= Cardinality(Fitting(line, N))
                        BY <1>0, <4>1, CardinalityMono
                  <4>3. Cardinality(Fitting(i, N)) \in Nat
                        BY <1>0, <4>1, FittingFinite
                  <4> QED BY <1>0, <1>5, <2>2, <2>3, <4>1, <4>2, <4>3
            <3>2. ASSUME NEW i \in Asked PROVE i \in Fitting(line, N)
                  <4>1. i \in Int /\ i \in 1 .. N /\ i \in Fitting(1, N) /\ i \in Fitting(i, N)
                        /\ Cardinality(Fitting(i, N)) <= -lines
                        BY <1>0, <2>3 DEF Fitting
                  <4>2. CASE i < line
                        <5>1. Cardinality(Fitting(i, N)) = Cardinality(Fitting(i + 1, N)) + 1
                              BY <1>0, <4>1, FittingDown
                        <5>2. Cardinality(Fitting(line, N)) <= Cardinality(Fitting(i + 1, N))
                              BY <1>0, <4>1, <4>2, CardinalityMono
                        <5>3. i + 1 \in Int
                              BY <4>1
                        <5>4. Cardinality(Fitting(i + 1, N)) \in Nat
                              BY <1>0, <5>3, FittingNat DEF N
                        <5> QED BY <1>0, <1>5, <2>2, <4>1, <5>1, <5>2, <5>4
                  <4>3. CASE i >= line
                        BY <4>1, <4>3 DEF Fitting
                  <4> QED BY <1>0, <4>1, <4>2, <4>3
            <3> QED BY <3>1, <3>2
      <2>5. AskedBelow(line) = {} /\ Picked(line) = {}
            BY <1>0, <2>4 DEF AskedBelow, Picked, Fitting
      <2>6. \A i \in line .. N : i \in Fitting(1, N) => i \in Asked
            BY <1>0, <2>4 DEF Fitting
      <2>7. CountInv'
            <3>1. inperiod' = Cardinality(AskedBelow(line))
                  BY <1>1, <1>3, <2>5, FS_EmptySet
            <3>2. limit' = Cardinality(Asked)
                  BY <1>5, <2>4
            <3> QED BY <1>0, <1>1, <1>2, <1>3, <2>1, <2>6, <3>1, <3>2 DEF CountInv
      <2>8. {recalled[i] : i \in 1 .. Len(recalled)} = {}
            BY <1>3
      <2>9. PickedInv'
            BY <1>1, <1>2, <1>3, <2>1, <2>5, <2>8 DEF PickedInv
      <2> QED BY <2>1, <2>7, <2>9 DEF BackInv
<1>7. CASE ~(history[line].time <= from /\ limit' >= -lines)
      <2>1. pc' = "back" /\ line' = line - 1
            BY <1>0, <1>7 DEF Back, Time
      <2>2. limit' < -lines
            <3>1. limit' \in {limit, limit + 1} /\ (history[line].time > from => limit' = limit)
                  BY DEF Back, Time
            <3> QED BY <1>0, <1>3, <1>7, <3>1
      <2>3. (line - 1) + 1 = line
            BY <1>0
      <2> QED BY <1>0, <1>1, <1>2, <1>3, <1>5, <2>1, <2>2, <2>3 DEF BackInv, CountInv, PickedInv
<1> QED BY <1>6, <1>7

\* There were never enough: all lines that are old enough are asked for.
LEMMA HeadStep ==
    ASSUME TypeInv, BackInv, PickedInv, BackAtHead
    PROVE  BackInv' /\ CountInv' /\ PickedInv'
<1>0. /\ N \in Nat /\ lines \in Int /\ limit \in Nat /\ line = 0 /\ pc = "back"
      BY InvTypes DEF BackAtHead
<1>1. UNCHANGED <<from, to, lines, search, history, limit, inperiod, recalled>>
      /\ pc' = "scan" /\ line' = 1
      BY DEF BackAtHead, options
<1>2. /\ Asked' = Asked /\ N' = N
      /\ \A a, b : Fitting(a, b)' = Fitting(a, b)
      /\ \A k : AskedBelow(k)' = AskedBelow(k)
      /\ \A k : Picked(k)' = Picked(k)
      BY <1>1, OptionsStay
<1>3. lines < 0 /\ inperiod = 0 /\ limit = Cardinality(Fitting(1, N)) /\ limit < -lines
      /\ recalled = <<>>
      BY <1>0 DEF BackInv, PickedInv
<1>4. Asked = Fitting(1, N)
      <2>1. Asked = {i \in Fitting(1, N) : Cardinality(Fitting(i, N)) <= -lines}
            BY <1>0, <1>3 DEF Asked, N
      <2> SUFFICES ASSUME NEW i \in Fitting(1, N) PROVE Cardinality(Fitting(i, N)) <= -lines
          BY <2>1
      <2>2. i \in Int /\ 1 <= i
            BY <1>0 DEF Fitting
      <2>3. Cardinality(Fitting(i, N)) <= Cardinality(Fitting(1, N))
            BY <1>0, <2>2, CardinalityMono
      <2>4. Cardinality(Fitting(i, N)) \in Nat
            BY <1>0, <2>2, FittingNat DEF N
      <2> QED BY <1>0, <1>3, <2>2, <2>3, <2>4
<1>5. AskedBelow(1) = {} /\ Picked(1) = {}
      BY <1>0, <1>4 DEF AskedBelow, Picked, Fitting
<1>6. inperiod' = Cardinality(AskedBelow(1))
      BY <1>1, <1>3, <1>5, FS_EmptySet
<1>7. CountInv'
      BY <1>0, <1>1, <1>2, <1>3, <1>4, <1>6 DEF CountInv
<1>8. {recalled[i] : i \in 1 .. Len(recalled)} = {}
      BY <1>3
<1>9. PickedInv'
      BY <1>1, <1>2, <1>3, <1>5, <1>8 DEF PickedInv
<1> QED BY <1>1, <1>7, <1>9 DEF BackInv

\* The scan starts with nothing counted and nothing recalled.
LEMMA StartStep ==
    ASSUME TypeInv, PickedInv, StartScan
    PROVE  BackInv' /\ CountInv' /\ PickedInv'
<1>0. N \in Nat /\ lines \in Int /\ pc = "keywords"
      BY InvTypes DEF StartScan
<1>1. UNCHANGED <<lines, search, history, recalled>> /\ limit' = 0 /\ inperiod' = 0
      /\ recalled = <<>>
      BY <1>0 DEF StartScan, PickedInv
<1>3. N' = N
      BY <1>1 DEF N
<1>4. CASE lines < 0
      <2>1. pc' = "back" /\ line' = N
            BY <1>4 DEF StartScan, N
      <2>2. Fitting(N + 1, N)' = {}
            BY <1>0, <1>3 DEF Fitting
      <2>3. limit' = Cardinality(Fitting(N + 1, N)')
            BY <1>1, <2>2, FS_EmptySet
      <2> QED BY <1>0, <1>1, <1>3, <1>4, <2>1, <2>3 DEF BackInv, CountInv, PickedInv
<1>5. CASE ~(lines < 0)
      <2>1. pc' = "scan" /\ line' = 1
            BY <1>5 DEF StartScan
      <2>2. Asked' \in SUBSET (1 .. N)
            BY <1>0, <1>1, <1>3, <1>5 DEF Asked, Fitting, N
      <2>3. AskedBelow(1)' = {} /\ Picked(1)' = {}
            <3>1. \A i \in Asked' : ~(i < 1)
                  BY <1>0, <2>2
            <3>2. AskedBelow(1)' = {}
                  BY <3>1 DEF AskedBelow
            <3> QED BY <3>2 DEF Picked
      <2>4. Fitting(1, 0)' = {}
            BY DEF Fitting
      <2>5. inperiod' = Cardinality(AskedBelow(1)') /\ inperiod' = Cardinality(Fitting(1, 0)')
            BY <1>1, <2>3, <2>4, FS_EmptySet
      <2>6. CountInv'
            BY <1>0, <1>1, <1>5, <2>1, <2>5 DEF CountInv
      <2>7. {recalled[i] : i \in 1 .. Len(recalled)} = {}
            BY <1>1
      <2>8. PickedInv'
            BY <1>1, <2>1, <2>3, <2>7 DEF PickedInv
      <2> QED BY <2>1, <2>6, <2>8 DEF BackInv
<1> QED BY <1>4, <1>5

LEMMA EndStep ==
    ASSUME TypeInv, CountInv, PickedInv, ScanEnds
    PROVE  BackInv' /\ CountInv' /\ PickedInv'
<1>0. N \in Nat /\ line \in Nat /\ Asked \in SUBSET (1 .. N) /\ pc = "scan"
      BY InvTypes, AskedFinite DEF ScanEnds
<1>1. UNCHANGED <<from, to, lines, search, history, line, limit, inperiod, recalled>>
      /\ pc' = "done"
      BY DEF ScanEnds, options, scanning
<1>2. /\ Asked' = Asked /\ N' = N
      /\ \A a, b : Fitting(a, b)' = Fitting(a, b)
      /\ \A k : AskedBelow(k)' = AskedBelow(k)
      /\ \A k : Picked(k)' = Picked(k)
      BY <1>1, OptionsStay
<1>3. \A i \in Asked : i < line
      <2>1. CASE line <= N
            BY <1>0, <2>1, EnoughIsAll DEF ScanEnds, N
      <2>2. CASE line > N
            BY <1>0, <2>2
      <2> QED BY <1>0, <2>1, <2>2
<1> QED BY <1>0, <1>1, <1>2, <1>3 DEF BackInv, CountInv, PickedInv

\* A step of the parser scans nothing.
LEMMA ParsePlace ==
    ASSUME Parse
    PROVE  pc \notin {"back", "scan", "done", "failed"} /\ pc' \notin {"back", "scan", "done"}
           /\ UNCHANGED <<recalled, line>>
<1>1. CASE KeywordRefused \/ KeywordWhen \/ KeywordSearch \/ NoSearchString
      BY <1>1 DEF KeywordRefused, KeywordWhen, KeywordSearch, NoSearchString, Fail, scanning
<1>2. CASE Simple \/ AbsoluteDate \/ AbsoluteTime \/ OutOfRange
      BY <1>2 DEF Simple, AbsoluteDate, AbsoluteTime, OutOfRange, Accept, Store, Fail, scanning
<1>3. CASE NextOrLast \/ Weekday \/ NoWeekday
      BY <1>3 DEF NextOrLast, Weekday, NoWeekday, Accept, Store, Fail, scanning
<1>4. CASE Sign \/ Number \/ NoNumber \/ Unit \/ Lines \/ NoUnit \/ Unparsable
      BY <1>4 DEF Sign, Number, NoNumber, Unit, Lines, NoUnit, Unparsable, Accept, Store, Fail,
                  scanning
<1> QED BY <1>1, <1>2, <1>3, <1>4 DEF Parse

LEMMA IInvStep == IInv /\ [Next]_vars => IInv'
<1> SUFFICES ASSUME IInv, [Next]_vars PROVE IInv'
    OBVIOUS
<1>0. TypeInv /\ (pc = "done" => line >= 1) /\ BackInv /\ CountInv /\ PickedInv
      BY DEF IInv
<1>1. TypeInv'
      BY <1>0, TypeStep
<1>2. (pc = "done" => line >= 1)'
      <2>1. CASE UNCHANGED <<pc, line>>
            BY <1>0, <2>1
      <2>2. CASE Parse
            BY <2>2, ParsePlace
      <2>3. CASE StartScan \/ Back \/ BackAtHead \/ Scan
            BY <2>3 DEF StartScan, Back, BackAtHead, Scan
      <2>4. CASE ScanEnds
            BY <1>0, <2>4 DEF ScanEnds, scanning, TypeInv, ScanType
      <2> QED BY <2>1, <2>2, <2>3, <2>4 DEF Next, vars, scanning
<1>3. BackInv' /\ CountInv' /\ PickedInv'
      <2>1. CASE UNCHANGED vars
            <3>1. UNCHANGED <<pc, from, to, lines, search, history, line, limit, inperiod, recalled>>
                  BY <2>1 DEF vars, options, scanning
            <3>2. /\ Asked' = Asked /\ N' = N
                  /\ \A a, b : Fitting(a, b)' = Fitting(a, b)
                  /\ \A k : AskedBelow(k)' = AskedBelow(k)
                  /\ \A k : Picked(k)' = Picked(k)
                  BY <3>1, OptionsStay
            <3> QED BY <1>0, <3>1, <3>2 DEF BackInv, CountInv, PickedInv
      <2>2. CASE Parse
            BY <1>0, <2>2, ParsePlace DEF BackInv, CountInv, PickedInv
      <2>3. CASE StartScan
            BY <1>0, <2>3, StartStep
      <2>4. CASE Back
            BY <1>0, <2>4, BackStep
      <2>5. CASE BackAtHead
            BY <1>0, <2>5, HeadStep
      <2>6. CASE Scan
            BY <1>0, <2>6, ScanCount, ScanPicked DEF BackInv, Scan
      <2>7. CASE ScanEnds
            BY <1>0, <2>7, EndStep
      <2> QED BY <2>1, <2>2, <2>3, <2>4, <2>5, <2>6, <2>7 DEF Next
<1> QED BY <1>1, <1>2, <1>3 DEF IInv

\* When a recall is done, the lines it appended are those that were asked for
\* and match, in their order and each once, for every history, also one whose
\* times go back, and every number of lines (recall_search_and_recall()).
THEOREM RecallsWhatWasAsked == Spec => []RecalledAsAsked
<1>1. Init => IInv
      <2> SUFFICES ASSUME Init PROVE IInv
          OBVIOUS
      <2>1. pc = "keywords" /\ recalled = <<>>
            BY DEF Init
      <2> QED BY <2>1, InitTypeInv DEF IInv, BackInv, CountInv, PickedInv
<1>2. IInv => RecalledAsAsked
      <2> SUFFICES ASSUME IInv, pc = "done" PROVE RecalledAsAsked
          BY DEF RecalledAsAsked
      <2>1. AskedBelow(line) = Asked
            BY DEF IInv, CountInv, AskedBelow
      <2>2. Picked(line) = {i \in Asked : search = NULL \/ Matches(search, history[i].text)}
            BY <2>1 DEF Picked, MatchesSearch
      <2> QED BY <2>1, <2>2 DEF IInv, CountInv, PickedInv, RecalledAsAsked
<1> QED BY <1>1, <1>2, IInvStep, PTL DEF Spec

-----------------------------------------------------------------------------
(* `next' and `last'.                                                      *)

LEMMA DayArithmetic ==
    ASSUME NEW t \in Int, NEW d \in Int
    PROVE  LET u == Midnight(t) + Day * d
           IN  u % Day = 0 /\ DayOf(u) = DayOf(t) + d
<1>1. Day = 86400
      BY DEF Day, Hour, Minute
<1>2. \A q \in Int : (86400 * q) % 86400 = 0 /\ (86400 * q) \div 86400 = q
      OBVIOUS
<1>3. t \div 86400 \in Int
      OBVIOUS
<1>4. 86400 * (t \div 86400) + 86400 * d = 86400 * ((t \div 86400) + d)
      BY <1>3
<1> QED BY <1>1, <1>2, <1>3, <1>4 DEF Midnight, DayOf

LEMMA WeekArithmetic ==
    ASSUME NEW n \in Int, NEW w \in 0 .. 6
    PROVE  LET f == ((w - ((n + 4) % 7) + 6) % 7) + 1
               b == ((((n + 4) % 7) - w + 6) % 7) + 1
           IN  /\ f \in 1 .. 7 /\ (n + f + 4) % 7 = w
               /\ b \in 1 .. 7 /\ (n - b + 4) % 7 = w
OBVIOUS

\* `next' and `last' go to 0:00 of the day they name, one to seven days away,
\* from every time (parse_when_absolute()).
THEOREM WeekdayIsNearest == Spec => WeekdayInWeek
<1>1. TypeInv /\ [Next]_vars => [GoesToWeekday]_vars
      <2> SUFFICES ASSUME TypeInv, Next, pc = "weekday", pc' = "timespec"
                   PROVE  /\ when' % Day = 0 /\ WeekdayOf(when') = Value
                          /\ dir * (DayOf(when') - DayOf(when)) \in 1 .. 7
          BY DEF GoesToWeekday
      <2>1. Weekday
            BY DEF Next, Parse, StartScan, Back, BackAtHead, Scan, ScanEnds, KeywordRefused,
                   KeywordWhen, KeywordSearch, NoSearchString, Simple, AbsoluteDate,
                   AbsoluteTime, OutOfRange, NextOrLast, NoWeekday, Sign, Number, NoNumber,
                   Unit, Lines, NoUnit, Unparsable, Fail
      <2>2. when' = Midnight(when) + Day * DaysTo(Value)
            BY <2>1 DEF Weekday, Accept, Store
      <2>3. Value \in 0 .. 6
            BY <2>1, ValueTypes DEF Weekday, IsAll, TypeInv, WordType
      <2>4. when \in Int /\ dir \in {-1, 1}
            BY DEF TypeInv, TimesType, ParserType
      <2>5. DaysTo(Value) \in Int
            BY <2>3, <2>4, DaysToType
      <2>6. when' % Day = 0 /\ DayOf(when') = DayOf(when) + DaysTo(Value)
            BY <2>2, <2>4, <2>5, DayArithmetic
      <2>7. DayOf(when) \in Int
            BY <2>4, MidnightType
      <2> DEFINE n == DayOf(when)
                 f == ((Value - ((n + 4) % 7) + 6) % 7) + 1
                 b == ((((n + 4) % 7) - Value + 6) % 7) + 1
      <2>8. /\ f \in 1 .. 7 /\ (n + f + 4) % 7 = Value
            /\ b \in 1 .. 7 /\ (n - b + 4) % 7 = Value
            BY <2>3, <2>7, WeekArithmetic
      <2>9. DaysTo(Value) = IF dir = 1 THEN f ELSE -b
            BY DEF DaysTo, WeekdayOf
      <2>10. WeekdayOf(when') = (DayOf(when') + 4) % 7
            BY DEF WeekdayOf
      <2> HIDE DEF n, f, b
      <2>11. n = DayOf(when) /\ n \in Int
            BY <2>7 DEF n
      <2>12. CASE dir = 1
            BY <2>3, <2>6, <2>12, <2>8, <2>9, <2>10, <2>11
      <2>13. CASE dir = -1
            BY <2>3, <2>6, <2>13, <2>8, <2>9, <2>10, <2>11
      <2> QED BY <2>4, <2>6, <2>12, <2>13
<1> QED BY <1>1, InitTypeInv, TypeStep, PTL DEF Spec, WeekdayInWeek

-----------------------------------------------------------------------------
(* Search strings.                                                         *)

LEMMA LeastExists ==
    ASSUME NEW T, T \subseteq Nat, T # {}
    PROVE  \E x \in T : \A y \in T : x <= y
<1>1. PICK x \in T : \A y \in T : <<y, x>> \notin OpToRel(<, Nat)
      BY WFMin, NatLessThanWellFounded
<1>2. \A y \in T : ~(y < x)
      BY <1>1 DEF OpToRel
<1> QED BY <1>2

LEMMA NaturalsReached ==
    ASSUME NEW T \in SUBSET Nat, 0 \in T, \A n \in T : n + 1 \in T
    PROVE  T = Nat
<1> SUFFICES ASSUME Nat \ T # {} PROVE FALSE
    OBVIOUS
<1>1. PICK x \in Nat \ T : \A y \in Nat \ T : x <= y
      BY LeastExists
<1>2. x \in Nat /\ x # 0 /\ x \notin T
      OBVIOUS
<1>3. x - 1 \in Nat /\ ~(x <= x - 1) /\ (x - 1) + 1 = x
      BY <1>2
<1>4. x - 1 \in T
      BY <1>1, <1>3
<1> QED BY <1>2, <1>3, <1>4

LEMMA SplitAtRange ==
    ASSUME NEW p \in Seq(STRING), NEW i \in 1 .. Len(p) + 2
    PROVE  SplitAt(p, i) \in i .. Len(p) - 1 \/ SplitAt(p, i) = Len(p) + 1
<1> DEFINE at == {j \in i .. Len(p) - 1 : p[j] = "." /\ p[j + 1] = "*"}
<1>1. CASE at = {}
      BY <1>1 DEF SplitAt
<1>2. CASE at # {}
      <2>1. at \subseteq Nat /\ at \subseteq i .. Len(p) - 1
            OBVIOUS
      <2>2. SplitAt(p, i) = CHOOSE j \in at : \A k \in at : j <= k
            BY <1>2 DEF SplitAt
      <2> HIDE DEF at
      <2>3. \E j \in at : \A k \in at : j <= k
            BY <1>2, <2>1, LeastExists
      <2>4. SplitAt(p, i) \in at
            BY <2>2, <2>3
      <2> QED BY <2>1, <2>4
<1> QED BY <1>1, <1>2

\* The pieces from position i on, in terms of those from a later position on.
PiecesFrom(p, f, i) ==
    LET j == SplitAt(p, i)
    IN  <<SubSeq(p, i, j - 1)>> \o (IF j > Len(p) THEN <<>> ELSE f[j + 2])

Splits(f, p, i) == f = [m \in i .. Len(p) + 2 |-> PiecesFrom(p, f, m)]

LEMMA PiecesOfSplits == ASSUME NEW p PROVE PiecesOf(p) = (CHOOSE f : Splits(f, p, 1))[1]
BY DEF PiecesOf, Splits, PiecesFrom

LEMMA SplitsExist ==
    ASSUME NEW p \in Seq(STRING)
    PROVE  \E f : Splits(f, p, 1)
<1> DEFINE n == Len(p) + 2
           T == {d \in Nat : d < n => \E f : Splits(f, p, n - d)}
<1>0. n \in Nat /\ n >= 2 /\ Len(p) \in Nat
      OBVIOUS
<1>1. ASSUME NEW f, NEW g, NEW m \in 1 .. n, \A i \in m + 1 .. n : f[i] = g[i]
      PROVE  PiecesFrom(p, f, m) = PiecesFrom(p, g, m)
      <2> DEFINE j == SplitAt(p, m)
      <2>1. j \in m .. Len(p) - 1 \/ j = Len(p) + 1
            BY SplitAtRange
      <2>2. j > Len(p) \/ j + 2 \in m + 1 .. n
            BY <1>0, <2>1
      <2>3. j > Len(p) \/ f[j + 2] = g[j + 2]
            BY <1>1, <2>2
      <2> HIDE DEF n
      <2> QED BY <2>3 DEF PiecesFrom
<1>2. 0 \in T
      <2> DEFINE f == [m \in n .. n |-> PiecesFrom(p, <<>>, n)]
      <2>1. ASSUME NEW m \in n .. n PROVE f[m] = PiecesFrom(p, f, m)
            <3>1. m = n /\ f[m] = PiecesFrom(p, <<>>, n)
                  BY <1>0
            <3>2. PiecesFrom(p, <<>>, n) = PiecesFrom(p, f, n)
                  <4> HIDE DEF f
                  <4>1. n \in 1 .. n /\ n + 1 .. n = {}
                        BY <1>0
                  <4> HIDE DEF n
                  <4> QED BY <1>1, <4>1
            <3> QED BY <3>1, <3>2
      <2>2. f = [m \in n .. n |-> f[m]]
            OBVIOUS
      <2>3. f = [m \in n .. n |-> PiecesFrom(p, f, m)]
            <3> HIDE DEF f
            <3> QED BY <2>1, <2>2
      <2>4. n - 0 = n
            BY <1>0
      <2>5. Splits(f, p, n - 0)
            BY <2>3, <2>4 DEF Splits
      <2> QED BY <2>5
<1>3. ASSUME NEW d \in T PROVE d + 1 \in T
      <2> SUFFICES ASSUME d + 1 < n PROVE \E f : Splits(f, p, n - (d + 1))
          OBVIOUS
      <2> DEFINE a == n - (d + 1)
      <2>1. d \in Nat /\ d < n /\ n - d = a + 1 /\ a \in 1 .. n
            BY <1>0
      <2>2. PICK f : Splits(f, p, a + 1)
            BY <2>1
      <2> DEFINE g == [m \in a .. n |-> IF m = a THEN PiecesFrom(p, f, a) ELSE f[m]]
      <2> HIDE DEF a, n, T
      <2>3. \A m \in a + 1 .. n : f[m] = PiecesFrom(p, f, m)
            <3>1. f = [m \in a + 1 .. n |-> PiecesFrom(p, f, m)]
                  BY <2>2 DEF Splits, n
            <3> QED BY <3>1
      <2>4. \A m \in a + 1 .. n : f[m] = g[m]
            BY <1>0, <2>1
      <2>5. ASSUME NEW m \in a .. n PROVE g[m] = PiecesFrom(p, g, m)
            <3>1. m \in 1 .. n /\ \A i \in m + 1 .. n : f[i] = g[i]
                  BY <1>0, <2>1, <2>4
            <3>2. PiecesFrom(p, f, m) = PiecesFrom(p, g, m)
                  <4> HIDE DEF g
                  <4> QED BY <1>1, <3>1
            <3>3. g[m] = PiecesFrom(p, f, m)
                  <4>1. CASE m = a
                        BY <4>1
                  <4>2. CASE m # a
                        <5>1. m \in a + 1 .. n
                              BY <1>0, <2>1, <4>2
                        <5> QED BY <2>3, <4>2, <5>1
                  <4> QED BY <4>1, <4>2
            <3> QED BY <3>2, <3>3
      <2>6. g = [m \in a .. n |-> g[m]]
            OBVIOUS
      <2>7. g = [m \in a .. n |-> PiecesFrom(p, g, m)]
            <3> HIDE DEF g
            <3> QED BY <2>5, <2>6
      <2>8. Splits(g, p, a)
            BY <2>7 DEF Splits, n
      <2> QED BY <2>8 DEF a
<1>4. T = Nat
      <2> HIDE DEF T, n
      <2>1. T \in SUBSET Nat
            BY DEF T
      <2> QED BY <1>2, <1>3, <2>1, NaturalsReached
<1>5. n - 1 \in T /\ n - 1 < n /\ n - (n - 1) = 1
      BY <1>0, <1>4
<1> HIDE DEF n
<1> QED BY <1>5

LEMMA PiecesType ==
    ASSUME NEW p \in Seq(STRING)
    PROVE  PiecesOf(p) \in Seq(Seq(STRING))
<1> DEFINE n == Len(p) + 2
           f == CHOOSE g : Splits(g, p, 1)
           S == Seq(Seq(STRING))
           T == {d \in Nat : \A i \in 1 .. n : n - i <= d => f[i] \in S}
<1>0. n \in Nat /\ n >= 2 /\ Len(p) \in Nat
      OBVIOUS
<1>1. Splits(f, p, 1)
      BY SplitsExist
<1> HIDE DEF f
<1>2. \A i \in 1 .. n : f[i] = PiecesFrom(p, f, i)
      <2>1. f = [i \in 1 .. n |-> PiecesFrom(p, f, i)]
            BY <1>1 DEF Splits
      <2> QED BY <2>1
<1>3. ASSUME NEW i \in 1 .. n, \A m \in i + 1 .. n : f[m] \in S
      PROVE  f[i] \in S
      <2> DEFINE j == SplitAt(p, i)
      <2>1. j \in i .. Len(p) - 1 \/ j = Len(p) + 1
            BY SplitAtRange
      <2>2. SubSeq(p, i, j - 1) \in Seq(STRING)
            <3>1. i \in Int /\ j - 1 \in Int /\ i >= 1 /\ j - 1 <= Len(p)
                  BY <1>0, <2>1
            <3>2. \A m \in i .. j - 1 : p[m] \in STRING
                  BY <3>1, <1>0
            <3> QED BY <3>1, <3>2, SubSeqProperties
      <2>3. j > Len(p) \/ j + 2 \in i + 1 .. n
            BY <1>0, <2>1
      <2>4. (IF j > Len(p) THEN <<>> ELSE f[j + 2]) \in S
            <3>1. <<>> \in S
                  OBVIOUS
            <3> HIDE DEF S, n, j
            <3> QED BY <1>3, <2>3, <3>1
      <2>5. <<SubSeq(p, i, j - 1)>> \in S
            <3> DEFINE piece == SubSeq(p, i, j - 1)
            <3>1. piece \in Seq(STRING)
                  BY <2>2
            <3> HIDE DEF piece
            <3>2. <<piece>> \in S
                  BY <3>1
            <3> QED BY <3>2 DEF piece
      <2>6. f[i] = <<SubSeq(p, i, j - 1)>> \o (IF j > Len(p) THEN <<>> ELSE f[j + 2])
            BY <1>2 DEF PiecesFrom
      <2> HIDE DEF j
      <2> QED BY <2>4, <2>5, <2>6, ConcatProperties
<1> HIDE DEF S
<1>4. 0 \in T
      <2>1. ASSUME NEW i \in 1 .. n, n - i <= 0 PROVE f[i] \in S
            <3>1. i + 1 .. n = {}
                  BY <1>0, <2>1
            <3> HIDE DEF n
            <3> QED BY <1>3, <3>1
      <2> HIDE DEF n
      <2> QED BY <2>1
<1>5. ASSUME NEW d \in T PROVE d + 1 \in T
      <2>1. ASSUME NEW i \in 1 .. n, n - i <= d + 1 PROVE f[i] \in S
            <3>1. ASSUME NEW m \in i + 1 .. n PROVE f[m] \in S
                  <4>1. m \in 1 .. n /\ n - m <= d
                        BY <1>0, <2>1
                  <4> QED BY <4>1
            <3> HIDE DEF n, T
            <3> QED BY <1>3, <3>1
      <2> HIDE DEF n
      <2> QED BY <2>1
<1>6. T = Nat
      <2> HIDE DEF T
      <2>1. T \in SUBSET Nat
            BY DEF T
      <2> QED BY <1>4, <1>5, <2>1, NaturalsReached
<1>7. f[1] \in S
      <2>1. 1 \in 1 .. n /\ n - 1 \in Nat /\ n - 1 <= n - 1 /\ n - 1 \in T
            BY <1>0, <1>6
      <2> HIDE DEF n
      <2> QED BY <2>1
<1> QED BY <1>7, PiecesOfSplits DEF S, f

\* The pieces from the k-th on fit somewhere from position i on.
Behind(at, pieces, text, k) ==
    \A m \in k .. Len(pieces) :
        /\ FitsAt(pieces[m], text, at[m])
        /\ m > k => at[m] >= at[m - 1] + Len(pieces[m - 1])

Somehow(pieces, text, k, i) ==
    k > Len(pieces)
      \/ \E at \in [k .. Len(pieces) -> 1 .. Len(text)] :
            at[k] >= i /\ Behind(at, pieces, text, k)

LEMMA PlaceType ==
    ASSUME NEW A, NEW L \in Nat, NEW at \in [A -> 1 .. L], NEW m \in A
    PROVE  at[m] \in Nat /\ 1 <= at[m] /\ at[m] <= L
<1>1. at[m] \in 1 .. L
      OBVIOUS
<1> QED BY <1>1

LEMMA SomehowMatches ==
    ASSUME NEW p, NEW text \in Seq(STRING), PiecesOf(p) \in Seq(Seq(STRING))
    PROVE  MatchesSomehow(p, text) <=> Somehow(PiecesOf(p), text, 1, 1)
<1> DEFINE pieces == PiecesOf(p)
           At == [1 .. Len(pieces) -> 1 .. Len(text)]
<1>1. MatchesSomehow(p, text) <=> \E at \in At : Behind(at, pieces, text, 1)
      BY DEF MatchesSomehow, Behind
<1>2. Len(pieces) \in Nat
      OBVIOUS
<1> HIDE DEF pieces
<1>3. CASE Len(pieces) = 0
      <2>1. <<>> \in At
            BY <1>3
      <2>2. Behind(<<>>, pieces, text, 1)
            BY <1>3 DEF Behind
      <2>3. MatchesSomehow(p, text)
            BY <1>1, <2>1, <2>2
      <2>4. Somehow(pieces, text, 1, 1)
            BY <1>3 DEF Somehow
      <2> QED BY <2>3, <2>4 DEF pieces
<1>4. CASE Len(pieces) >= 1
      <2>1. ASSUME NEW at \in At PROVE at[1] >= 1
            <3>1. 1 \in 1 .. Len(pieces) /\ Len(text) \in Nat
                  BY <1>2, <1>4
            <3>2. at[1] \in Nat /\ 1 <= at[1]
                  BY <3>1, PlaceType
            <3> QED BY <3>2
      <2>2. Somehow(pieces, text, 1, 1) <=> \E at \in At : Behind(at, pieces, text, 1)
            <3>1. ~(1 > Len(pieces))
                  BY <1>2, <1>4
            <3> HIDE DEF At
            <3>2. Somehow(pieces, text, 1, 1)
                    <=> \E at \in At : at[1] >= 1 /\ Behind(at, pieces, text, 1)
                  BY <3>1 DEF Somehow, At
            <3> QED BY <2>1, <3>2
      <2> QED BY <1>1, <2>2 DEF pieces
<1> QED BY <1>2, <1>3, <1>4

\* Taking the first place loses nothing: whatever else fits fits behind it.
LEMMA FirstPlace ==
    ASSUME NEW pieces \in Seq(Seq(STRING)), NEW text \in Seq(STRING),
           NEW k \in 1 .. Len(pieces), NEW i \in 1 .. Len(text), pieces[k] # <<>>,
           FitsAt(pieces[k], text, i)
    PROVE  /\ i + Len(pieces[k]) \in i + 1 .. Len(text) + 1
           /\ Somehow(pieces, text, k, i) <=> Somehow(pieces, text, k + 1, i + Len(pieces[k]))
<1> DEFINE K == Len(pieces)
           L == Len(text)
           next == i + Len(pieces[k])
<1>1. K \in Nat /\ L \in Nat /\ Len(pieces[k]) \in Nat /\ Len(pieces[k]) >= 1
      OBVIOUS
<1>2. next \in i + 1 .. L + 1
      BY <1>1 DEF FitsAt
<1>3. ASSUME Somehow(pieces, text, k, i) PROVE Somehow(pieces, text, k + 1, next)
      <2> SUFFICES ASSUME k + 1 <= K PROVE Somehow(pieces, text, k + 1, next)
          BY <1>1 DEF Somehow
      <2>1. PICK at \in [k .. K -> 1 .. L] : at[k] >= i /\ Behind(at, pieces, text, k)
            BY <1>1, <1>3 DEF Somehow
      <2> DEFINE t == [m \in k + 1 .. K |-> at[m]]
      <2>2. t \in [k + 1 .. K -> 1 .. L] /\ \A m \in k + 1 .. K : t[m] = at[m]
            OBVIOUS
      <2> HIDE DEF t
      <2>3. k + 1 \in k .. K /\ k \in k .. K /\ k + 1 > k /\ (k + 1) - 1 = k
            BY <1>1
      <2>8. at[k] \in Nat /\ at[k + 1] \in Nat
            BY <1>1, <2>3, PlaceType
      <2>4. at[k + 1] >= at[k] + Len(pieces[k])
            BY <2>1, <2>3 DEF Behind
      <2>5. t[k + 1] >= next
            <3>1. t[k + 1] = at[k + 1]
                  BY <1>1, <2>2
            <3> QED BY <1>1, <2>1, <2>4, <2>8, <3>1
      <2>6. Behind(t, pieces, text, k + 1)
            <3> SUFFICES ASSUME NEW m \in k + 1 .. K
                         PROVE  /\ FitsAt(pieces[m], text, t[m])
                                /\ m > k + 1 => t[m] >= t[m - 1] + Len(pieces[m - 1])
                BY DEF Behind
            <3>1. m \in k .. K /\ m > k
                  BY <1>1
            <3>2. FitsAt(pieces[m], text, at[m]) /\ at[m] >= at[m - 1] + Len(pieces[m - 1])
                  BY <2>1, <3>1 DEF Behind
            <3>3. t[m] = at[m] /\ (m > k + 1 => t[m - 1] = at[m - 1])
                  BY <1>1, <2>2
            <3> QED BY <3>2, <3>3
      <2> QED BY <2>2, <2>5, <2>6 DEF Somehow
<1>4. ASSUME Somehow(pieces, text, k + 1, next) PROVE Somehow(pieces, text, k, i)
      <2>1. \/ k = K
            \/ k < K /\ \E at \in [k + 1 .. K -> 1 .. L] :
                            at[k + 1] >= next /\ Behind(at, pieces, text, k + 1)
            BY <1>1, <1>4 DEF Somehow
      <2>2. CASE k = K
            <3> DEFINE t == [m \in k .. K |-> i]
            <3>1. t \in [k .. K -> 1 .. L] /\ t[k] = i /\ \A m \in k .. K : m = k
                  BY <2>2
            <3> HIDE DEF t
            <3>2. Behind(t, pieces, text, k)
                  BY <3>1 DEF Behind
            <3>3. t[k] >= i
                  BY <3>1
            <3> QED BY <3>1, <3>2, <3>3 DEF Somehow
      <2>3. CASE k < K
            <3>1. PICK at \in [k + 1 .. K -> 1 .. L] :
                      at[k + 1] >= next /\ Behind(at, pieces, text, k + 1)
                  BY <2>1, <2>3
            <3> DEFINE t == [m \in k .. K |-> IF m = k THEN i ELSE at[m]]
            <3>2. /\ t \in [k .. K -> 1 .. L] /\ t[k] = i
                  /\ \A m \in k + 1 .. K : t[m] = at[m]
                  BY <1>1, <2>3
            <3> HIDE DEF t
            <3>3. Behind(t, pieces, text, k)
                  <4> SUFFICES ASSUME NEW m \in k .. K
                               PROVE  /\ FitsAt(pieces[m], text, t[m])
                                      /\ m > k => t[m] >= t[m - 1] + Len(pieces[m - 1])
                      BY DEF Behind
                  <4>1. CASE m = k
                        BY <3>2, <4>1
                  <4>2. CASE m = k + 1
                        <5>1. t[m] = at[k + 1] /\ t[m - 1] = i /\ m - 1 = k /\ k + 1 \in k + 1 .. K
                              BY <1>1, <2>3, <3>2, <4>2
                        <5>2. FitsAt(pieces[k + 1], text, at[k + 1])
                              BY <3>1, <5>1 DEF Behind
                        <5> QED BY <3>1, <4>2, <5>1, <5>2
                  <4>3. CASE m > k + 1
                        <5>1. m \in k + 1 .. K /\ m - 1 \in k + 1 .. K
                              BY <1>1, <4>3
                        <5>2. FitsAt(pieces[m], text, at[m])
                              /\ at[m] >= at[m - 1] + Len(pieces[m - 1])
                              BY <3>1, <4>3, <5>1 DEF Behind
                        <5>3. t[m] = at[m] /\ t[m - 1] = at[m - 1]
                              BY <3>2, <5>1
                        <5> QED BY <5>2, <5>3
                  <4> QED BY <1>1, <4>1, <4>2, <4>3
            <3>4. t[k] >= i
                  BY <3>2
            <3> QED BY <3>2, <3>3, <3>4 DEF Somehow
      <2> QED BY <1>1, <2>2, <2>3
<1> QED BY <1>2, <1>3, <1>4

LEMMA NextPlace ==
    ASSUME NEW pieces \in Seq(Seq(STRING)), NEW text \in Seq(STRING),
           NEW k \in 1 .. Len(pieces), NEW i \in 1 .. Len(text),
           ~FitsAt(pieces[k], text, i)
    PROVE  Somehow(pieces, text, k, i) <=> Somehow(pieces, text, k, i + 1)
<1>1. Len(pieces) \in Nat /\ Len(text) \in Nat /\ k \in k .. Len(pieces) /\ ~(k > Len(pieces))
      OBVIOUS
<1>2. ASSUME NEW at \in [k .. Len(pieces) -> 1 .. Len(text)], Behind(at, pieces, text, k)
      PROVE  at[k] >= i <=> at[k] >= i + 1
      <2>1. FitsAt(pieces[k], text, at[k])
            BY <1>1, <1>2 DEF Behind
      <2>2. at[k] # i /\ at[k] \in Nat
            BY <1>1, <1>2, <2>1, PlaceType
      <2> QED BY <1>1, <2>2
<1> QED BY <1>1, <1>2 DEF Somehow

LEMMA NoPlace ==
    ASSUME NEW pieces \in Seq(Seq(STRING)), NEW text \in Seq(STRING),
           NEW k \in 1 .. Len(pieces)
    PROVE  ~Somehow(pieces, text, k, Len(text) + 1)
<1>1. Len(pieces) \in Nat /\ Len(text) \in Nat /\ k \in k .. Len(pieces) /\ ~(k > Len(pieces))
      OBVIOUS
<1>2. ASSUME NEW at \in [k .. Len(pieces) -> 1 .. Len(text)]
      PROVE  ~(at[k] >= Len(text) + 1)
      <2>1. at[k] \in Nat /\ at[k] <= Len(text)
            BY <1>1, PlaceType
      <2> QED BY <1>1, <2>1
<1> QED BY <1>1, <1>2 DEF Somehow

\* One turn of recall_match(), at the k-th piece and position i.
Turn(f, pieces, text, k, i) ==
    \/ k > Len(pieces) \/ pieces[k] = <<>>
    \/ /\ i <= Len(text)
       /\ IF FitsAt(pieces[k], text, i)
             THEN f[<<k + 1, i + Len(pieces[k])>>]
             ELSE f[<<k, i + 1>>]

Grid(pieces, text) == (1 .. Len(pieces) + 1) \X (1 .. Len(text) + 1)
Runs(f, pieces, text) ==
    f = [at \in Grid(pieces, text) |-> Turn(f, pieces, text, at[1], at[2])]

LEMMA MatchesRuns ==
    ASSUME NEW p, NEW text
    PROVE  Matches(p, text) = (CHOOSE f : Runs(f, PiecesOf(p), text))[<<1, 1>>]
BY DEF Matches, Runs, Turn, Grid

LEMMA TurnIsSomehow ==
    ASSUME NEW pieces \in Seq(Seq(STRING)), NEW text \in Seq(STRING),
           \A k \in 1 .. Len(pieces) : pieces[k] # <<>>,
           NEW f, NEW k \in 1 .. Len(pieces) + 1, NEW i \in 1 .. Len(text) + 1,
           \A m \in 1 .. Len(pieces) + 1, j \in i + 1 .. Len(text) + 1 :
              f[<<m, j>>] <=> Somehow(pieces, text, m, j)
    PROVE  Turn(f, pieces, text, k, i) <=> Somehow(pieces, text, k, i)
<1>1. Len(pieces) \in Nat /\ Len(text) \in Nat
      OBVIOUS
<1>2. CASE k > Len(pieces)
      BY <1>2 DEF Turn, Somehow
<1>3. CASE k \in 1 .. Len(pieces) /\ i = Len(text) + 1
      <2>1. ~(i <= Len(text)) /\ ~(k > Len(pieces)) /\ pieces[k] # <<>>
            BY <1>1, <1>3
      <2>2. ~Turn(f, pieces, text, k, i)
            BY <2>1 DEF Turn
      <2>3. ~Somehow(pieces, text, k, i)
            BY <1>3, NoPlace
      <2> QED BY <2>2, <2>3
<1>4. CASE k \in 1 .. Len(pieces) /\ i \in 1 .. Len(text)
      <2>1. i <= Len(text) /\ ~(k > Len(pieces)) /\ pieces[k] # <<>>
            BY <1>1, <1>4
      <2>2. CASE FitsAt(pieces[k], text, i)
            <3> DEFINE j == i + Len(pieces[k])
            <3>1. j \in i + 1 .. Len(text) + 1
                  BY <1>4, <2>1, <2>2, FirstPlace
            <3>2. Somehow(pieces, text, k, i) <=> Somehow(pieces, text, k + 1, j)
                  BY <1>4, <2>1, <2>2, FirstPlace
            <3>3. Turn(f, pieces, text, k, i) <=> f[<<k + 1, j>>]
                  BY <2>1, <2>2 DEF Turn
            <3>4. k + 1 \in 1 .. Len(pieces) + 1
                  BY <1>1, <1>4
            <3> HIDE DEF j
            <3>5. f[<<k + 1, j>>] <=> Somehow(pieces, text, k + 1, j)
                  BY <3>1, <3>4
            <3> QED BY <3>2, <3>3, <3>5
      <2>3. CASE ~FitsAt(pieces[k], text, i)
            <3>1. i + 1 \in i + 1 .. Len(text) + 1
                  BY <1>1, <1>4
            <3>2. Somehow(pieces, text, k, i) <=> Somehow(pieces, text, k, i + 1)
                  BY <1>4, <2>3, NextPlace
            <3>3. Turn(f, pieces, text, k, i) <=> f[<<k, i + 1>>]
                  BY <2>1, <2>3 DEF Turn
            <3>4. f[<<k, i + 1>>] <=> Somehow(pieces, text, k, i + 1)
                  BY <3>1
            <3> QED BY <3>2, <3>3, <3>4
      <2> QED BY <2>2, <2>3
<1> QED BY <1>1, <1>2, <1>3, <1>4

LEMMA RunsExist ==
    ASSUME NEW pieces \in Seq(Seq(STRING)), NEW text \in Seq(STRING),
           \A k \in 1 .. Len(pieces) : pieces[k] # <<>>
    PROVE  \E f : Runs(f, pieces, text)
<1> DEFINE K == 1 .. Len(pieces) + 1
           I == 1 .. Len(text) + 1
           g == [at \in Grid(pieces, text) |-> Somehow(pieces, text, at[1], at[2])]
<1>1. Grid(pieces, text) = K \X I
      BY DEF Grid
<1>2. ASSUME NEW m \in K, NEW j \in I
      PROVE  g[<<m, j>>] <=> Somehow(pieces, text, m, j)
      <2>1. <<m, j>> \in Grid(pieces, text) /\ <<m, j>>[1] = m /\ <<m, j>>[2] = j
            BY <1>1
      <2> QED BY <2>1
<1>3. ASSUME NEW k \in K, NEW i \in I
      PROVE  Turn(g, pieces, text, k, i) <=> Somehow(pieces, text, k, i)
      <2>1. \A j \in i + 1 .. Len(text) + 1 : j \in I
            OBVIOUS
      <2> HIDE DEF g
      <2>2. \A m \in K, j \in i + 1 .. Len(text) + 1 :
               g[<<m, j>>] <=> Somehow(pieces, text, m, j)
            BY <1>2, <2>1
      <2> QED BY <2>2, TurnIsSomehow
<1>4. ASSUME NEW at \in Grid(pieces, text)
      PROVE  Turn(g, pieces, text, at[1], at[2]) <=> Somehow(pieces, text, at[1], at[2])
      <2>1. at[1] \in K /\ at[2] \in I
            BY <1>1
      <2> HIDE DEF g, K, I
      <2> QED BY <1>3, <2>1
<1>5. g = [at \in Grid(pieces, text) |-> Turn(g, pieces, text, at[1], at[2])]
      <2> DEFINE Left(at) == Somehow(pieces, text, at[1], at[2])
                 Right(at) == Turn(g, pieces, text, at[1], at[2])
      <2>1. \A at \in Grid(pieces, text) : Left(at) = Right(at)
            BY <1>4 DEF Somehow, Turn
      <2>2. g = [at \in Grid(pieces, text) |-> Left(at)]
            OBVIOUS
      <2> HIDE DEF g, Left, Right
      <2>3. g = [at \in Grid(pieces, text) |-> Right(at)]
            BY <2>1, <2>2
      <2> QED BY <2>3 DEF Right
<1>6. Runs(g, pieces, text)
      <2> HIDE DEF g
      <2> QED BY <1>5 DEF Runs
<1> HIDE DEF g
<1> QED BY <1>6

\* The run over a line ends at the last position, so it is told from there.
LEMMA RunIsSomehow ==
    ASSUME NEW pieces \in Seq(Seq(STRING)), NEW text \in Seq(STRING),
           \A k \in 1 .. Len(pieces) : pieces[k] # <<>>,
           NEW f, Runs(f, pieces, text)
    PROVE  f[<<1, 1>>] <=> Somehow(pieces, text, 1, 1)
<1> DEFINE K == 1 .. Len(pieces) + 1
           n == Len(text) + 1
           T == {d \in Nat : \A m \in K, j \in 1 .. n :
                                n - j <= d => (f[<<m, j>>] <=> Somehow(pieces, text, m, j))}
<1>0. n \in Nat /\ n >= 1 /\ Len(pieces) \in Nat
      OBVIOUS
<1>1. ASSUME NEW k \in K, NEW i \in 1 .. n
      PROVE  f[<<k, i>>] <=> Turn(f, pieces, text, k, i)
      <2>1. <<k, i>> \in Grid(pieces, text) /\ <<k, i>>[1] = k /\ <<k, i>>[2] = i
            BY DEF Grid
      <2>2. f = [at \in Grid(pieces, text) |-> Turn(f, pieces, text, at[1], at[2])]
            BY DEF Runs
      <2>3. f[<<k, i>>] = Turn(f, pieces, text, <<k, i>>[1], <<k, i>>[2])
            BY <2>1, <2>2
      <2> QED BY <2>1, <2>3
<1>2. ASSUME NEW k \in K, NEW i \in 1 .. n,
             \A m \in K, j \in i + 1 .. n : f[<<m, j>>] <=> Somehow(pieces, text, m, j)
      PROVE  f[<<k, i>>] <=> Somehow(pieces, text, k, i)
      BY <1>1, <1>2, TurnIsSomehow
<1>3. 0 \in T
      <2>1. ASSUME NEW m \in K, NEW j \in 1 .. n, n - j <= 0
            PROVE  f[<<m, j>>] <=> Somehow(pieces, text, m, j)
            <3>1. j + 1 .. n = {}
                  BY <1>0, <2>1
            <3> HIDE DEF n, K
            <3> QED BY <1>2, <3>1
      <2> HIDE DEF n, K
      <2> QED BY <2>1
<1>4. ASSUME NEW d \in T PROVE d + 1 \in T
      <2>1. ASSUME NEW k \in K, NEW i \in 1 .. n, n - i <= d + 1
            PROVE  f[<<k, i>>] <=> Somehow(pieces, text, k, i)
            <3>1. ASSUME NEW m \in K, NEW j \in i + 1 .. n
                  PROVE  f[<<m, j>>] <=> Somehow(pieces, text, m, j)
                  <4>1. j \in 1 .. n /\ n - j <= d
                        BY <1>0, <2>1
                  <4> QED BY <4>1
            <3> HIDE DEF n, K, T
            <3> QED BY <1>2, <3>1
      <2> HIDE DEF n, K
      <2> QED BY <2>1
<1>5. T = Nat
      <2> HIDE DEF T
      <2>1. T \in SUBSET Nat
            BY DEF T
      <2> QED BY <1>3, <1>4, <2>1, NaturalsReached
<1>6. n - 1 \in T
      <2> HIDE DEF T
      <2> QED BY <1>0, <1>5
<1>7. 1 \in K /\ 1 \in 1 .. n /\ n - 1 <= n - 1
      BY <1>0
<1> HIDE DEF K, n
<1> QED BY <1>6, <1>7

\* Taking each piece of a search string where it first fits finds a line
\* exactly if the pieces fit it somehow, for all strings and all lines
\* (recall_match()).
THEOREM FirstFitFinds == Spec => []SearchAsDocumented
<1>1. TypeInv => SearchAsDocumented
      <2> SUFFICES ASSUME TypeInv, search # NULL,
                          \A k \in 1 .. Len(PiecesOf(search)) : PiecesOf(search)[k] # <<>>,
                          NEW i \in 1 .. Len(history)
                   PROVE  Matches(search, history[i].text)
                            <=> MatchesSomehow(search, history[i].text)
          BY DEF SearchAsDocumented
      <2> DEFINE text == history[i].text
                 pieces == PiecesOf(search)
                 f == CHOOSE g : Runs(g, pieces, text)
      <2>1. search \in Seq(STRING)
            BY TypeInvTypeOK, PatternsAssumption DEF TypeOK
      <2>2. text \in Seq(STRING)
            <3> DEFINE Rows == [time : Int, text : Seq(STRING)]
            <3>1. history \in Seq(Rows)
                  BY TypeInvTypeOK, HistoriesAssumption DEF TypeOK
            <3>2. history[i] \in Rows
                  <4> HIDE DEF Rows
                  <4> QED BY <3>1, ElementOfSeq
            <3> QED BY <3>2
      <2>3. pieces \in Seq(Seq(STRING))
            BY <2>1, PiecesType
      <2>4. Matches(search, text) = f[<<1, 1>>]
            BY MatchesRuns
      <2>5. \A k \in 1 .. Len(pieces) : pieces[k] # <<>>
            OBVIOUS
      <2>6. MatchesSomehow(search, text) <=> Somehow(pieces, text, 1, 1)
            BY <2>2, <2>3, SomehowMatches
      <2> HIDE DEF text, pieces
      <2>7. Runs(f, pieces, text)
            BY <2>2, <2>3, <2>5, RunsExist
      <2> HIDE DEF f
      <2>8. f[<<1, 1>>] <=> Somehow(pieces, text, 1, 1)
            BY <2>2, <2>3, <2>5, <2>7, RunIsSomehow
      <2> QED BY <2>4, <2>6, <2>8 DEF text
<1> QED BY <1>1, InitTypeInv, TypeStep, PTL DEF Spec

-----------------------------------------------------------------------------
(* A recall comes to its end.                                              *)

\* The loops of the command, each of which is left for a later one only.
Loop ==
    CASE pc \in {"keywords", "timespec", "weekday", "number", "unit"} -> 1
      [] pc = "back" -> 2
      [] pc = "scan" -> 3
      [] pc \in {"done", "failed"} -> 4

\* The parser takes a word or a part of one, or goes back to the keywords.
WordTaken ==
    \/ words < MaxWords /\ words' = words + 1
    \/ words' = words /\ Len(word') < Len(word)
BackToKeywords == pc = "timespec" /\ pc' = "keywords" /\ UNCHANGED <<word, words>>

Advances ==
    \/ Loop < Loop'
    \/ Loop = Loop' /\ CASE Loop = 1 -> WordTaken \/ BackToKeywords
                         [] Loop = 2 -> line' = line - 1 /\ line' >= 0
                         [] Loop = 3 -> line' = line + 1 /\ line' <= Len(history) + 1
                         [] OTHER    -> FALSE

LEMMA WordIsTaken ==
    ASSUME word \in Seq(Pieces), word # End
    PROVE  (NextWord => WordTaken) /\ (Continue => WordTaken)
<1>1. Len(word) \in Nat /\ Len(word) >= 1 /\ Len(Tail(word)) = Len(word) - 1
      BY HeadTailProperties DEF End
<1>2. NextWord => WordTaken
      BY <1>1 DEF NextWord, WordTaken, End
<1>3. Continue => WordTaken
      BY <1>1, <1>2 DEF Continue, WordTaken
<1> QED BY <1>2, <1>3

LEMMA ParseAdvances == TypeInv /\ Parse => Advances
<1> SUFFICES ASSUME TypeInv, Parse PROVE Advances
    OBVIOUS
<1>1. word \in Seq(Pieces)
      BY DEF TypeInv, WordType
<1> DEFINE Parsing == {"keywords", "timespec", "weekday", "number", "unit"}
<1>2. pc \in Parsing => Loop = 1
      BY DEF Loop
<1>3. pc' \in Parsing => Loop' = 1
      BY DEF Loop
<1>4. pc' \in {"done", "failed"} => Loop' = 4
      BY DEF Loop
<1>5. ASSUME pc \in Parsing, pc' \in Parsing, WordTaken \/ BackToKeywords PROVE Advances
      BY <1>2, <1>3, <1>5 DEF Advances
<1>6. ASSUME pc \in Parsing, pc' = "failed" PROVE Advances
      BY <1>2, <1>4, <1>6 DEF Advances
<1>7. CASE KeywordRefused \/ NoSearchString \/ OutOfRange \/ NoWeekday \/ NoNumber \/ NoUnit
      BY <1>6, <1>7 DEF KeywordRefused, NoSearchString, OutOfRange, NoWeekday, NoNumber, NoUnit,
                        Fail
<1>8. CASE Unparsable
      <2>1. pc = "timespec" /\ (pc' = "failed" \/ BackToKeywords)
            BY <1>8 DEF Unparsable, Fail, BackToKeywords
      <2> QED BY <1>5, <1>6, <2>1 DEF BackToKeywords
<1>9. CASE KeywordSearch
      <2>1. Is("keyword") /\ word' = End /\ words' = words /\ pc = "keywords" /\ pc' = "keywords"
            BY <1>9 DEF KeywordSearch, Permitted, IsAll
      <2>2. Len(word) \in Nat /\ Len(word) >= 1 /\ Len(End) = 0
            BY <1>1, <2>1 DEF Is, End
      <2>3. WordTaken
            BY <2>1, <2>2 DEF WordTaken
      <2> QED BY <1>5, <2>1, <2>3
<1>10. CASE KeywordWhen \/ NextOrLast \/ Sign \/ Number \/ Lines
       <2>1. word # End
             BY <1>10 DEF KeywordWhen, Permitted, NextOrLast, Sign, Number, Lines, IsAll, Is
       <2>2. NextWord \/ Continue
             BY <1>10 DEF KeywordWhen, NextOrLast, Sign, Number, Lines
       <2>3. pc \in Parsing /\ pc' \in Parsing
             BY <1>10 DEF KeywordWhen, NextOrLast, Sign, Number, Lines
       <2> QED BY <1>1, <1>5, <2>1, <2>2, <2>3, WordIsTaken
<1>11. CASE Simple \/ AbsoluteDate \/ AbsoluteTime \/ Weekday \/ Unit
       <2>1. word # End
             BY <1>11 DEF Simple, AbsoluteDate, AbsoluteTime, Weekday, Unit, IsAll, Is
       <2>2. pc \in Parsing /\ \E t : Accept(t)
             BY <1>11 DEF Simple, AbsoluteDate, AbsoluteTime, Weekday, Unit
       <2>3. NextWord /\ pc' \in Parsing
             BY <2>2 DEF Accept, Store
       <2> QED BY <1>1, <1>5, <2>1, <2>2, <2>3, WordIsTaken
<1> QED BY <1>7, <1>8, <1>9, <1>10, <1>11 DEF Parse

LEMMA ScanAdvances ==
    TypeInv /\ (StartScan \/ Back \/ BackAtHead \/ Scan \/ ScanEnds) => Advances
<1> SUFFICES ASSUME TypeInv, StartScan \/ Back \/ BackAtHead \/ Scan \/ ScanEnds PROVE Advances
    OBVIOUS
<1>1. line \in 0 .. Len(history) + 1 /\ Len(history) \in Nat
      BY HistoryType DEF TypeInv, ScanType
<1>2. CASE StartScan
      <2>1. pc = "keywords" /\ pc' \in {"back", "scan"}
            BY <1>2 DEF StartScan
      <2>2. Loop = 1 /\ Loop' \in {2, 3}
            BY <2>1 DEF Loop
      <2> QED BY <2>2 DEF Advances
<1>3. CASE Back
      <2>1. pc = "back" /\ (pc' = "scan" \/ (pc' = "back" /\ line' = line - 1 /\ line' >= 0))
            BY <1>1, <1>3 DEF Back
      <2>2. Loop = 2 /\ (pc' = "scan" => Loop' = 3) /\ (pc' = "back" => Loop' = 2)
            BY <2>1 DEF Loop
      <2> QED BY <2>1, <2>2 DEF Advances
<1>4. CASE BackAtHead
      <2>1. pc = "back" /\ pc' = "scan"
            BY <1>4 DEF BackAtHead
      <2>2. Loop = 2 /\ Loop' = 3
            BY <2>1 DEF Loop
      <2> QED BY <2>2 DEF Advances
<1>5. CASE Scan
      <2>1. pc = "scan" /\ pc' = "scan" /\ line' = line + 1 /\ line' <= Len(history) + 1
            BY <1>1, <1>5 DEF Scan
      <2>2. Loop = 3 /\ Loop' = 3
            BY <2>1 DEF Loop
      <2> QED BY <2>1, <2>2 DEF Advances
<1>6. CASE ScanEnds
      <2>1. pc = "scan" /\ pc' = "done"
            BY <1>6 DEF ScanEnds
      <2>2. Loop = 3 /\ Loop' = 4
            BY <2>1 DEF Loop
      <2> QED BY <2>2 DEF Advances
<1> QED BY <1>2, <1>3, <1>4, <1>5, <1>6

\* Every step of a recall takes a word, or moves on in the history, or leaves a
\* loop for a later one, so that none of its loops can go on for ever, for any
\* arguments and any history (parse_arguments(), recall_search_and_recall()).
THEOREM StepsAdvance == Spec => [][Advances]_vars
<1>1. TypeInv /\ [Next]_vars => [Advances]_vars
      BY ParseAdvances, ScanAdvances DEF Next
<1> QED BY <1>1, InitTypeInv, TypeStep, PTL DEF Spec
=============================================================================
