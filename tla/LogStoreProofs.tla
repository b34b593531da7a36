--------------------------- MODULE LogStoreProofs ---------------------------
(***************************************************************************)
(* Proofs about LogStore, for any number of lines, days and failures, any  *)
(* size of the buffer and any values of logbuffer_size.                    *)
(***************************************************************************)
EXTENDS LogStore, SequenceTheorems, TLAPS

USE BoundsAssumption, BufferAssumption, ClockAssumption

-----------------------------------------------------------------------------
(* Lemmas about sequences.                                                 *)

\* A function on 1 .. n is a sequence.
LEMMA FunctionIsSeq ==
    ASSUME NEW S, NEW n \in Nat, NEW f \in [1 .. n -> S]
    PROVE  f \in Seq(S) /\ Len(f) = n
  BY SeqDef

\* What linequeue_popend() leaves.
LEMMA FrontOfSeq ==
    ASSUME NEW S, NEW q \in Seq(S), NEW n \in 0 .. Len(q)
    PROVE  /\ Front(q, n) \in Seq(S) /\ Len(Front(q, n)) = n
           /\ \A i \in 1 .. n : Front(q, n)[i] = q[i]
<1>1. \A i \in 1 .. n : q[i] \in S
  BY LenProperties, ElementOfSeq
<1>2. QED
  BY <1>1, SubSeqProperties, LenProperties DEF Front

\* What linequeue_pop() leaves.
LEMMA BeyondOfSeq ==
    ASSUME NEW S, NEW q \in Seq(S), NEW n \in 0 .. Len(q)
    PROVE  /\ Beyond(q, n) \in Seq(S) /\ Len(Beyond(q, n)) = Len(q) - n
           /\ \A i \in 1 .. Len(q) - n : Beyond(q, n)[i] = q[n + i]
<1>1. n \in Nat /\ Len(q) \in Nat /\ n <= Len(q)
  BY LenProperties
<1>2. \A i \in n + 1 .. Len(q) : q[i] \in S
  BY <1>1, ElementOfSeq
<1>3. /\ SubSeq(q, n + 1, Len(q)) \in Seq(S)
      /\ Len(SubSeq(q, n + 1, Len(q))) = IF n + 1 <= Len(q) THEN Len(q) - (n + 1) + 1 ELSE 0
      /\ \A i \in 1 .. Len(q) - (n + 1) + 1 : SubSeq(q, n + 1, Len(q))[i] = q[n + 1 + i - 1]
  BY <1>1, <1>2, SubSeqProperties
<1>4. \A i \in 1 .. Len(q) - n : n + 1 + i - 1 = n + i /\ i \in 1 .. Len(q) - (n + 1) + 1
  BY <1>1
<1>5. \A i \in 1 .. Len(q) - n : Beyond(q, n)[i] = q[n + i]
  BY <1>3, <1>4 DEF Beyond
<1>6. QED
  BY <1>1, <1>3, <1>5 DEF Beyond

\* Whatever holds of every element of two sequences holds of those of their
\* concatenation: stated for the range.
LEMMA ConcatElements ==
    ASSUME NEW S, NEW T, NEW q \in Seq(S), NEW r \in Seq(S),
           \A i \in DOMAIN q : q[i] \in T, \A i \in DOMAIN r : r[i] \in T
    PROVE  \A i \in DOMAIN (q \o r) : (q \o r)[i] \in T
<1>1. q \o r \in Seq(S) /\ Len(q \o r) = Len(q) + Len(r)
  BY ConcatProperties
<1>2. DOMAIN (q \o r) = 1 .. Len(q) + Len(r) /\ Len(q) \in Nat /\ Len(r) \in Nat
  BY <1>1, LenProperties
<1>3. DOMAIN q = 1 .. Len(q) /\ DOMAIN r = 1 .. Len(r)
  BY LenProperties
<1>4. ASSUME NEW i \in 1 .. Len(q) + Len(r)
      PROVE  (q \o r)[i] \in T
  <2>1. (q \o r)[i] = IF i <= Len(q) THEN q[i] ELSE r[i - Len(q)]
    BY <1>1, <1>2, ConcatProperties
  <2>2. i <= Len(q) => i \in DOMAIN q
    BY <1>2, <1>3
  <2>3. ~(i <= Len(q)) => i - Len(q) \in DOMAIN r
    BY <1>2, <1>3
  <2>4. QED
    BY <2>1, <2>2, <2>3
<1>5. QED
  BY <1>2, <1>4

\* flush_buffer() never puts more in the buffer than it has room for, nor more
\* than there is.
LEMMA FillFits ==
    ASSUME QueuesOK
    PROVE  /\ Moved \in 0 .. Len(log_current)
           /\ Filled \in Seq(LogLine)
           /\ Len(Filled) = Len(log_buffer) + Moved
           /\ Len(Filled) <= LogBufferLen
<1>1. Len(log_current) \in Nat /\ Len(log_buffer) \in Nat
  BY LenProperties DEF QueuesOK
<1>2. Moved \in 0 .. Len(log_current) /\ Len(log_buffer) + Moved <= LogBufferLen
  BY <1>1 DEF QueuesOK, Moved, Room, Least
<1>3. Front(log_current, Moved) \in Seq(LogLine) /\ Len(Front(log_current, Moved)) = Moved
  BY <1>2, FrontOfSeq DEF QueuesOK
<1>4. Filled \in Seq(LogLine) /\ Len(Filled) = Len(log_buffer) + Moved
  BY <1>3, ConcatProperties DEF QueuesOK, Filled
<1>5. QED
  BY <1>2, <1>4

\* The trim keeps no more than there is.
LEMMA KeptIsThere ==
    ASSUME ControlOK, QueuesOK
    PROVE  /\ KeptOfCurrent \in 0 .. Len(log_current)
           /\ KeptOfQueue \in 0 .. Len(log_queue)
<1>1. Len(log_current) \in Nat /\ Len(log_queue) \in Nat /\ logbuffer_size \in Nat
  BY LenProperties DEF QueuesOK, ControlOK
<1>2. KeptOfCurrent \in 0 .. Len(log_current) /\ KeptOfCurrent <= logbuffer_size
  BY <1>1 DEF KeptOfCurrent, Least
<1>3. logbuffer_size - KeptOfCurrent \in Nat
  BY <1>1, <1>2
<1>4. QED
  BY <1>1, <1>2, <1>3 DEF KeptOfQueue, Least

\* world_log_line() makes one copy of each line.
LEMMA NumberedLines ==
    ASSUME NEW q \in Seq(Line), NEW last \in Nat
    PROVE  /\ Numbered(q, last) \in Seq(LogLine)
           /\ Len(Numbered(q, last)) = Len(q)
           /\ \A i \in 1 .. Len(q) : Numbered(q, last)[i] = [id |-> last + i, line |-> q[i]]
<1>1. Len(q) \in Nat /\ DOMAIN q = 1 .. Len(q) /\ \A i \in 1 .. Len(q) : q[i] \in Line
  BY LenProperties, ElementOfSeq
<1>2. \A i \in 1 .. Len(q) : [id |-> last + i, line |-> q[i]] \in LogLine
  BY <1>1 DEF LogLine
<1>3. Numbered(q, last) \in [1 .. Len(q) -> LogLine]
  BY <1>1, <1>2 DEF Numbered
<1>4. QED
  BY <1>1, <1>3, FunctionIsSeq DEF Numbered

LEMMA CheckpointIsLine ==
    ASSUME NEW d \in Days, NEW t \in Days
    PROVE  Checkpoint(d, t) \in Line
  BY DEF Checkpoint, Line

-----------------------------------------------------------------------------
(* Every variable has its type.                                            *)

\* The scalar variables, one lemma per phase of a pass.
LEMMA ControlInput ==
    ASSUME TypeOK,
           NetworkDone \/ TickDay \/ TickSecond \/ Dispatch \/ LineArrives \/ CommandsDone \/ Merge
    PROVE  ControlOK'
<1> USE DEF TypeOK, ControlOK, Phase, settings, links, bounds, file
<1>1. CASE NetworkDone
  BY <1>1 DEF NetworkDone
<1>2. CASE TickDay
  BY <1>2 DEF TickDay, Flag
<1>3. CASE TickSecond
  BY <1>3 DEF TickSecond
<1>4. CASE Dispatch
  BY <1>4 DEF Dispatch
<1>5. CASE LineArrives
  BY <1>5 DEF LineArrives
<1>6. CASE CommandsDone
  BY <1>6 DEF CommandsDone
<1>7. CASE Merge
  BY <1>7 DEF Merge
<1>8. QED
  BY <1>1, <1>2, <1>3, <1>4, <1>5, <1>6, <1>7

LEMMA ControlCommands ==
    ASSUME TypeOK, Set \/ Shutdown \/ Signal
    PROVE  ControlOK'
<1> USE DEF TypeOK, ControlOK, Phase, settings, links, bounds, file
<1>1. CASE Set
  BY <1>1 DEF Set, Flag
<1>2. ASSUME NEW force \in BOOLEAN, StartShutdown(force)
      PROVE  ControlOK'
  BY <1>2 DEF StartShutdown, Flag
<1>3. QED
  BY <1>1, <1>2 DEF Shutdown, Signal

LEMMA ControlFlush ==
    ASSUME TypeOK, Flush
    PROVE  ControlOK'
<1> USE DEF TypeOK, ControlOK, Phase, settings, links, bounds, file, CloseFile, Fail
<1>1. CASE NothingToLog
  <2>1. log_fd' \in Days \union {NULL} /\ flags' \subseteq Flag
    BY <1>1 DEF NothingToLog, Flag
  <2>2. log_lasterror' \in BOOLEAN
    BY <1>1 DEF NothingToLog, Resume
  <2>3. dropped_loggable_lines' \in Nat /\ reported' \in Nat
    BY <1>1 DEF NothingToLog, Resume
  <2>4. QED
    BY <1>1, <2>1, <2>2, <2>3 DEF NothingToLog
<1>2. CASE NextDay
  <2>1. 1 \in DOMAIN log_queue /\ log_queue[1] \in LogLine
    BY <1>2, ElementOfSeq, EmptySeq, LenProperties DEF NextDay, DayIsDone, QueuesOK
  <2>2. log_queue[1].line.day \in Days
    BY <2>1 DEF LogLine, Line
  <2>3. QED
    BY <1>2, <2>2 DEF NextDay, Flag
<1>3. CASE MoveLines
  BY <1>3 DEF MoveLines
<1>4. CASE OpenFile
  <2>1. 1 \in DOMAIN log_current /\ log_current[1] \in LogLine
    BY <1>4, ElementOfSeq, EmptySeq, LenProperties DEF OpenFile, NeedsFile, QueuesOK
  <2>2. log_current[1].line.date \in Days
    BY <2>1 DEF LogLine, Line
  <2>3. QED
    BY <1>4, <2>2 DEF OpenFile, Flag
<1>5. CASE OpenFails
  BY <1>5 DEF OpenFails
<1>6. CASE NoNeedToOpen
  BY <1>6 DEF NoNeedToOpen
<1>7. QED
  BY <1>1, <1>2, <1>3, <1>4, <1>5, <1>6 DEF Flush

LEMMA ControlOutput ==
    ASSUME TypeOK, Output \/ Trim \/ PassDone \/ End
    PROVE  ControlOK'
<1> USE DEF TypeOK, ControlOK, Phase, settings, links, bounds, file, Fail
<1>1. CASE Write
  BY <1>1 DEF Write
<1>2. CASE WriteFails
  BY <1>2 DEF WriteFails
<1>3. CASE AllWritten
  BY <1>3 DEF AllWritten
<1>4. CASE Trim
  <2>1. dropped_loggable_lines' \in Nat
    <3>1. /\ KeptOfQueue \in 0 .. Len(log_queue) /\ KeptOfCurrent \in 0 .. Len(log_current)
          /\ Len(log_queue) \in Nat /\ Len(log_current) \in Nat
      BY KeptIsThere, LenProperties DEF QueuesOK
    <3>2. Trimmed \in Nat
      BY <3>1 DEF Trimmed
    <3>3. dropped_loggable_lines \in Nat
      OBVIOUS
    <3>4. dropped_loggable_lines' = dropped_loggable_lines + Trimmed
      BY <1>4 DEF Trim
    <3>5. QED
      BY <3>2, <3>3, <3>4
  <2>2. QED
    BY <1>4, <2>1 DEF Trim
<1>5. CASE PassDone
  <2>1. LinkTo(date) \in Days \union {NULL}
    BY DEF LinkTo
  <2>2. LinkTo(date - 1) \in Days \union {0, NULL}
    BY DEF LinkTo
  <2>3. QED
    BY <1>5, <2>1, <2>2 DEF PassDone, UpdateLinks, Flag
<1>6. CASE End
  BY <1>6 DEF End, Flag
<1>7. QED
  BY <1>1, <1>2, <1>3, <1>4, <1>5, <1>6 DEF Output

\* The queues and what was written.
LEMMA QueuesInput ==
    ASSUME TypeOK,
           NetworkDone \/ TickDay \/ TickSecond \/ Dispatch \/ LineArrives \/ CommandsDone \/ Merge
    PROVE  QueuesOK'
<1> USE DEF TypeOK, QueuesOK, incoming, waiting
<1>1. CASE NetworkDone
  BY <1>1 DEF NetworkDone
<1>2. CASE TickDay
  <2>1. PICK d \in Days : client_toqueue' = Append(client_toqueue, Checkpoint(d, date')) /\ date' \in {d, date}
    BY <1>2 DEF TickDay
  <2>2. Checkpoint(d, date') \in Line
    BY <2>1, CheckpointIsLine DEF ControlOK
  <2>3. client_toqueue' \in Seq(Line)
    BY <2>1, <2>2, AppendProperties
  <2>4. QED
    BY <1>2, <2>3 DEF TickDay
<1>3. CASE TickSecond
  BY <1>3 DEF TickSecond
<1>4. CASE Dispatch
  BY <1>4, ConcatProperties, EmptySeq DEF Dispatch
<1>5. CASE LineArrives
  <2>1. ServerLine \in Line
    BY DEF ServerLine, Line, ControlOK
  <2>2. QED
    BY <1>5, <2>1, AppendProperties DEF LineArrives
<1>6. CASE CommandsDone
  BY <1>6 DEF CommandsDone
<1>7. CASE Merge
  <2>1. Numbered(client_toqueue, logged) \in Seq(LogLine) /\ Len(client_toqueue) \in Nat
    BY NumberedLines, LenProperties
  <2>2. log_queue \o Numbered(client_toqueue, logged) \in Seq(LogLine)
    BY <2>1, ConcatProperties
  <2>3. log_queue' \in Seq(LogLine) /\ logged' \in Nat
    <3>1. logged + Len(client_toqueue) \in Nat
      BY <2>1
    <3>2. \/ /\ log_queue' = log_queue \o Numbered(client_toqueue, logged)
             /\ logged' = logged + Len(client_toqueue)
          \/ log_queue' = log_queue /\ logged' = logged
      BY <1>7 DEF Merge
    <3>3. QED
      BY <2>2, <3>1, <3>2
  <2>4. QED
    BY <1>7, <2>3, EmptySeq DEF Merge
<1>8. QED
  BY <1>1, <1>2, <1>3, <1>4, <1>5, <1>6, <1>7

LEMMA QueuesCommands ==
    ASSUME TypeOK, Set \/ Shutdown \/ Signal
    PROVE  QueuesOK'
<1> USE DEF TypeOK, QueuesOK, incoming, waiting
<1>1. CASE Set
  BY <1>1 DEF Set
<1>2. ASSUME NEW force \in BOOLEAN, StartShutdown(force)
      PROVE  QueuesOK'
  BY <1>2, CheckpointIsLine, AppendProperties DEF StartShutdown, ControlOK
<1>3. QED
  BY <1>1, <1>2 DEF Shutdown, Signal

LEMMA QueuesFlush ==
    ASSUME TypeOK, Flush
    PROVE  QueuesOK'
<1> USE DEF TypeOK, QueuesOK, incoming, waiting, file
<1>1. CASE NothingToLog
  <2>1. Append(client_toqueue, Checkpoint(day, date)) \in Seq(Line)
    BY CheckpointIsLine, AppendProperties DEF ControlOK
  <2>2. client_toqueue' \in Seq(Line)
    BY <1>1, <2>1 DEF NothingToLog, Resume
  <2>3. QED
    BY <1>1, <2>2 DEF NothingToLog
<1>2. CASE NextDay
  BY <1>2 DEF NextDay
<1>3. CASE MoveLines
  <2>1. PICK n \in 0 .. Len(log_queue) :
            /\ log_current' = log_current \o Front(log_queue, n)
            /\ log_queue' = Beyond(log_queue, n)
    BY <1>3 DEF MoveLines
  <2>2. log_current' \in Seq(LogLine) /\ log_queue' \in Seq(LogLine)
    BY <2>1, FrontOfSeq, BeyondOfSeq, ConcatProperties
  <2>3. QED
    BY <1>3, <2>2 DEF MoveLines
<1>4. CASE OpenFile
  BY <1>4 DEF OpenFile
<1>5. CASE OpenFails
  BY <1>5 DEF OpenFails
<1>6. CASE NoNeedToOpen
  BY <1>6 DEF NoNeedToOpen
<1>7. QED
  BY <1>1, <1>2, <1>3, <1>4, <1>5, <1>6 DEF Flush

LEMMA QueuesOutput ==
    ASSUME TypeOK, Output \/ Trim \/ PassDone \/ End, pc = "write" => log_fd # NULL
    PROVE  QueuesOK'
<1> USE DEF TypeOK, QueuesOK, incoming, waiting
<1>0. Beyond(log_current, Moved) \in Seq(LogLine)
  BY FillFits, BeyondOfSeq
<1>1. CASE Write
  <2>1. PICK n \in 1 .. Len(Filled) :
            /\ disk' = disk \o [i \in 1 .. n |-> [file |-> log_fd, entry |-> Filled[i]]]
            /\ log_buffer' = Beyond(Filled, n)
    BY <1>1 DEF Write
  <2>2. Len(Filled) \in Nat /\ n \in 0 .. Len(Filled) /\ n \in Nat /\ Len(Filled) - n <= LogBufferLen
    BY FillFits, LenProperties
  <2>3. log_buffer' \in Seq(LogLine) /\ Len(log_buffer') <= LogBufferLen
    BY <2>1, <2>2, FillFits, BeyondOfSeq
  <2>4. log_fd \in Days
    BY <1>1 DEF Write, ControlOK
  <2>5. \A i \in 1 .. n : [file |-> log_fd, entry |-> Filled[i]] \in [file : Days, entry : LogLine]
    <3>1. \A i \in 1 .. n : Filled[i] \in LogLine
      BY <2>2, FillFits, ElementOfSeq
    <3>2. QED
      BY <2>4, <3>1
  <2>6. [i \in 1 .. n |-> [file |-> log_fd, entry |-> Filled[i]]]
            \in Seq([file : Days, entry : LogLine])
    BY <2>2, <2>5, FunctionIsSeq
  <2>7. disk' \in Seq([file : Days, entry : LogLine])
    BY <2>1, <2>6, ConcatProperties
  <2>8. QED
    BY <1>0, <1>1, <2>3, <2>7 DEF Write
<1>2. CASE WriteFails
  BY <1>0, <1>2, FillFits DEF WriteFails
<1>3. CASE AllWritten
  BY <1>3 DEF AllWritten
<1>4. CASE Trim
  BY <1>4, KeptIsThere, FrontOfSeq DEF Trim
<1>5. CASE PassDone
  BY <1>5 DEF PassDone
<1>6. CASE End
  BY <1>6 DEF End
<1>7. QED
  BY <1>1, <1>2, <1>3, <1>4, <1>5, <1>6 DEF Output

\* log_write() is only reached with a file: what makes TypeOK inductive.
OpenToWrite == pc = "write" => log_fd # NULL

TypeInv == TypeOK /\ OpenToWrite

LEMMA InitType == Init => TypeInv
<1> SUFFICES ASSUME Init PROVE TypeInv
  OBVIOUS
<1>1. ControlOK
  <2>1. 1 \in Days
    BY DEF Days
  <2>2. existing \subseteq Days \union {0}
    BY <2>1 DEF Init
  <2>3. pc \in Phase /\ flags \subseteq Flag
    BY DEF Init, Phase, Flag
  <2>4. logging \in BOOLEAN /\ log_lasterror \in BOOLEAN /\ forced \in BOOLEAN
    BY DEF Init
  <2>5. /\ dropped_loggable_lines \in Nat /\ reported \in Nat
        /\ arrived \in 0 .. MaxLines /\ failures \in 0 .. MaxFailures
    BY DEF Init
  <2>6. QED
    BY <2>1, <2>2, <2>3, <2>4, <2>5 DEF Init, ControlOK
<1>2. Checkpoint(1, 1) \in Line
  BY CheckpointIsLine DEF Days
<1>3. client_toqueue \in Seq(Line)
  BY <1>2 DEF Init
<1>4. QueuesOK
  BY <1>3, EmptySeq DEF Init, QueuesOK
<1>5. QED
  BY <1>1, <1>4 DEF TypeInv, TypeOK, OpenToWrite, Init

LEMMA OpenToWriteStep == TypeInv /\ [Next]_vars => OpenToWrite'
<1> SUFFICES ASSUME TypeInv, [Next]_vars PROVE OpenToWrite'
  OBVIOUS
<1> USE DEF TypeInv, OpenToWrite
<1>1. CASE NetworkDone \/ TickDay \/ TickSecond \/ Dispatch \/ LineArrives \/ CommandsDone \/ Merge
  BY <1>1 DEF NetworkDone, TickDay, TickSecond, Dispatch, LineArrives, CommandsDone, Merge
<1>2. CASE Set \/ Shutdown \/ Signal
  BY <1>2 DEF Set, Shutdown, Signal, StartShutdown, file
<1>3. CASE NothingToLog \/ NextDay \/ MoveLines \/ OpenFails \/ NoNeedToOpen
  BY <1>3 DEF NothingToLog, NextDay, MoveLines, OpenFails, NoNeedToOpen, Fail, file
<1>4. CASE OpenFile
  <2>1. 1 \in DOMAIN log_current /\ log_current[1] \in LogLine
    BY <1>4, ElementOfSeq, EmptySeq, LenProperties DEF OpenFile, NeedsFile, TypeOK, QueuesOK
  <2>2. log_current[1].line.date \in Days
    BY <2>1 DEF LogLine, Line
  <2>3. QED
    BY <1>4, <2>2 DEF OpenFile, Days, NULL
<1>5. CASE Output
  BY <1>5 DEF Output, Write, WriteFails, AllWritten, Fail, file
<1>6. CASE Trim \/ PassDone \/ End
  BY <1>6 DEF Trim, PassDone, End
<1>7. CASE UNCHANGED vars
  BY <1>7 DEF vars, file
<1>8. QED
  BY <1>1, <1>2, <1>3, <1>4, <1>5, <1>6, <1>7 DEF Next, Pass, Flush

LEMMA TypeStep == TypeInv /\ [Next]_vars => TypeInv'
<1> SUFFICES ASSUME TypeInv, [Next]_vars PROVE TypeInv'
  OBVIOUS
<1>1. OpenToWrite'
  BY OpenToWriteStep
<1>2. ASSUME Next PROVE TypeOK'
  BY <1>2, ControlInput, ControlCommands, ControlFlush, ControlOutput,
     QueuesInput, QueuesCommands, QueuesFlush, QueuesOutput
     DEF TypeInv, OpenToWrite, TypeOK, Next, Pass
<1>3. ASSUME UNCHANGED vars PROVE TypeOK'
  BY <1>3 DEF TypeInv, TypeOK, ControlOK, QueuesOK, vars, settings, incoming, waiting, file,
     links, bounds
<1>4. QED
  BY <1>1, <1>2, <1>3 DEF TypeInv

LEMMA TypeInvariant == Spec => []TypeInv
<1>1. Init => TypeInv
  BY InitType
<1>2. TypeInv /\ [Next]_vars => TypeInv'
  BY TypeStep
<1>3. QED
  BY <1>1, <1>2, PTL DEF Spec

\* Every variable of the log store always has its type, and log_buffer never
\* overflows (flush_buffer()).
THEOREM TypeCorrect == Spec => []TypeOK
<1>1. TypeInv => TypeOK
  BY DEF TypeInv
<1>2. QED
  BY <1>1, TypeInvariant, PTL

-----------------------------------------------------------------------------
(* No line is lost without being counted.                                  *)

LEMMA AccountedStep == TypeInv /\ EveryLineAccounted /\ [Next]_vars => EveryLineAccounted'
<1> SUFFICES ASSUME TypeInv, EveryLineAccounted, [Next]_vars PROVE EveryLineAccounted'
  OBVIOUS
<1> USE DEF TypeInv, TypeOK, EveryLineAccounted, Unlogged
<1>n. /\ Len(log_queue) \in Nat /\ Len(log_current) \in Nat /\ Len(log_buffer) \in Nat
      /\ Len(disk) \in Nat /\ Len(client_toqueue) \in Nat /\ logged \in Nat
      /\ dropped_loggable_lines \in Nat /\ reported \in Nat
  BY LenProperties DEF QueuesOK, ControlOK
<1>same. CASE UNCHANGED <<log_queue, log_current, log_buffer, disk, logged, reported,
                          dropped_loggable_lines>>
  BY <1>same
<1>1. CASE Merge
  <2>1. \/ /\ log_queue' = log_queue \o Numbered(client_toqueue, logged)
           /\ logged' = logged + Len(client_toqueue)
        \/ log_queue' = log_queue /\ logged' = logged
    BY <1>1 DEF Merge
  <2>2. Len(log_queue \o Numbered(client_toqueue, logged)) = Len(log_queue) + Len(client_toqueue)
    <3>1. /\ Numbered(client_toqueue, logged) \in Seq(LogLine)
          /\ Len(Numbered(client_toqueue, logged)) = Len(client_toqueue)
      BY NumberedLines DEF QueuesOK
    <3>2. log_queue \in Seq(LogLine)
      BY DEF QueuesOK
    <3> DEFINE new == Numbered(client_toqueue, logged)
    <3>3. new \in Seq(LogLine) /\ Len(new) = Len(client_toqueue)
      BY <3>1
    <3> HIDE DEF new
    <3>4. Len(log_queue \o new) = Len(log_queue) + Len(new)
      BY ONLY <3>2, <3>3, ConcatProperties
    <3>5. QED
      BY <3>3, <3>4, Zenon DEF new
  <2>3. UNCHANGED <<log_current, log_buffer, disk, reported, dropped_loggable_lines>>
    BY <1>1 DEF Merge
  <2>4. CASE log_queue' = log_queue \o Numbered(client_toqueue, logged)
             /\ logged' = logged + Len(client_toqueue)
    <3>1. Len(log_queue') = Len(log_queue) + Len(client_toqueue)
      BY <2>2, <2>4
    <3>2. logged' = Len(disk) + (Len(log_queue) + Len(client_toqueue) + Len(log_current)
                        + Len(log_buffer)) + dropped_loggable_lines + reported
      BY <1>n, <2>4
    <3>3. QED
      BY <2>3, <3>1, <3>2
  <2>5. QED
    BY <1>same, <2>1, <2>3, <2>4
<1>2. CASE NothingToLog
  <2>1. UNCHANGED <<log_queue, log_current, log_buffer, disk, logged>>
    BY <1>2 DEF NothingToLog, waiting
  <2>2. \/ dropped_loggable_lines' = 0 /\ reported' = reported + dropped_loggable_lines
        \/ dropped_loggable_lines' = dropped_loggable_lines /\ reported' = reported
    BY <1>2 DEF NothingToLog, Resume
  <2>3. QED
    BY <1>n, <2>1, <2>2
<1>3. CASE MoveLines
  <2>1. PICK n \in 0 .. Len(log_queue) :
            /\ log_current' = log_current \o Front(log_queue, n)
            /\ log_queue' = Beyond(log_queue, n)
    BY <1>3 DEF MoveLines
  <2>2. /\ Len(log_current') = Len(log_current) + n
        /\ Len(log_queue') = Len(log_queue) - n
    <3>1. Front(log_queue, n) \in Seq(LogLine) /\ Len(Front(log_queue, n)) = n
      BY FrontOfSeq DEF QueuesOK
    <3>2. Len(Beyond(log_queue, n)) = Len(log_queue) - n
      BY BeyondOfSeq DEF QueuesOK
    <3>3. QED
      BY <2>1, <3>1, <3>2, ConcatProperties DEF QueuesOK
  <2>3. UNCHANGED <<log_buffer, disk, logged, reported, dropped_loggable_lines>>
    BY <1>3 DEF MoveLines
  <2>4. QED
    BY <1>n, <2>1, <2>2, <2>3
<1>w. /\ Moved \in 0 .. Len(log_current) /\ Filled \in Seq(LogLine)
      /\ Len(Filled) = Len(log_buffer) + Moved
      /\ Len(Beyond(log_current, Moved)) = Len(log_current) - Moved
  BY FillFits, BeyondOfSeq DEF QueuesOK
<1>4. CASE Write
  <2>1. PICK n \in 1 .. Len(Filled) :
            /\ disk' = disk \o [i \in 1 .. n |-> [file |-> log_fd, entry |-> Filled[i]]]
            /\ log_buffer' = Beyond(Filled, n)
    BY <1>4 DEF Write
  <2>2. n \in Nat /\ n \in 0 .. Len(Filled)
    BY <1>n, <1>w, <2>1
  <2>3. Len(log_buffer') = Len(Filled) - n
    BY <1>w, <2>1, <2>2, BeyondOfSeq
  <2>4. log_fd \in Days
    BY <1>4 DEF Write, ControlOK, OpenToWrite
  <2>5. \A i \in 1 .. n : Filled[i] \in LogLine
    BY <1>w, <2>1, ElementOfSeq, LenProperties
  <2>6. [i \in 1 .. n |-> [file |-> log_fd, entry |-> Filled[i]]]
            \in [1 .. n -> [file : Days, entry : LogLine]]
    BY <2>4, <2>5
  <2>7. Len(disk') = Len(disk) + n
    BY <2>1, <2>2, <2>6, FunctionIsSeq, ConcatProperties DEF QueuesOK
  <2>8. log_current' = Beyond(log_current, Moved)
        /\ UNCHANGED <<log_queue, logged, reported, dropped_loggable_lines>>
    BY <1>4 DEF Write
  <2>9. Len(log_current') + Len(log_buffer') = Len(log_current) + Len(log_buffer) - n
    <3>1. Len(log_current') = Len(log_current) - Moved
      BY <1>w, <2>8
    <3>2. Moved \in Nat /\ Len(Filled) = Len(log_buffer) + Moved
      BY <1>n, <1>w
    <3>3. QED
      BY ONLY <1>n, <2>2, <2>3, <3>1, <3>2
  <2>10. Len(log_current') \in Nat /\ Len(log_buffer') \in Nat
    BY <1>n, <1>w, <2>2, <2>3, <2>8
  <2>11. QED
    BY <1>n, <2>2, <2>7, <2>8, <2>9, <2>10
<1>5. CASE WriteFails
  <2>1. /\ log_current' = Beyond(log_current, Moved) /\ log_buffer' = Filled
        /\ UNCHANGED <<log_queue, disk, logged, reported, dropped_loggable_lines>>
    BY <1>5 DEF WriteFails
  <2>2. QED
    BY <1>n, <1>w, <2>1
<1>6. CASE Trim
  <2>1. KeptOfCurrent \in 0 .. Len(log_current) /\ KeptOfQueue \in 0 .. Len(log_queue)
    BY KeptIsThere
  <2>2. Len(log_queue') = KeptOfQueue /\ Len(log_current') = KeptOfCurrent
    BY <1>6, <2>1, FrontOfSeq DEF Trim, QueuesOK
  <2>3. dropped_loggable_lines' = dropped_loggable_lines
            + ((Len(log_queue) - KeptOfQueue) + (Len(log_current) - KeptOfCurrent))
    BY <1>6 DEF Trim, Trimmed
  <2>4. UNCHANGED <<log_buffer, disk, logged, reported>>
    BY <1>6 DEF Trim
  <2>5. QED
    BY <1>n, <2>1, <2>2, <2>3, <2>4
<1>7. CASE NetworkDone \/ TickDay \/ TickSecond \/ Dispatch \/ LineArrives \/ CommandsDone
  BY <1>7, <1>same DEF NetworkDone, TickDay, TickSecond, Dispatch, LineArrives, CommandsDone, waiting
<1>8. CASE Set \/ Shutdown \/ Signal
  BY <1>8, <1>same DEF Set, Shutdown, Signal, StartShutdown, waiting
<1>9. CASE NextDay \/ OpenFile \/ OpenFails \/ NoNeedToOpen \/ AllWritten \/ PassDone \/ End
  BY <1>9, <1>same DEF NextDay, OpenFile, OpenFails, NoNeedToOpen, AllWritten, PassDone, End, waiting
<1>10. CASE UNCHANGED vars
  BY <1>10, <1>same DEF vars, waiting
<1>11. QED
  BY <1>1, <1>2, <1>3, <1>4, <1>5, <1>6, <1>7, <1>8, <1>9, <1>10 DEF Next, Pass, Flush, Output

\* Every line that was to be logged is written, waits, or is counted as lost,
\* through every failure of the disk, trim and shutdown (log.c, world.c).
THEOREM NothingLostUncounted == Spec => []EveryLineAccounted
<1>1. Init => EveryLineAccounted
  BY EmptySeq DEF Init, EveryLineAccounted, Unlogged
<1>2. TypeInv /\ EveryLineAccounted /\ [Next]_vars => EveryLineAccounted'
  BY AccountedStep
<1>3. QED
  BY <1>1, <1>2, TypeInvariant, PTL DEF Spec

-----------------------------------------------------------------------------
(* The links are fresh, as long as the time is.                            *)

LEMMA LinksStep ==
    ASSUME ClockMayRepeat = FALSE, date = day, LinksFresh, [Next]_vars
    PROVE  LinksFresh' /\ date' = day'
<1> USE DEF LinksFresh, LinkTo
<1>1. CASE UNCHANGED <<date, day, flags, logging, existing, links>> /\ pc # "ended"
  BY <1>1 DEF links
<1>2. CASE Dispatch \/ LineArrives \/ CommandsDone \/ Merge \/ NetworkDone
  BY <1>1, <1>2 DEF Dispatch, LineArrives, CommandsDone, Merge, NetworkDone, settings
<1>3. CASE TickDay
  BY <1>3 DEF TickDay
<1>4. CASE TickSecond
  <2>1. UNCHANGED <<date, day, flags, logging, existing, links>> /\ pc # "ended"
    BY <1>4 DEF TickSecond, settings
  <2>2. QED
    BY <1>1, <2>1
<1>5. CASE Set
  <2>1. UNCHANGED <<date, day, existing, links>> /\ pc # "ended"
    BY <1>5 DEF Set
  <2>2. CASE "LOGLINKUPDATE" \in flags'
    BY <2>1, <2>2
  <2>3. CASE UNCHANGED <<logging, flags>>
    BY <1>1, <2>1, <2>3
  <2>4. QED
    BY <1>5, <2>2, <2>3 DEF Set
<1>6. ASSUME NEW force \in BOOLEAN, StartShutdown(force), pc # "ended"
      PROVE  LinksFresh' /\ date' = day'
  BY <1>6 DEF StartShutdown, settings, links
<1>7. CASE Shutdown \/ Signal
  BY <1>6, <1>7 DEF Shutdown, Signal
<1>8. CASE NothingToLog \/ NextDay
  <2>1. UNCHANGED <<date, day, existing, logging, links>> /\ pc # "ended"
    BY <1>8 DEF NothingToLog, NextDay, settings
  <2>2. CASE "LOGLINKUPDATE" \in flags'
    BY <2>1, <2>2
  <2>3. CASE UNCHANGED flags
    BY <1>1, <2>1, <2>3
  <2>4. QED
    BY <1>8, <2>2, <2>3 DEF NothingToLog, NextDay, CloseFile
<1>9. CASE MoveLines \/ OpenFails \/ NoNeedToOpen
  BY <1>1, <1>9 DEF MoveLines, OpenFails, NoNeedToOpen, settings
<1>10. CASE OpenFile
  BY <1>10 DEF OpenFile
<1>11. CASE Write \/ WriteFails \/ AllWritten \/ Trim
  BY <1>1, <1>11 DEF Write, WriteFails, AllWritten, Trim, settings
<1>12. CASE PassDone
  <2>1. CASE "LOGLINKUPDATE" \in flags
    BY <1>12, <2>1 DEF PassDone, UpdateLinks, settings
  <2>2. CASE "LOGLINKUPDATE" \notin flags
    BY <1>1, <1>12, <2>2 DEF PassDone, UpdateLinks, settings
  <2>3. QED
    BY <2>1, <2>2
<1>13. CASE End
  BY <1>13 DEF End
<1>14. CASE UNCHANGED vars
  BY <1>14 DEF vars, settings, links
<1>15. QED
  BY <1>2, <1>3, <1>4, <1>5, <1>7, <1>8, <1>9, <1>10, <1>11, <1>12, <1>13, <1>14
     DEF Next, Pass, Flush, Output

\* The links 'today' and 'yesterday' are right whenever no update of them is
\* flagged, if the clock never repeats a second (world_log_link_update()).
THEOREM LinksAreFresh ==
    ASSUME ClockMayRepeat = FALSE
    PROVE  Spec => []LinksFresh
<1> DEFINE Inv == LinksFresh /\ date = day
<1>1. Init => Inv
  BY DEF Init, LinksFresh
<1>2. Inv /\ [Next]_vars => Inv'
  BY LinksStep
<1>3. QED
  BY <1>1, <1>2, PTL DEF Spec

-----------------------------------------------------------------------------
(* Every line goes to the file of its own day.                             *)

DayLine == {line \in Line : line.day = line.date}
DayEntry == {entry \in LogLine : entry.line.day = entry.line.date}
EntryOf(d) == {entry \in DayEntry : entry.line.day = d}
Filed == {record \in [file : Days, entry : LogLine] : record.file = record.entry.line.date}

\* What makes FiledByDay inductive: a line's date is its day, log_current and
\* log_buffer hold lines of log_currentday alone, and the open file is the one
\* of that day; nothing is in the buffer when no file is open.
DayInv ==
    /\ date = day
    /\ server_rxqueue \in Seq(DayLine) /\ client_toqueue \in Seq(DayLine)
    /\ log_queue \in Seq(DayEntry)
    /\ log_current \in Seq(EntryOf(log_currentday))
    /\ log_buffer \in Seq(EntryOf(log_currentday))
    /\ log_fd # NULL => log_fd = log_currentday
    /\ log_buffer # <<>> => log_fd # NULL
    /\ disk \in Seq(Filed)

LEMMA DayInvFiles == ASSUME DayInv PROVE FiledByDay
<1>1. \A i \in DOMAIN disk : disk[i] \in Filed
  BY ElementOfSeq, LenProperties DEF DayInv
<1>2. \A i \in DOMAIN log_buffer : log_buffer[i] \in EntryOf(log_currentday)
  BY ElementOfSeq, LenProperties DEF DayInv
<1>3. \A i \in DOMAIN log_buffer : log_buffer # <<>>
  BY EmptySeq, LenProperties DEF DayInv
<1>4. QED
  BY <1>1, <1>2, <1>3 DEF DayInv, FiledByDay, Filed, EntryOf, DayEntry

\* A sequence is one of whatever set holds its elements.
LEMMA SeqOfElements ==
    ASSUME NEW S, NEW T, NEW q \in Seq(S), \A i \in 1 .. Len(q) : q[i] \in T
    PROVE  q \in Seq(T)
<1>1. Len(q) \in Nat /\ q \in [1 .. Len(q) -> T]
  BY LenProperties
<1>2. QED
  BY <1>1, FunctionIsSeq

LEMMA DayCheckpoint ==
    ASSUME NEW d \in Days
    PROVE  Checkpoint(d, d) \in DayLine
  BY CheckpointIsLine DEF DayLine, Checkpoint

\* One lemma per phase of a pass.
LEMMA DayInput ==
    ASSUME ClockMayRepeat = FALSE, TypeInv, DayInv,
           NetworkDone \/ TickDay \/ TickSecond \/ Dispatch \/ LineArrives \/ CommandsDone \/ Merge
    PROVE  DayInv'
<1> USE DEF DayInv, incoming, waiting, file
<1>1. CASE NetworkDone \/ CommandsDone
  BY <1>1 DEF NetworkDone, CommandsDone
<1>2. CASE TickDay
  <2>1. PICK d \in Days : /\ day' = d /\ date' = d
                          /\ client_toqueue' = Append(client_toqueue, Checkpoint(d, date'))
    BY <1>2 DEF TickDay
  <2>2. client_toqueue' \in Seq(DayLine)
    BY <2>1, DayCheckpoint, AppendProperties
  <2>3. QED
    BY <1>2, <2>1, <2>2 DEF TickDay
<1>3. CASE TickSecond
  BY <1>3 DEF TickSecond
<1>4. CASE Dispatch
  BY <1>4, ConcatProperties, EmptySeq DEF Dispatch
<1>5. CASE LineArrives
  <2>1. ServerLine \in DayLine
    BY DEF ServerLine, DayLine, Line, TypeInv, TypeOK, ControlOK
  <2>2. QED
    BY <1>5, <2>1, AppendProperties DEF LineArrives
<1>6. CASE Merge
  <2>1. client_toqueue \in Seq(Line) /\ logged \in Nat
    BY DEF TypeInv, TypeOK, QueuesOK
  <2>2. /\ Numbered(client_toqueue, logged) \in Seq(LogLine)
        /\ Len(Numbered(client_toqueue, logged)) = Len(client_toqueue)
        /\ \A i \in 1 .. Len(client_toqueue) :
              Numbered(client_toqueue, logged)[i] = [id |-> logged + i, line |-> client_toqueue[i]]
    BY <2>1, NumberedLines
  <2>3. \A i \in 1 .. Len(client_toqueue) : client_toqueue[i] \in DayLine
    BY ElementOfSeq
  <2>4. \A i \in 1 .. Len(client_toqueue) : Numbered(client_toqueue, logged)[i] \in DayEntry
    <3>1. TAKE i \in 1 .. Len(client_toqueue)
    <3>2. Numbered(client_toqueue, logged)[i] \in LogLine
      BY <2>2, ElementOfSeq
    <3>3. Numbered(client_toqueue, logged)[i].line = client_toqueue[i]
      <4>1. Numbered(client_toqueue, logged)[i] = [id |-> logged + i, line |-> client_toqueue[i]]
        BY <2>2
      <4>2. QED
        BY <4>1
    <3>4. client_toqueue[i].day = client_toqueue[i].date
      BY <2>3 DEF DayLine
    <3>5. QED
      BY <3>2, <3>3, <3>4 DEF DayEntry
  <2>5. Numbered(client_toqueue, logged) \in Seq(DayEntry)
    BY <2>2, <2>4, SeqOfElements
  <2>6. log_queue \o Numbered(client_toqueue, logged) \in Seq(DayEntry)
    BY <2>5, ConcatProperties
  <2>7. log_queue' \in Seq(DayEntry)
    BY <1>6, <2>6 DEF Merge
  <2>8. QED
    BY <1>6, <2>7, EmptySeq DEF Merge
<1>7. QED
  BY <1>1, <1>2, <1>3, <1>4, <1>5, <1>6

LEMMA DayCommands ==
    ASSUME TypeInv, DayInv, Set \/ Shutdown \/ Signal
    PROVE  DayInv'
<1> USE DEF DayInv, incoming, waiting, file
<1>1. CASE Set
  BY <1>1 DEF Set
<1>2. ASSUME NEW force \in BOOLEAN, StartShutdown(force)
      PROVE  DayInv'
  <2>1. client_toqueue' \in Seq(DayLine)
    BY <1>2, DayCheckpoint, AppendProperties DEF StartShutdown, TypeInv, TypeOK, ControlOK
  <2>2. QED
    BY <1>2, <2>1 DEF StartShutdown
<1>3. QED
  BY <1>1, <1>2 DEF Shutdown, Signal

LEMMA DayFlush ==
    ASSUME TypeInv, DayInv, Flush
    PROVE  DayInv'
<1> USE DEF DayInv, incoming, waiting, file
<1>1. CASE NothingToLog
  <2>1. log_buffer = <<>>
    BY <1>1, EmptySeq, LenProperties DEF NothingToLog, Unlogged
  <2>2. log_fd' = NULL \/ log_fd' = log_fd
    BY <1>1 DEF NothingToLog, CloseFile
  <2>3. Append(client_toqueue, Checkpoint(day, date)) \in Seq(DayLine)
    BY DayCheckpoint, AppendProperties DEF TypeInv, TypeOK, ControlOK
  <2>4. client_toqueue' \in Seq(DayLine)
    BY <1>1, <2>3 DEF NothingToLog, Resume
  <2>5. QED
    BY <1>1, <2>1, <2>2, <2>4 DEF NothingToLog
<1>2. CASE NextDay
  <2>1. log_current = <<>> /\ log_buffer = <<>> /\ log_fd' = NULL
    BY <1>2 DEF NextDay, DayIsDone, CloseFile
  <2>2. log_current' \in Seq(EntryOf(log_currentday')) /\ log_buffer' \in Seq(EntryOf(log_currentday'))
    BY <1>2, <2>1, EmptySeq DEF NextDay
  <2>3. QED
    BY <1>2, <2>1, <2>2 DEF NextDay
<1>3. CASE MoveLines
  <2>1. PICK n \in 0 .. Len(log_queue) :
            /\ OfCurrentDay(n)
            /\ log_current' = log_current \o Front(log_queue, n)
            /\ log_queue' = Beyond(log_queue, n)
    BY <1>3 DEF MoveLines
  <2>2. /\ Front(log_queue, n) \in Seq(DayEntry) /\ Len(Front(log_queue, n)) = n
        /\ \A i \in 1 .. n : Front(log_queue, n)[i] = log_queue[i]
    BY FrontOfSeq
  <2>3. \A i \in 1 .. n : Front(log_queue, n)[i] \in EntryOf(log_currentday)
    BY <2>1, <2>2, ElementOfSeq DEF OfCurrentDay, EntryOf
  <2>4. Front(log_queue, n) \in Seq(EntryOf(log_currentday))
    BY <2>2, <2>3, SeqOfElements
  <2>5. log_current' \in Seq(EntryOf(log_currentday))
    BY <2>1, <2>4, ConcatProperties
  <2>6. log_queue' \in Seq(DayEntry)
    BY <2>1, BeyondOfSeq
  <2>7. QED
    BY <1>3, <2>5, <2>6 DEF MoveLines
<1>4. CASE OpenFile
  <2>1. log_current[1] \in EntryOf(log_currentday)
    BY <1>4, ElementOfSeq, EmptySeq, LenProperties DEF OpenFile, NeedsFile
  <2>2. log_fd' = log_currentday
    BY <1>4, <2>1 DEF OpenFile, EntryOf, DayEntry
  <2>3. log_fd' # NULL
    BY <2>2 DEF TypeInv, TypeOK, ControlOK, Days, NULL
  <2>4. QED
    BY <1>4, <2>2, <2>3 DEF OpenFile
<1>5. CASE OpenFails \/ NoNeedToOpen
  BY <1>5 DEF OpenFails, NoNeedToOpen, Fail
<1>6. QED
  BY <1>1, <1>2, <1>3, <1>4, <1>5 DEF Flush

LEMMA DayOutput ==
    ASSUME TypeInv, DayInv, Output \/ Trim \/ PassDone \/ End
    PROVE  DayInv'
<1> USE DEF DayInv, incoming, waiting, file
<1>1. /\ Moved \in 0 .. Len(log_current)
      /\ Len(Filled) \in Nat
  BY FillFits, LenProperties DEF TypeInv, TypeOK
<1>2. Beyond(log_current, Moved) \in Seq(EntryOf(log_currentday))
  BY <1>1, BeyondOfSeq
<1>3. Filled \in Seq(EntryOf(log_currentday))
  <2>1. Front(log_current, Moved) \in Seq(EntryOf(log_currentday))
    BY <1>1, FrontOfSeq
  <2>2. QED
    BY <2>1, ConcatProperties DEF Filled
<1>4. CASE Write
  <2>1. PICK n \in 1 .. Len(Filled) :
            /\ disk' = disk \o [i \in 1 .. n |-> [file |-> log_fd, entry |-> Filled[i]]]
            /\ log_buffer' = Beyond(Filled, n)
    BY <1>4 DEF Write
  <2>2. n \in Nat /\ n \in 0 .. Len(Filled)
    BY <1>1
  <2>3. log_buffer' \in Seq(EntryOf(log_currentday))
    BY <1>3, <2>1, <2>2, BeyondOfSeq
  <2>4. log_fd # NULL /\ log_fd = log_currentday /\ log_fd \in Days
    BY <1>4 DEF Write, TypeInv, TypeOK, ControlOK, OpenToWrite
  <2>5. \A i \in 1 .. n : [file |-> log_fd, entry |-> Filled[i]] \in Filed
    <3>1. TAKE i \in 1 .. n
    <3>2. i \in 1 .. Len(Filled)
      BY <1>1, <2>2
    <3>3. Filled[i] \in EntryOf(log_currentday)
      BY <1>3, <3>2, ElementOfSeq
    <3>4. Filled[i] \in LogLine /\ Filled[i].line.date = log_fd
      BY <2>4, <3>3 DEF EntryOf, DayEntry
    <3>5. QED
      BY <2>4, <3>4 DEF Filed
  <2>6. [i \in 1 .. n |-> [file |-> log_fd, entry |-> Filled[i]]] \in Seq(Filed)
    BY <2>2, <2>5, FunctionIsSeq
  <2>7. disk' \in Seq(Filed)
    BY <2>1, <2>6, ConcatProperties
  <2>8. QED
    BY <1>2, <1>4, <2>3, <2>4, <2>7 DEF Write
<1>5. CASE WriteFails
  <2>1. log_fd # NULL
    BY <1>5 DEF WriteFails, TypeInv, OpenToWrite
  <2>2. QED
    BY <1>2, <1>3, <1>5, <2>1 DEF WriteFails
<1>6. CASE Trim
  <2>1. KeptOfCurrent \in 0 .. Len(log_current) /\ KeptOfQueue \in 0 .. Len(log_queue)
    BY KeptIsThere DEF TypeInv, TypeOK
  <2>2. log_queue' \in Seq(DayEntry) /\ log_current' \in Seq(EntryOf(log_currentday))
    BY <1>6, <2>1, FrontOfSeq DEF Trim
  <2>3. QED
    BY <1>6, <2>2 DEF Trim
<1>7. CASE AllWritten \/ PassDone \/ End
  BY <1>7 DEF AllWritten, PassDone, End
<1>8. QED
  BY <1>4, <1>5, <1>6, <1>7 DEF Output

LEMMA DayStep ==
    ASSUME ClockMayRepeat = FALSE, TypeInv, DayInv, [Next]_vars
    PROVE  DayInv'
<1>1. CASE UNCHANGED vars
  BY <1>1 DEF DayInv, vars, incoming, waiting, file
<1>2. QED
  BY <1>1, DayInput, DayCommands, DayFlush, DayOutput DEF Next, Pass

\* Every line is written to the file of the day it was made on, whatever days
\* pass while lines wait, if the clock never repeats a second
\* (world_flush_client_logqueue(), log_init()).
THEOREM LinesGoToTheirDay ==
    ASSUME ClockMayRepeat = FALSE
    PROVE  Spec => []FiledByDay
<1>1. Init => DayInv
  <2> SUFFICES ASSUME Init PROVE DayInv
    OBVIOUS
  <2>1. <<Checkpoint(1, 1)>> \in Seq(DayLine)
    BY DayCheckpoint DEF Days
  <2>2. QED
    BY <2>1, EmptySeq DEF Init, DayInv
<1>2. TypeInv /\ DayInv /\ [Next]_vars => DayInv'
  BY DayStep
<1>3. DayInv => FiledByDay
  BY DayInvFiles
<1>4. QED
  BY <1>1, <1>2, <1>3, TypeInvariant, PTL DEF Spec

-----------------------------------------------------------------------------
(* The lines in the files are in the order in which they were logged.      *)

Record == [file : Days, entry : LogLine]

\* What is on disk and what waits, oldest first.
EntriesOf(written) == [i \in DOMAIN written |-> written[i].entry]

Ascending(q) == \A i, j \in DOMAIN q : i < j => q[i].id < q[j].id
Ids(q) == {q[i].id : i \in DOMAIN q}
Below(A, B) == \A x \in A, y \in B : x < y

\* What makes FilesInOrder inductive: the numbers ascend from the first line on
\* disk to the last that waits, whatever the dates, and the next line to be
\* logged has a higher one.
OrderInv ==
    LET written == EntriesOf(disk)
    IN /\ Ascending(written) /\ Ascending(log_buffer)
       /\ Ascending(log_current) /\ Ascending(log_queue)
       /\ Below(Ids(written), Ids(log_buffer) \union Ids(log_current) \union Ids(log_queue))
       /\ Below(Ids(log_buffer), Ids(log_current) \union Ids(log_queue))
       /\ Below(Ids(log_current), Ids(log_queue))
       /\ \A x \in Ids(written) \union Ids(log_buffer) \union Ids(log_current)
                                \union Ids(log_queue) : x <= logged

\* A sequence is its first n elements and those beyond.
LEMMA FrontAndBeyond ==
    ASSUME NEW S, NEW q \in Seq(S), NEW n \in 0 .. Len(q)
    PROVE  Front(q, n) \o Beyond(q, n) = q
<1>1. 1 \in 1 .. Len(q) + 1 /\ n \in 1 - 1 .. Len(q) /\ Len(q) \in n .. Len(q)
  BY LenProperties
<1>2. SubSeq(q, 1, n) \o SubSeq(q, n + 1, Len(q)) = SubSeq(q, 1, Len(q))
  BY <1>1, ConcatAdjacentSubSeq
<1>3. SubSeq(q, 1, Len(q)) = q
  BY SubSeqFull
<1>4. QED
  BY <1>2, <1>3 DEF Front, Beyond

\* The numbers in two sequences, one after the other.
LEMMA IdsOfConcat ==
    ASSUME NEW q \in Seq(LogLine), NEW r \in Seq(LogLine)
    PROVE  /\ q \o r \in Seq(LogLine)
           /\ Ids(q \o r) = Ids(q) \union Ids(r)
           /\ Ascending(q \o r) <=> Ascending(q) /\ Ascending(r) /\ Below(Ids(q), Ids(r))
<1> DEFINE s == q \o r
<1>1. /\ Len(q) \in Nat /\ Len(r) \in Nat
      /\ DOMAIN q = 1 .. Len(q) /\ DOMAIN r = 1 .. Len(r)
  BY LenProperties
<1>2. /\ s \in Seq(LogLine) /\ DOMAIN s = 1 .. Len(q) + Len(r)
      /\ \A i \in 1 .. Len(q) + Len(r) : s[i] = IF i <= Len(q) THEN q[i] ELSE r[i - Len(q)]
  BY ConcatProperties, LenProperties
<1> HIDE DEF s
<1>3. \A i \in 1 .. Len(q) : i \in 1 .. Len(q) + Len(r) /\ s[i] = q[i]
  BY <1>1, <1>2
<1>4. \A i \in 1 .. Len(r) : Len(q) + i \in 1 .. Len(q) + Len(r) /\ s[Len(q) + i] = r[i]
  <2>1. TAKE i \in 1 .. Len(r)
  <2>2. /\ Len(q) + i \in 1 .. Len(q) + Len(r) /\ ~(Len(q) + i <= Len(q))
        /\ Len(q) + i - Len(q) = i
    BY <1>1
  <2>3. QED
    BY <1>2, <2>2
<1>5. \A i \in 1 .. Len(q) + Len(r) :
         \/ i \in 1 .. Len(q)
         \/ i - Len(q) \in 1 .. Len(r) /\ Len(q) + (i - Len(q)) = i
  BY <1>1
<1>6. Ids(s) = Ids(q) \union Ids(r)
  <2>1. \A i \in 1 .. Len(q) + Len(r) : s[i].id \in Ids(q) \union Ids(r)
    <3>1. TAKE i \in 1 .. Len(q) + Len(r)
    <3>2. CASE i \in 1 .. Len(q)
      BY <1>1, <1>3, <3>2 DEF Ids
    <3>3. CASE i - Len(q) \in 1 .. Len(r) /\ Len(q) + (i - Len(q)) = i
      BY <1>1, <1>4, <3>3 DEF Ids
    <3>4. QED
      BY <1>5, <3>2, <3>3
  <2>2. \A i \in 1 .. Len(q) : q[i].id \in Ids(s)
    BY <1>2, <1>3 DEF Ids
  <2>3. \A i \in 1 .. Len(r) : r[i].id \in Ids(s)
    BY <1>2, <1>4 DEF Ids
  <2>4. QED
    BY <1>1, <1>2, <2>1, <2>2, <2>3 DEF Ids
<1>7. ASSUME Ascending(s)
      PROVE  Ascending(q) /\ Ascending(r) /\ Below(Ids(q), Ids(r))
  <2>1. Ascending(q)
    BY <1>1, <1>2, <1>3, <1>7 DEF Ascending
  <2>2. \A i, j \in 1 .. Len(r) : i < j => r[i].id < r[j].id
    <3>1. TAKE i, j \in 1 .. Len(r)
    <3>2. i < j => Len(q) + i < Len(q) + j
      BY <1>1
    <3>3. QED
      BY <1>2, <1>4, <1>7, <3>2 DEF Ascending
  <2>3. \A i \in 1 .. Len(q), j \in 1 .. Len(r) : q[i].id < r[j].id
    <3>1. TAKE i \in 1 .. Len(q), j \in 1 .. Len(r)
    <3>2. i < Len(q) + j
      BY <1>1
    <3>3. QED
      BY <1>2, <1>3, <1>4, <1>7, <3>2 DEF Ascending
  <2>4. QED
    BY <1>1, <2>1, <2>2, <2>3 DEF Ascending, Below, Ids
<1>8. ASSUME Ascending(q), Ascending(r), Below(Ids(q), Ids(r))
      PROVE  Ascending(s)
  <2> SUFFICES ASSUME NEW i \in 1 .. Len(q) + Len(r), NEW j \in 1 .. Len(q) + Len(r), i < j
               PROVE  s[i].id < s[j].id
    BY <1>2 DEF Ascending
  <2>1. \A k \in 1 .. Len(q), m \in 1 .. Len(r) : q[k].id < r[m].id
    BY <1>1, <1>8 DEF Below, Ids
  <2>2. CASE j \in 1 .. Len(q)
    <3>1. i \in 1 .. Len(q)
      BY <1>1, <2>2
    <3>2. QED
      BY <1>1, <1>3, <1>8, <2>2, <3>1 DEF Ascending
  <2>3. CASE i \in 1 .. Len(q) /\ j - Len(q) \in 1 .. Len(r) /\ Len(q) + (j - Len(q)) = j
    BY <1>3, <1>4, <2>1, <2>3
  <2>4. CASE /\ i - Len(q) \in 1 .. Len(r) /\ Len(q) + (i - Len(q)) = i
             /\ j - Len(q) \in 1 .. Len(r) /\ Len(q) + (j - Len(q)) = j
    <3>1. i - Len(q) < j - Len(q)
      BY <1>1
    <3>2. r[i - Len(q)].id < r[j - Len(q)].id
      BY <1>1, <1>8, <2>4, <3>1 DEF Ascending
    <3>3. QED
      BY <1>4, <2>4, <3>2
  <2>5. QED
    BY <1>5, <2>2, <2>3, <2>4
<1>9. QED
  BY <1>2, <1>6, <1>7, <1>8 DEF s

\* The numbers in a sequence that is divided.
LEMMA IdsDivided ==
    ASSUME NEW q \in Seq(LogLine), NEW n \in 0 .. Len(q), Ascending(q)
    PROVE  /\ Ids(q) = Ids(Front(q, n)) \union Ids(Beyond(q, n))
           /\ Ascending(Front(q, n)) /\ Ascending(Beyond(q, n))
           /\ Below(Ids(Front(q, n)), Ids(Beyond(q, n)))
<1> DEFINE f == Front(q, n)
           g == Beyond(q, n)
<1>1. f \in Seq(LogLine) /\ g \in Seq(LogLine) /\ f \o g = q
  BY FrontOfSeq, BeyondOfSeq, FrontAndBeyond
<1> HIDE DEF f, g
<1>2. /\ Ids(f \o g) = Ids(f) \union Ids(g)
      /\ Ascending(f \o g) <=> Ascending(f) /\ Ascending(g) /\ Below(Ids(f), Ids(g))
  BY <1>1, IdsOfConcat
<1>3. QED
  BY <1>1, <1>2 DEF f, g

LEMMA EntriesProperties ==
    ASSUME NEW d \in Seq(Record)
    PROVE  /\ EntriesOf(d) \in Seq(LogLine) /\ Len(EntriesOf(d)) = Len(d)
           /\ \A i \in 1 .. Len(d) : EntriesOf(d)[i] = d[i].entry
<1>1. /\ Len(d) \in Nat /\ DOMAIN d = 1 .. Len(d)
      /\ \A i \in 1 .. Len(d) : d[i].entry \in LogLine
  <2>1. \A i \in 1 .. Len(d) : d[i] \in Record
    BY ElementOfSeq
  <2>2. QED
    BY <2>1, LenProperties DEF Record
<1>2. EntriesOf(d) \in [1 .. Len(d) -> LogLine]
  BY <1>1 DEF EntriesOf
<1>3. QED
  BY <1>1, <1>2, FunctionIsSeq DEF EntriesOf

\* The entries of what is written now follow those written before.
LEMMA EntriesWritten ==
    ASSUME NEW d \in Seq(Record), NEW f \in Days, NEW new \in Seq(LogLine)
    PROVE  EntriesOf(d \o [i \in 1 .. Len(new) |-> [file |-> f, entry |-> new[i]]])
              = EntriesOf(d) \o new
<1> DEFINE added == [i \in 1 .. Len(new) |-> [file |-> f, entry |-> new[i]]]
           all == d \o added
<1>1. /\ Len(new) \in Nat /\ Len(d) \in Nat
      /\ \A i \in 1 .. Len(new) : new[i] \in LogLine
  BY LenProperties, ElementOfSeq
<1>2. added \in [1 .. Len(new) -> Record]
  BY <1>1 DEF Record
<1>3. /\ added \in Seq(Record) /\ Len(added) = Len(new)
      /\ \A i \in 1 .. Len(new) : added[i].entry = new[i]
  BY <1>1, <1>2, FunctionIsSeq
<1> HIDE DEF added
<1>4. /\ all \in Seq(Record) /\ Len(all) = Len(d) + Len(new)
      /\ \A i \in 1 .. Len(d) + Len(new) :
            all[i] = IF i <= Len(d) THEN d[i] ELSE added[i - Len(d)]
  <2>1. added \in Seq(Record)
    BY <1>3
  <2>2. /\ all \in Seq(Record) /\ Len(all) = Len(d) + Len(added)
        /\ \A i \in 1 .. Len(d) + Len(added) :
              all[i] = IF i <= Len(d) THEN d[i] ELSE added[i - Len(d)]
    BY <2>1, ConcatProperties
  <2>3. QED
    BY <1>3, <2>2
<1> HIDE DEF all
<1>5. /\ EntriesOf(all) \in Seq(LogLine) /\ Len(EntriesOf(all)) = Len(d) + Len(new)
      /\ \A i \in 1 .. Len(d) + Len(new) : EntriesOf(all)[i] = all[i].entry
  BY <1>4, EntriesProperties
<1>6. /\ EntriesOf(d) \in Seq(LogLine) /\ Len(EntriesOf(d)) = Len(d)
      /\ \A i \in 1 .. Len(d) : EntriesOf(d)[i] = d[i].entry
  BY EntriesProperties
<1> DEFINE before == EntriesOf(d)
           after == EntriesOf(all)
<1>7. /\ before \in Seq(LogLine) /\ Len(before) = Len(d)
      /\ after \in Seq(LogLine) /\ Len(after) = Len(d) + Len(new)
      /\ \A i \in 1 .. Len(d) : before[i] = d[i].entry
      /\ \A i \in 1 .. Len(d) + Len(new) : after[i] = all[i].entry
  BY <1>5, <1>6
<1> HIDE DEF before, after
<1>8. /\ before \o new \in Seq(LogLine) /\ Len(before \o new) = Len(d) + Len(new)
      /\ \A i \in 1 .. Len(d) + Len(new) :
            (before \o new)[i] = IF i <= Len(d) THEN before[i] ELSE new[i - Len(d)]
  <2>1. before \in Seq(LogLine) /\ Len(before) = Len(d)
    BY <1>7
  <2>2. /\ before \o new \in Seq(LogLine) /\ Len(before \o new) = Len(before) + Len(new)
        /\ \A i \in 1 .. Len(before) + Len(new) :
              (before \o new)[i] = IF i <= Len(before) THEN before[i] ELSE new[i - Len(before)]
    BY <2>1, ConcatProperties
  <2>3. QED
    BY <2>1, <2>2
<1>9. ASSUME NEW i \in 1 .. Len(d) + Len(new)
      PROVE  after[i] = (before \o new)[i]
  <2>1. CASE i <= Len(d)
    BY <1>1, <1>4, <1>7, <1>8, <2>1
  <2>2. CASE ~(i <= Len(d))
    <3>1. i - Len(d) \in 1 .. Len(new)
      BY <1>1, <2>2
    <3>2. QED
      BY <1>3, <1>4, <1>7, <1>8, <2>2, <3>1
  <2>3. QED
    BY <2>1, <2>2
<1>10. after = before \o new
  BY <1>7, <1>8, <1>9, SeqEqual
<1>11. QED
  BY <1>10 DEF after, before, all, added

\* The queues in which lines wait are sequences of them.
LEMMA WaitingLines ==
    ASSUME QueuesOK
    PROVE  /\ disk \in Seq(Record) /\ EntriesOf(disk) \in Seq(LogLine)
           /\ log_buffer \in Seq(LogLine) /\ log_current \in Seq(LogLine)
           /\ log_queue \in Seq(LogLine)
  BY EntriesProperties DEF QueuesOK, Record

\* world_log_line() gives the lines numbers that are higher than all before.
LEMMA OrderMerge ==
    ASSUME TypeOK, OrderInv, Merge
    PROVE  OrderInv'
<1> DEFINE new == Numbered(client_toqueue, logged)
<1>1. logged \in Nat /\ client_toqueue \in Seq(Line) /\ Len(client_toqueue) \in Nat
  BY LenProperties DEF TypeOK, QueuesOK
<1>2. /\ new \in Seq(LogLine) /\ DOMAIN new = 1 .. Len(client_toqueue)
      /\ \A i \in 1 .. Len(client_toqueue) : new[i].id = logged + i
  <2>1. /\ new \in Seq(LogLine) /\ Len(new) = Len(client_toqueue)
        /\ \A i \in 1 .. Len(client_toqueue) :
              new[i] = [id |-> logged + i, line |-> client_toqueue[i]]
    BY <1>1, NumberedLines
  <2>2. DOMAIN new = 1 .. Len(client_toqueue)
    BY <2>1, LenProperties
  <2> HIDE DEF new
  <2>3. ASSUME NEW i \in 1 .. Len(client_toqueue) PROVE new[i].id = logged + i
    <3>1. new[i] = [id |-> logged + i, line |-> client_toqueue[i]]
      BY <2>1
    <3>2. QED
      BY <3>1
  <2>4. QED
    BY <2>1, <2>2, <2>3
<1>3. EntriesOf(disk)' = EntriesOf(disk) /\ log_buffer' = log_buffer /\ log_current' = log_current
  BY DEF Merge
<1>4. \/ log_queue' = log_queue /\ logged' = logged
      \/ log_queue' = log_queue \o new /\ logged' = logged + Len(client_toqueue)
  BY DEF Merge
<1> HIDE DEF new
<1>5. Ascending(new) /\ \A x \in Ids(new) : logged < x /\ x <= logged + Len(client_toqueue)
  BY <1>1, <1>2 DEF Ascending, Ids
<1>6. \A x \in Ids(EntriesOf(disk)) \union Ids(log_buffer) \union Ids(log_current)
              \union Ids(log_queue) : x \in Nat /\ x <= logged
  <2>1. ASSUME NEW q \in Seq(LogLine), NEW x \in Ids(q) PROVE x \in Nat
    <3>1. PICK i \in 1 .. Len(q) : x = q[i].id
      BY <2>1, LenProperties DEF Ids
    <3>2. q[i] \in LogLine
      BY ElementOfSeq
    <3>3. QED
      BY <3>1, <3>2 DEF LogLine
  <2>2. QED
    BY <2>1, WaitingLines DEF TypeOK, OrderInv
<1>7. CASE log_queue' = log_queue /\ logged' = logged
  BY <1>3, <1>7 DEF OrderInv, Ascending, Below, Ids
<1>8. CASE log_queue' = log_queue \o new /\ logged' = logged + Len(client_toqueue)
  <2>1. /\ Ids(log_queue \o new) = Ids(log_queue) \union Ids(new)
        /\ Ascending(log_queue \o new)
              <=> Ascending(log_queue) /\ Ascending(new) /\ Below(Ids(log_queue), Ids(new))
    BY <1>2, IdsOfConcat, WaitingLines DEF TypeOK
  <2>2. \A x \in Ids(EntriesOf(disk)) \union Ids(log_buffer) \union Ids(log_current)
              \union Ids(log_queue) : x <= logged + Len(client_toqueue) /\ \A y \in Ids(new) : x < y
    <3>1. ASSUME NEW x \in Nat, x <= logged, NEW y \in Ids(new)
          PROVE  x < y
      <4>1. y \in Nat
        BY <1>1, <1>2 DEF Ids
      <4>2. logged < y
        BY <1>5
      <4>3. QED
        BY <1>1, <3>1, <4>1, <4>2
    <3>2. \A x \in Nat : x <= logged => x <= logged + Len(client_toqueue)
      BY <1>1
    <3>3. QED
      BY <1>6, <3>1, <3>2
  <2>3. Ascending(log_queue')
    BY <1>5, <1>8, <2>1, <2>2 DEF OrderInv, Below
  <2>4. Ids(log_queue') = Ids(log_queue) \union Ids(new)
    BY <1>8, <2>1
  <2>5. QED
    BY <1>3, <1>5, <1>8, <2>2, <2>3, <2>4 DEF OrderInv, Below
<1>9. QED
  BY <1>4, <1>7, <1>8

LEMMA OrderMove ==
    ASSUME TypeOK, OrderInv, MoveLines
    PROVE  OrderInv'
<1>1. PICK n \in 0 .. Len(log_queue) :
          /\ log_current' = log_current \o Front(log_queue, n)
          /\ log_queue' = Beyond(log_queue, n)
  BY DEF MoveLines
<1> DEFINE f == Front(log_queue, n)
           g == Beyond(log_queue, n)
<1>2. /\ EntriesOf(disk)' = EntriesOf(disk) /\ log_buffer' = log_buffer /\ logged' = logged
      /\ log_current' = log_current \o f /\ log_queue' = g
  BY <1>1 DEF MoveLines
<1>3. f \in Seq(LogLine) /\ log_current \in Seq(LogLine) /\ log_queue \in Seq(LogLine)
  BY FrontOfSeq, WaitingLines DEF TypeOK
<1>4. /\ Ids(log_queue) = Ids(f) \union Ids(g)
      /\ Ascending(f) /\ Ascending(g) /\ Below(Ids(f), Ids(g))
  BY <1>3, IdsDivided DEF OrderInv
<1> HIDE DEF f, g
<1>5. /\ Ids(log_current \o f) = Ids(log_current) \union Ids(f)
      /\ Ascending(log_current \o f)
            <=> Ascending(log_current) /\ Ascending(f) /\ Below(Ids(log_current), Ids(f))
  BY <1>3, IdsOfConcat
<1>6. /\ Ids(log_current') = Ids(log_current) \union Ids(f) /\ Ids(log_queue') = Ids(g)
      /\ Ascending(log_current') /\ Ascending(log_queue')
  BY <1>2, <1>4, <1>5 DEF OrderInv, Below
<1>7. QED
  BY <1>2, <1>4, <1>6 DEF OrderInv, Below

\* flush_buffer() moves lines from log_current to the buffer, and from there to
\* the file, unless write() fails.
LEMMA OrderOutput ==
    ASSUME TypeInv, OrderInv, Write \/ WriteFails
    PROVE  OrderInv'
<1> DEFINE written == EntriesOf(disk)
           front == Front(log_current, Moved)
           rest == Beyond(log_current, Moved)
<1>1. /\ Moved \in 0 .. Len(log_current) /\ Filled \in Seq(LogLine)
      /\ disk \in Seq(Record) /\ written \in Seq(LogLine)
      /\ log_buffer \in Seq(LogLine) /\ log_current \in Seq(LogLine) /\ log_queue \in Seq(LogLine)
  BY FillFits, WaitingLines DEF TypeInv, TypeOK
<1>2. front \in Seq(LogLine)
  BY <1>1, FrontOfSeq
<1>3. /\ Ids(log_current) = Ids(front) \union Ids(rest)
      /\ Ascending(front) /\ Ascending(rest) /\ Below(Ids(front), Ids(rest))
  BY <1>1, IdsDivided DEF OrderInv
<1>4. Filled = log_buffer \o front
  BY DEF Filled
<1> HIDE DEF written, front, rest
<1>5. /\ Ids(Filled) = Ids(log_buffer) \union Ids(front)
      /\ Ascending(Filled)
            <=> Ascending(log_buffer) /\ Ascending(front) /\ Below(Ids(log_buffer), Ids(front))
  BY <1>1, <1>2, <1>4, IdsOfConcat
<1>6. Ascending(Filled)
  BY <1>3, <1>5 DEF OrderInv, Below
<1>7. /\ Below(Ids(written), Ids(Filled) \union Ids(rest) \union Ids(log_queue))
      /\ Below(Ids(Filled), Ids(rest) \union Ids(log_queue))
      /\ Below(Ids(rest), Ids(log_queue))
  BY <1>3, <1>5 DEF OrderInv, Below, written
<1>8. \A x \in Ids(written) \union Ids(Filled) \union Ids(rest) \union Ids(log_queue) : x <= logged
  BY <1>3, <1>5 DEF OrderInv, written
<1>9. log_current' = rest /\ log_queue' = log_queue /\ logged' = logged
  BY DEF Write, WriteFails, rest
<1>10. CASE WriteFails
  <2>1. EntriesOf(disk)' = written /\ log_buffer' = Filled
    BY <1>10 DEF WriteFails, written
  <2>2. QED
    BY <1>3, <1>6, <1>7, <1>8, <1>9, <2>1 DEF OrderInv, written
<1>11. CASE Write
  <2>1. PICK n \in 1 .. Len(Filled) :
          /\ disk' = disk \o [i \in 1 .. n |-> [file |-> log_fd, entry |-> Filled[i]]]
          /\ log_buffer' = Beyond(Filled, n)
    BY <1>11 DEF Write
  <2> DEFINE f == Front(Filled, n)
             g == Beyond(Filled, n)
  <2>2. n \in 0 .. Len(Filled)
    OBVIOUS
  <2>3. f \in Seq(LogLine) /\ Len(f) = n /\ \A i \in 1 .. n : f[i] = Filled[i]
    BY <1>1, <2>2, FrontOfSeq
  <2>4. /\ Ids(Filled) = Ids(f) \union Ids(g)
        /\ Ascending(f) /\ Ascending(g) /\ Below(Ids(f), Ids(g))
    BY <1>1, <1>6, <2>2, IdsDivided
  <2>5. log_fd \in Days
    BY <1>11 DEF Write, TypeInv, TypeOK, ControlOK, OpenToWrite
  <2>6. log_buffer' = g
    BY <2>1
  <2> HIDE DEF f, g
  <2>7. disk' = disk \o [i \in 1 .. Len(f) |-> [file |-> log_fd, entry |-> f[i]]]
    BY <2>1, <2>3
  <2>8. EntriesOf(disk') = written \o f
    BY <1>1, <2>3, <2>5, <2>7, EntriesWritten DEF written
  <2>9. /\ Ids(written \o f) = Ids(written) \union Ids(f)
        /\ Ascending(written \o f)
              <=> Ascending(written) /\ Ascending(f) /\ Below(Ids(written), Ids(f))
    BY <1>1, <2>3, IdsOfConcat
  <2>10. Ascending(written \o f)
    BY <1>7, <2>4, <2>9 DEF OrderInv, Below, written
  <2>11. /\ Below(Ids(written \o f), Ids(g) \union Ids(rest) \union Ids(log_queue))
         /\ Below(Ids(g), Ids(rest) \union Ids(log_queue))
    BY <1>7, <2>4, <2>9 DEF Below
  <2>12. \A x \in Ids(written \o f) \union Ids(g) \union Ids(rest) \union Ids(log_queue) : x <= logged
    BY <1>8, <2>4, <2>9
  <2>13. QED
    BY <1>3, <1>7, <1>9, <2>4, <2>6, <2>8, <2>10, <2>11, <2>12 DEF OrderInv
<1>12. QED
  BY <1>10, <1>11

\* world_trim_dynamic_queues() drops lines from the ends of the queues.
LEMMA OrderTrim ==
    ASSUME TypeOK, OrderInv, Trim
    PROVE  OrderInv'
<1>1. KeptOfCurrent \in 0 .. Len(log_current) /\ KeptOfQueue \in 0 .. Len(log_queue)
  BY KeptIsThere DEF TypeOK
<1>2. log_current \in Seq(LogLine) /\ log_queue \in Seq(LogLine)
  BY WaitingLines DEF TypeOK
<1>3. /\ Ids(log_current') \subseteq Ids(log_current) /\ Ascending(log_current')
      /\ Ids(log_queue') \subseteq Ids(log_queue) /\ Ascending(log_queue')
  BY <1>1, <1>2, IdsDivided DEF OrderInv, Trim
<1>4. EntriesOf(disk)' = EntriesOf(disk) /\ log_buffer' = log_buffer /\ logged' = logged
  BY DEF Trim
<1>5. QED
  BY <1>3, <1>4 DEF OrderInv, Below

LEMMA OrderStep ==
    ASSUME TypeInv, OrderInv, [Next]_vars
    PROVE  OrderInv'
<1>same. ASSUME UNCHANGED <<waiting, disk, logged>>
         PROVE  OrderInv'
  BY <1>same DEF OrderInv, waiting, Ascending, Below, Ids, EntriesOf
<1>1. CASE Merge \/ MoveLines \/ Write \/ WriteFails \/ Trim
  BY <1>1, OrderMerge, OrderMove, OrderOutput, OrderTrim DEF TypeInv
<1>2. CASE NetworkDone \/ TickDay \/ TickSecond \/ Dispatch \/ LineArrives \/ CommandsDone
  BY <1>2, <1>same DEF NetworkDone, TickDay, TickSecond, Dispatch, LineArrives, CommandsDone
<1>3. CASE Set \/ Shutdown \/ Signal
  BY <1>3, <1>same DEF Set, Shutdown, Signal, StartShutdown
<1>4. CASE NothingToLog \/ NextDay \/ OpenFile \/ OpenFails \/ NoNeedToOpen
  BY <1>4, <1>same DEF NothingToLog, NextDay, OpenFile, OpenFails, NoNeedToOpen
<1>5. CASE AllWritten \/ PassDone \/ End
  BY <1>5, <1>same DEF AllWritten, PassDone, End
<1>6. CASE UNCHANGED vars
  BY <1>6, <1>same DEF vars
<1>7. QED
  BY <1>1, <1>2, <1>3, <1>4, <1>5, <1>6 DEF Next, Pass, Flush, Output

\* What is on disk, in the buffer and in the queues is one ascending sequence.
LEMMA OrderInvFiles == ASSUME TypeOK, OrderInv PROVE FilesInOrder
<1> DEFINE written == EntriesOf(disk)
           wb == written \o log_buffer
           wbc == wb \o log_current
           all == wbc \o log_queue
<1>1. /\ written \in Seq(LogLine) /\ log_buffer \in Seq(LogLine)
      /\ log_current \in Seq(LogLine) /\ log_queue \in Seq(LogLine)
  BY WaitingLines DEF TypeOK
<1>2. /\ wb \in Seq(LogLine) /\ Ids(wb) = Ids(written) \union Ids(log_buffer)
      /\ Ascending(wb) <=> Ascending(written) /\ Ascending(log_buffer)
                              /\ Below(Ids(written), Ids(log_buffer))
  BY <1>1, IdsOfConcat
<1>3. Ascending(wb)
  BY <1>2 DEF OrderInv, Below
<1> HIDE DEF wb
<1>4. /\ wbc \in Seq(LogLine) /\ Ids(wbc) = Ids(wb) \union Ids(log_current)
      /\ Ascending(wbc) <=> Ascending(wb) /\ Ascending(log_current)
                               /\ Below(Ids(wb), Ids(log_current))
  BY <1>1, <1>2, IdsOfConcat
<1>5. Ascending(wbc)
  BY <1>2, <1>3, <1>4 DEF OrderInv, Below
<1> HIDE DEF wbc
<1>6. Ascending(all) <=> Ascending(wbc) /\ Ascending(log_queue) /\ Below(Ids(wbc), Ids(log_queue))
  BY <1>1, <1>4, IdsOfConcat
<1>7. Ascending(all)
  BY <1>2, <1>4, <1>5, <1>6 DEF OrderInv, Below
<1>8. QED
  BY <1>7 DEF all, wbc, wb, EntriesOf, Ascending, FilesInOrder

\* The lines in a file and those that will follow are in the order in which they
\* were logged, and none is there twice, through trims, failed writes and
\* changes of the day (world_flush_client_logqueue(), flush_buffer()).
THEOREM FilesAreInOrder == Spec => []FilesInOrder
<1>1. Init => OrderInv
  <2> SUFFICES ASSUME Init PROVE OrderInv
    OBVIOUS
  <2>1. /\ EntriesOf(disk) = <<>> /\ log_buffer = <<>> /\ log_current = <<>> /\ log_queue = <<>>
    BY DEF Init, EntriesOf
  <2>2. Ascending(<<>>) /\ Ids(<<>>) = {}
    BY DEF Ascending, Ids
  <2>3. QED
    BY <2>1, <2>2 DEF OrderInv, Below
<1>2. TypeInv /\ OrderInv /\ [Next]_vars => OrderInv'
  BY OrderStep
<1>3. TypeInv /\ OrderInv => FilesInOrder
  BY OrderInvFiles DEF TypeInv
<1>4. QED
  BY <1>1, <1>2, <1>3, TypeInvariant, PTL DEF Spec
=============================================================================
