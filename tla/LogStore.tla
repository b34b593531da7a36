------------------------------ MODULE LogStore ------------------------------
(***************************************************************************)
(* The log of a world: lines on their way to the client are copied to      *)
(* log_queue, moved day by day to log_current, and written through         *)
(* log_buffer to the file of their day (log.c).  One pass of mainloop()    *)
(* goes through these phases, held in pc:                                  *)
(*                                                                         *)
(*   network   wait_for_network(): lines of the server arrive              *)
(*   timer     world_timer_tick()                                          *)
(*   dispatch  server_rxqueue to client_toqueue                            *)
(*   commands  /shutdown, /set logging and /set logbuffer_size             *)
(*   merge     client_toqueue to log_queue                                 *)
(*   flush, open, write   world_flush_client_logqueue()                    *)
(*   trim      world_trim_dynamic_queues()                                 *)
(*   links     handle_flags(), and the end of the process                  *)
(*                                                                         *)
(* A line knows the day it was made on (current_day()) and the date of its *)
(* time stamp (current_time()), which names the file it goes to.  Days and *)
(* dates are counted from 1, the day mooproxy starts.  Only lines that may *)
(* be logged are modelled, each as one unit of buffer space; a line is     *)
(* written when its last byte is.  Creating the directories is part of     *)
(* opening a file.  Text, time stamps and fdatasync() are left out.        *)
(*                                                                         *)
(* Definitions named Slip... are what a slip in the code would make of the *)
(* definition that follows them; no specification uses them.               *)
(***************************************************************************)
EXTENDS Integers, Sequences, FiniteSets

CONSTANTS
    MaxLines,       \* bound: lines that arrive from the server
    MaxDay,         \* bound: the last day
    MaxFailures,    \* bound: failures to open or to write a file
    LogBufferLen,   \* NET_BBUFFER_LEN, in lines
    Sizes,          \* values of logbuffer_size, in lines
    ClockMayRepeat  \* may a pass take whole minutes, to the second?

ASSUME BoundsAssumption == MaxLines \in Nat /\ MaxDay \in Nat \ {0} /\ MaxFailures \in Nat
ASSUME BufferAssumption == LogBufferLen \in Nat \ {0} /\ Sizes \subseteq Nat
ASSUME ClockAssumption == ClockMayRepeat \in BOOLEAN

VARIABLES
    pc,
    day,                 \* current_day()
    date,                \* the date of current_time()
    flags,               \* wld->flags: LOGLINKUPDATE and SHUTDOWN
    logging, logbuffer_size,
    server_rxqueue, client_toqueue,
    log_queue, log_current,
    log_buffer,          \* lines with a byte in log_buffer, of log_bfull bytes
    log_currentday,
    log_fd,              \* the date of the open file, or NULL
    log_lasterror,       \* is an error remembered?
    dropped_loggable_lines,
    existing,            \* dates of which there is a file
    today, yesterday,    \* dates of the files these links name, or NULL
    arrived, failures,   \* counted against MaxLines and MaxFailures
    \* History variables, read by the properties only:
    logged,              \* lines put in log_queue; also the last one's id
    disk,                \* what was written, in order, each line with its file
    reported,            \* drops that were reported to the user
    forced               \* is the shutdown a forced one?

settings == <<logging, logbuffer_size>>
incoming == <<server_rxqueue, client_toqueue>>
waiting == <<log_queue, log_current, log_buffer>>
file == <<log_currentday, log_fd>>
links == <<today, yesterday>>
bounds == <<arrived, failures>>
vars == <<pc, day, date, flags, settings, incoming, waiting, file, log_lasterror,
          dropped_loggable_lines, existing, links, bounds, logged, disk, reported, forced>>

NULL == -1
Phase == {"network", "timer", "dispatch", "commands", "merge", "flush", "open", "write",
          "trim", "links", "ended"}
Flag == {"LOGLINKUPDATE", "SHUTDOWN"}
Days == 1 .. MaxDay

\* line_create(); the second line is what world_msg_client() makes.
Line == [from : {"server", "mooproxy"}, day : Days, date : Days]
ServerLine == [from |-> "server", day |-> day, date |-> date]
Checkpoint(today_day, today_date) ==
    [from |-> "mooproxy", day |-> today_day, date |-> today_date]

\* A line in the log's queues, numbered in the order the lines came.
LogLine == [id : Nat \ {0}, line : Line]

Least(m, n) == IF m < n THEN m ELSE n
Front(queue, n) == SubSeq(queue, 1, n)
SlipBeyond(queue, n) == Front(queue, Len(queue) - n)
Beyond(queue, n) == SubSeq(queue, n + 1, Len(queue))

Unlogged == Len(log_queue) + Len(log_current) + Len(log_buffer)

Init ==
    /\ pc = "network"
    /\ day = 1 /\ date = 1
    /\ flags = {"LOGLINKUPDATE"}  \* the configuration file sets logging
    /\ logging \in BOOLEAN /\ logbuffer_size \in Sizes
    /\ server_rxqueue = <<>>
    /\ client_toqueue = <<Checkpoint(1, 1)>>  \* "Started mooproxy"
    /\ log_queue = <<>> /\ log_current = <<>> /\ log_buffer = <<>>
    /\ log_currentday = 1 /\ log_fd = NULL
    /\ log_lasterror = FALSE /\ dropped_loggable_lines = 0
    /\ existing \in SUBSET {0, 1}
    /\ today = NULL /\ yesterday = NULL
    /\ arrived = 0 /\ failures = 0
    /\ logged = 0 /\ disk = <<>> /\ reported = 0 /\ forced = FALSE

-----------------------------------------------------------------------------
(* Lines and the clock.                                                    *)

\* handle_server_fd(); nothing is read while lines are queued.
LineArrives ==
    /\ pc = "network"
    /\ client_toqueue = <<>>
    /\ arrived < MaxLines
    /\ server_rxqueue' = Append(server_rxqueue, ServerLine)
    /\ arrived' = arrived + 1
    /\ UNCHANGED <<pc, day, date, flags, settings, client_toqueue, waiting, file, log_lasterror,
                   dropped_loggable_lines, existing, links, failures, logged, disk, reported, forced>>

NetworkDone ==
    /\ pc = "network"
    /\ pc' = "timer"
    /\ UNCHANGED <<day, date, flags, settings, incoming, waiting, file, log_lasterror,
                   dropped_loggable_lines, existing, links, bounds, logged, disk, reported, forced>>

\* tick_second(), unless the clock shows the second of the last pass again,
\* and tick_day().
SlipTickDay ==
    /\ pc = "timer"
    /\ \E d \in Days :
        /\ d > day
        /\ day' = d
        /\ date' = d
        /\ client_toqueue' = Append(client_toqueue, Checkpoint(d, d))
    /\ pc' = "dispatch"
    /\ UNCHANGED <<flags, settings, server_rxqueue, waiting, file, log_lasterror,
                   dropped_loggable_lines, existing, links, bounds, logged, disk, reported, forced>>
TickDay ==
    /\ pc = "timer"
    /\ \E d \in Days :
        /\ d > day
        /\ day' = d
        /\ \/ date' = d
           \/ ClockMayRepeat /\ UNCHANGED date
        /\ client_toqueue' = Append(client_toqueue, Checkpoint(d, date'))
    /\ flags' = flags \union {"LOGLINKUPDATE"}
    /\ pc' = "dispatch"
    /\ UNCHANGED <<settings, server_rxqueue, waiting, file, log_lasterror,
                   dropped_loggable_lines, existing, links, bounds, logged, disk, reported, forced>>

\* The next second of the same day, or no tick at all.
TickSecond ==
    /\ pc = "timer"
    /\ date' \in {date, day}
    /\ pc' = "dispatch"
    /\ UNCHANGED <<day, flags, settings, incoming, waiting, file, log_lasterror,
                   dropped_loggable_lines, existing, links, bounds, logged, disk, reported, forced>>

Dispatch ==
    /\ pc = "dispatch"
    /\ client_toqueue' = client_toqueue \o server_rxqueue
    /\ server_rxqueue' = <<>>
    /\ pc' = "commands"
    /\ UNCHANGED <<day, date, flags, settings, waiting, file, log_lasterror,
                   dropped_loggable_lines, existing, links, bounds, logged, disk, reported, forced>>

-----------------------------------------------------------------------------
(* Commands and signals.                                                   *)

\* aset_logging(), aset_logbuffer_size()
Set ==
    /\ pc = "commands"
    /\ \/ /\ logging' \in BOOLEAN
          /\ flags' = flags \union {"LOGLINKUPDATE"}
          /\ UNCHANGED logbuffer_size
       \/ /\ logbuffer_size' \in Sizes \ {logbuffer_size}
          /\ UNCHANGED <<logging, flags>>
    /\ UNCHANGED <<pc, day, date, incoming, waiting, file, log_lasterror,
                   dropped_loggable_lines, existing, links, bounds, logged, disk, reported, forced>>

\* world_start_shutdown(), for /shutdown in the commands and for a signal at
\* any time.  When it refuses it changes nothing; a second one after the first
\* has been accepted is left out.
StartShutdown(force) ==
    /\ force \/ Unlogged = 0
    /\ "SHUTDOWN" \notin flags
    /\ client_toqueue' = Append(client_toqueue, Checkpoint(day, date))
    /\ flags' = flags \union {"SHUTDOWN"}
    /\ forced' = force
    /\ UNCHANGED <<pc, day, date, settings, server_rxqueue, waiting, file, log_lasterror,
                   dropped_loggable_lines, existing, links, bounds, logged, disk, reported>>

Shutdown == pc = "commands" /\ \E force \in BOOLEAN : StartShutdown(force)

\* sighandler_sigterm(), for SIGTERM and SIGQUIT.
Signal == pc # "ended" /\ \E force \in BOOLEAN : StartShutdown(force)

CommandsDone ==
    /\ pc = "commands"
    /\ pc' = "merge"
    /\ UNCHANGED <<day, date, flags, settings, incoming, waiting, file, log_lasterror,
                   dropped_loggable_lines, existing, links, bounds, logged, disk, reported, forced>>

-----------------------------------------------------------------------------
(* Logging.                                                                *)

\* The lines as world_log_line() copies them.
Numbered(queue, last) ==
    [i \in DOMAIN queue |-> [id |-> last + i, line |-> queue[i]]]

Merge ==
    /\ pc = "merge"
    /\ \/ /\ logging
          /\ log_queue' = log_queue \o Numbered(client_toqueue, logged)
          /\ logged' = logged + Len(client_toqueue)
       \/ ~logging /\ UNCHANGED <<log_queue, logged>>
    /\ client_toqueue' = <<>>
    /\ pc' = "flush"
    /\ UNCHANGED <<day, date, flags, settings, server_rxqueue, log_current, log_buffer, file,
                   log_lasterror, dropped_loggable_lines, existing, links, bounds, disk, reported, forced>>

\* log_deinit(), which refuses when something is left in the buffer.
CloseFile ==
    IF log_buffer = <<>>
    THEN log_fd' = NULL /\ flags' = flags \union {"LOGLINKUPDATE"}
    ELSE UNCHANGED <<log_fd, flags>>

\* "Logging resumed successfully": logged itself when it reports a loss.
Resume ==
    /\ log_lasterror' = FALSE
    /\ dropped_loggable_lines' = 0
    /\ reported' = reported + dropped_loggable_lines
    /\ client_toqueue' = IF dropped_loggable_lines > 0
                         THEN Append(client_toqueue, Checkpoint(day, date))
                         ELSE client_toqueue

NothingToLog ==
    /\ pc = "flush"
    /\ Unlogged = 0
    /\ \/ log_fd # NULL /\ (~logging \/ log_currentday # day) /\ CloseFile
       \/ (log_fd = NULL \/ (logging /\ log_currentday = day)) /\ UNCHANGED <<log_fd, flags>>
    /\ \/ log_lasterror /\ Resume
       \/ ~log_lasterror
          /\ UNCHANGED <<log_lasterror, dropped_loggable_lines, reported, client_toqueue>>
    /\ pc' = "trim"
    /\ UNCHANGED <<day, date, settings, server_rxqueue, waiting, log_currentday,
                   existing, links, bounds, logged, disk, forced>>

\* The day of the open file is done, and lines of another day wait.
SlipDayIsDone ==
    log_queue # <<>> /\ log_current = <<>> /\ log_queue[1].line.day # log_currentday
DayIsDone ==
    /\ log_queue # <<>> /\ log_current = <<>> /\ log_buffer = <<>>
    /\ log_queue[1].line.day # log_currentday

SlipNextDay ==
    /\ pc = "flush"
    /\ DayIsDone
    /\ CloseFile
    /\ pc' = "trim"
    /\ UNCHANGED <<day, date, settings, incoming, waiting, log_currentday, log_lasterror,
                   dropped_loggable_lines, existing, links, bounds, logged, disk, reported, forced>>
NextDay ==
    /\ pc = "flush"
    /\ DayIsDone
    /\ CloseFile
    /\ log_currentday' = log_queue[1].line.day
    /\ pc' = "trim"
    /\ UNCHANGED <<day, date, settings, incoming, waiting, log_lasterror,
                   dropped_loggable_lines, existing, links, bounds, logged, disk, reported, forced>>

\* The first n lines of log_queue are those up to a line of another day.
OfCurrentDay(n) ==
    /\ \A i \in 1 .. n : log_queue[i].line.day = log_currentday
    /\ n < Len(log_queue) => log_queue[n + 1].line.day # log_currentday

MoveLines ==
    /\ pc = "flush"
    /\ Unlogged > 0 /\ ~DayIsDone
    /\ \E n \in 0 .. Len(log_queue) :
        /\ OfCurrentDay(n)
        /\ log_current' = log_current \o Front(log_queue, n)
        /\ log_queue' = Beyond(log_queue, n)
    /\ pc' = "open"
    /\ UNCHANGED <<day, date, flags, settings, incoming, log_buffer, file, log_lasterror,
                   dropped_loggable_lines, existing, links, bounds, logged, disk, reported, forced>>

NeedsFile == log_fd = NULL /\ log_current # <<>>

\* log_init()
OpenFile ==
    /\ pc = "open"
    /\ NeedsFile
    /\ log_fd' = log_current[1].line.date
    /\ existing' = existing \union {log_fd'}
    /\ flags' = flags \union {"LOGLINKUPDATE"}
    /\ pc' = "write"
    /\ UNCHANGED <<day, date, settings, incoming, waiting, log_currentday, log_lasterror,
                   dropped_loggable_lines, links, bounds, logged, disk, reported, forced>>

\* nag_client_error()
Fail ==
    /\ failures < MaxFailures
    /\ failures' = failures + 1
    /\ log_lasterror' = TRUE
    /\ pc' = "trim"

OpenFails ==
    /\ pc = "open"
    /\ NeedsFile
    /\ Fail
    /\ UNCHANGED <<day, date, flags, settings, incoming, waiting, file,
                   dropped_loggable_lines, existing, links, arrived, logged, disk, reported, forced>>

NoNeedToOpen ==
    /\ pc = "open"
    /\ ~NeedsFile
    /\ pc' = IF log_fd = NULL THEN "trim" ELSE "write"
    /\ UNCHANGED <<day, date, flags, settings, incoming, waiting, file, log_lasterror,
                   dropped_loggable_lines, existing, links, bounds, logged, disk, reported, forced>>

\* flush_buffer(): fill the buffer with whole lines and write some of it, again
\* and again, until all is written or a write() fails.
Room == LogBufferLen - Len(log_buffer)
Moved == Least(Len(log_current), Room)
Filled == log_buffer \o Front(log_current, Moved)

Write ==
    /\ pc = "write"
    /\ log_current' = Beyond(log_current, Moved)
    /\ \E n \in 1 .. Len(Filled) :
        /\ disk' = disk \o [i \in 1 .. n |-> [file |-> log_fd, entry |-> Filled[i]]]
        /\ log_buffer' = Beyond(Filled, n)
    /\ UNCHANGED <<pc, day, date, flags, settings, incoming, log_queue, file, log_lasterror,
                   dropped_loggable_lines, existing, links, bounds, logged, reported, forced>>

WriteFails ==
    /\ pc = "write"
    /\ log_current # <<>> \/ log_buffer # <<>>
    /\ log_current' = Beyond(log_current, Moved)
    /\ log_buffer' = Filled
    /\ Fail
    /\ UNCHANGED <<day, date, flags, settings, incoming, log_queue, file,
                   dropped_loggable_lines, existing, links, arrived, logged, disk, reported, forced>>

AllWritten ==
    /\ pc = "write"
    /\ log_current = <<>> /\ log_buffer = <<>>
    /\ pc' = "trim"
    /\ UNCHANGED <<day, date, flags, settings, incoming, waiting, file, log_lasterror,
                   dropped_loggable_lines, existing, links, bounds, logged, disk, reported, forced>>

-----------------------------------------------------------------------------
(* The end of a pass.                                                      *)

\* The newest lines go first, those of log_queue before those of log_current.
KeptOfCurrent == Least(Len(log_current), logbuffer_size)
KeptOfQueue == Least(Len(log_queue), logbuffer_size - KeptOfCurrent)

SlipTrimmed == Len(log_queue) - KeptOfQueue
Trimmed == (Len(log_queue) - KeptOfQueue) + (Len(log_current) - KeptOfCurrent)

Trim ==
    /\ pc = "trim"
    /\ log_queue' = Front(log_queue, KeptOfQueue)
    /\ log_current' = Front(log_current, KeptOfCurrent)
    /\ dropped_loggable_lines' = dropped_loggable_lines + Trimmed
    /\ pc' = "links"
    /\ UNCHANGED <<day, date, flags, settings, incoming, log_buffer, file, log_lasterror,
                   existing, links, bounds, logged, disk, reported, forced>>

\* update_one_link(): what the link to the file of a date is to be.
LinkTo(d) == IF logging /\ d \in existing THEN d ELSE NULL

UpdateLinks ==
    IF "LOGLINKUPDATE" \in flags
    THEN /\ today' = LinkTo(date) /\ yesterday' = LinkTo(date - 1)
         /\ flags' = flags \ {"LOGLINKUPDATE"}
    ELSE UNCHANGED <<links, flags>>

\* world_log_link_update()
PassDone ==
    /\ pc = "links"
    /\ "SHUTDOWN" \notin flags
    /\ UpdateLinks
    /\ pc' = "network"
    /\ UNCHANGED <<day, date, settings, incoming, waiting, file, log_lasterror,
                   dropped_loggable_lines, existing, bounds, logged, disk, reported, forced>>

\* mainloop() returns and main() calls world_log_link_remove().
End ==
    /\ pc = "links"
    /\ "SHUTDOWN" \in flags
    /\ flags' = flags \ {"LOGLINKUPDATE"}
    /\ today' = NULL /\ yesterday' = NULL
    /\ pc' = "ended"
    /\ UNCHANGED <<day, date, settings, incoming, waiting, file, log_lasterror,
                   dropped_loggable_lines, existing, bounds, logged, disk, reported, forced>>

-----------------------------------------------------------------------------
Flush == NothingToLog \/ NextDay \/ MoveLines \/ OpenFile \/ OpenFails \/ NoNeedToOpen
Output == Write \/ WriteFails \/ AllWritten

\* What goes on without anybody asking for it.
Pass == \/ NetworkDone \/ TickDay \/ TickSecond \/ Dispatch \/ CommandsDone \/ Merge
        \/ Flush \/ Output \/ Trim \/ PassDone \/ End

Next == Pass \/ LineArrives \/ Set \/ Shutdown \/ Signal

Spec == Init /\ [][Next]_vars

\* mainloop() goes on with its passes (select() waits for a second at most).
FairSpec == Spec /\ WF_vars(Pass)

-----------------------------------------------------------------------------
(* Properties.                                                             *)

ControlOK ==
    /\ pc \in Phase
    /\ day \in Days /\ date \in Days
    /\ flags \subseteq Flag
    /\ logging \in BOOLEAN /\ logbuffer_size \in Sizes
    /\ log_currentday \in Days /\ log_fd \in Days \union {NULL}
    /\ log_lasterror \in BOOLEAN /\ dropped_loggable_lines \in Nat
    /\ existing \subseteq Days \union {0}
    /\ today \in Days \union {NULL} /\ yesterday \in Days \union {0, NULL}
    /\ arrived \in 0 .. MaxLines /\ failures \in 0 .. MaxFailures
    /\ reported \in Nat /\ forced \in BOOLEAN

QueuesOK ==
    /\ server_rxqueue \in Seq(Line) /\ client_toqueue \in Seq(Line)
    /\ log_queue \in Seq(LogLine) /\ log_current \in Seq(LogLine)
    /\ log_buffer \in Seq(LogLine) /\ Len(log_buffer) <= LogBufferLen
    /\ logged \in Nat /\ disk \in Seq([file : Days, entry : LogLine])

\* Every variable has the type its code gives it, and log_buffer never
\* overflows.
TypeOK == ControlOK /\ QueuesOK

\* Every line is written to the file of its own day, also when a day ends
\* with lines still in a buffer (world_flush_client_logqueue()).
FiledByDay ==
    /\ \A i \in DOMAIN disk : disk[i].file = disk[i].entry.line.date
    /\ \A i \in DOMAIN log_buffer : log_buffer[i].line.date = log_fd

\* The lines in a file, with those to follow, are in the order in which they
\* were logged, and none is there twice.
FilesInOrder ==
    LET entries == [i \in DOMAIN disk |-> disk[i].entry]
        all == entries \o log_buffer \o log_current \o log_queue
    IN \A i, j \in DOMAIN all :
          i < j /\ all[i].line.date = all[j].line.date => all[i].id < all[j].id

\* A line that was to be logged is written, still waits, or is counted among
\* the dropped ones; the count lives until the user is told.
EveryLineAccounted == logged = Len(disk) + Unlogged + dropped_loggable_lines + reported

\* The links are up to date unless they are flagged: they name the files of
\* today and yesterday if there are such files and logging is on.
LinksFresh ==
    pc # "ended" /\ "LOGLINKUPDATE" \notin flags =>
        today = LinkTo(date) /\ yesterday = LinkTo(date - 1)

\* What waits to be logged is written some time, or the process ends: neither
\* a change of the day nor an error stops logging for good.
EventuallyLogged == Unlogged > 0 ~> Unlogged = 0 \/ pc = "ended"

\* "/shutdown now refuses to shut down if not all loggable data could be
\* written to disk" (Changelog): no line of the server is lost when mooproxy
\* ends without being forced to.
CleanShutdownLosesNothing ==
    pc = "ended" /\ ~forced =>
        \A queue \in {log_queue, log_current, log_buffer} :
            \A i \in DOMAIN queue : queue[i].line.from # "server"
=============================================================================
