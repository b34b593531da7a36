------------------------------ MODULE LineFlow ------------------------------
(***************************************************************************)
(* Store-and-forward of lines from the MOO server to a client that comes   *)
(* and goes.  One pass of mainloop() (mooproxy.c) is a sequence of phases, *)
(* held in pc:                                                             *)
(*                                                                         *)
(*   net      wait_for_network(): promote an authenticated connection, or  *)
(*            skip select() when lines are queued, or select() and read    *)
(*   timer    world_timer_tick()                                           *)
(*   server   dispatch server_rxqueue to client_toqueue                    *)
(*   client   dispatch client_rxqueue, one client line at a time           *)
(*   merge    client_toqueue to client_txqueue                             *)
(*   unqueue  no client: client_txqueue to buffered_lines, line by line    *)
(*   flush    world_flush_client_txbuf(): fill the buffer, write, repeat   *)
(*   trim     world_trim_dynamic_queues()                                  *)
(*   flags    handle_flags()                                               *)
(*                                                                         *)
(* A line is a record: its kind stands for its flags (line.h), its id is   *)
(* the arrival number of the server line it carries (0 when it carries     *)
(* none).                                                                  *)
(* Every line costs one unit of buffer space.  Authentication is reduced   *)
(* to the number of connections in AUTH_ST_CORRECT.  Messages of mooproxy  *)
(* that one handler emits next to each other are one line.  Not modelled   *)
(* here: logging (LINE_LOGONLY lines vanish in the merge), the escape      *)
(* codes of ACE, and /shutdown.                                            *)
(*                                                                         *)
(* Definitions named Slip... are what a slip in the code would make of the *)
(* definition that follows them.  No specification uses them: they serve   *)
(* to show that each property is one that the code could break.            *)
(***************************************************************************)
EXTENDS Naturals, Sequences, FiniteSets

CONSTANTS
    MaxLines,       \* bound: server lines that arrive, and notes of mooproxy
    MaxSessions,    \* bound: client sessions
    MaxNotes,       \* bound: checkpoints, and messages queued by handle_flags()
    MaxTyped,       \* bound: reads that find lines of a client
    MaxCorrect,     \* bound: simultaneous connections in AUTH_ST_CORRECT
    TxBufferLen,    \* NET_BBUFFER_LEN, in lines
    BufferSize,     \* wld->buffer_size, in lines
    ContextLines,   \* wld->context_lines
    AceLines,       \* lines that fill the screen: wld->ace_rows - 4
    ServerBatches,  \* what one read() of the server may hold: kinds of lines
    ClientBatches   \* what one read() of the client may hold: commands

ServerKind == {"regular", "mcp"}
Command == {"text", "mcp", "quit", "recall", "ace", "forget"}

ASSUME BoundsAssumption ==
    /\ MaxLines \in Nat /\ MaxSessions \in Nat /\ MaxNotes \in Nat
    /\ MaxTyped \in Nat /\ MaxCorrect \in Nat
ASSUME BufferAssumption ==
    TxBufferLen \in Nat \ {0} /\ BufferSize \in Nat /\ ContextLines \in Nat
    /\ AceLines \in Nat \ {0}
ASSUME BatchAssumption ==
    ServerBatches \subseteq Seq(ServerKind) /\ ClientBatches \subseteq Seq(Command)

VARIABLES
    pc,
    correct,         \* connections in AUTH_ST_CORRECT
    client_status,   \* "DISCONNECTED" or "CONNECTED"
    flags,           \* the two wld->flags that concern the client
    server_rxqueue, client_rxqueue, client_toqueue, client_txqueue,
    client_txbuffer, \* lines of which some byte waits in the transmit buffer
    buffered_lines, inactive_lines, history_lines,
    dropped_inactive_lines, dropped_buffered_lines,
    notes, typed,    \* counted against MaxNotes and MaxTyped
    \* History variables, read by the properties only:
    arrived,         \* server lines that have arrived; also their last id
    regular,         \* ids of those that are not MCP lines
    session,         \* number of the current or last client session
    leftover,        \* lines it still has to write for the session before
    shown,           \* id of the last line it has presented
    newest,          \* id of the last server line that was written as it came
    delivered,       \* ids written to some client, as they came or copied
    early,           \* ids that became history while on the way to a client
    dropped,         \* ids trimmed from buffered_lines or inactive_lines
    expired          \* ids trimmed or forgotten from history_lines

auth == <<correct, client_status>>
queues == <<server_rxqueue, client_toqueue, client_txqueue, client_txbuffer,
            buffered_lines, inactive_lines, history_lines>>
counts == <<notes, typed>>
drops == <<dropped_inactive_lines, dropped_buffered_lines>>
ghosts == <<arrived, regular, session, leftover, shown, newest, delivered, early,
            dropped, expired>>
vars == <<pc, auth, flags, client_rxqueue, queues, drops, counts, ghosts>>

-----------------------------------------------------------------------------
(* Lines.                                                                  *)

\* Copies that the user asks for are kinds of their own: "found" by /recall
\* (LINE_MESSAGE), "redrawn" by /recall <number> and /ace (LINE_RECALLED).
Kind == ServerKind \union {"recalled", "redrawn", "found", "message", "checkpoint"}
Line == [id : Nat, kind : Kind]

SlipDontBuf == Kind
DONTBUF == {"mcp", "recalled", "redrawn"}    \* LINE_MCP, LINE_RECALLED
SlipNoHist == {"mcp", "recalled", "redrawn", "message"}
SlipAllNoHist == Kind
NOHIST == {"mcp", "recalled", "redrawn", "found", "message"}

Message == [id |-> 0, kind |-> "message"]        \* LINE_MESSAGE
Checkpoint == [id |-> 0, kind |-> "checkpoint"]  \* LINE_CHECKPOINT
McpLine == [id |-> 0, kind |-> "mcp"]            \* made in mcp.c

\* Copies, with their flags.
Copies(queue, kind) == [i \in DOMAIN queue |-> [queue[i] EXCEPT !.kind = kind]]
CopiesOf(queue) == Copies(queue, "recalled")

Least(m, n) == IF m < n THEN m ELSE n
Front(queue, n) == SubSeq(queue, 1, n)
SlipBeyond(queue, n) == Front(queue, Len(queue) - n)
Beyond(queue, n) == SubSeq(queue, n + 1, Len(queue))
Last(queue, n) == Beyond(queue, Len(queue) - Least(n, Len(queue)))
Ids(queue) == {queue[i].id : i \in DOMAIN queue} \ {0}

\* The server lines of a queue, without the copies made of them.
OriginalIds(queue) ==
    {queue[i].id : i \in {k \in DOMAIN queue : queue[k].kind = "regular"}}

SlipRecallHistory(count) == CopiesOf(history_lines \o inactive_lines)
\* world_recall_history(): copies of the last count lines of the history.
RecallHistory(count) == CopiesOf(Last(history_lines, count))

-----------------------------------------------------------------------------
(* handle_flags() and the handlers it shares with other phases.            *)

\* Possibly new lines that no client was sent in full yet, but that are on
\* the way to one, as they are or copied.
OnTheWay ==
    LET path == client_txbuffer \o client_txqueue \o client_toqueue
    IN (Ids(inactive_lines) \intersect Ids(path)) \ delivered

\* world_inactive_to_history()
SlipInactiveToHistory ==
    /\ history_lines' = inactive_lines \o history_lines
    /\ inactive_lines' = <<>>
    /\ early' = early \union OnTheWay

InactiveToHistory ==
    /\ history_lines' = history_lines \o inactive_lines
    /\ inactive_lines' = <<>>
    /\ early' = early \union OnTheWay

\* world_disconnect_client(): the queues stay, the transmit buffer does not.
DisconnectClient ==
    /\ client_status' = "DISCONNECTED"
    /\ client_txbuffer' = <<>>

-----------------------------------------------------------------------------
(* Bounds of the model: one more connection that becomes correct, so many  *)
(* more lines from the server, one more note.                              *)

Room == correct < MaxCorrect /\ session + correct < MaxSessions
MayArrive(n) == arrived + notes + n <= MaxLines
MayNote == notes < MaxNotes /\ MayArrive(1)

Init ==
    /\ pc = "net"
    /\ correct = 0 /\ client_status = "DISCONNECTED" /\ flags = {}
    /\ server_rxqueue = <<>> /\ client_rxqueue = <<>>
    /\ client_toqueue = <<>> /\ client_txqueue = <<>> /\ client_txbuffer = <<>>
    /\ buffered_lines = <<>> /\ inactive_lines = <<>> /\ history_lines = <<>>
    /\ dropped_inactive_lines = 0 /\ dropped_buffered_lines = 0
    /\ notes = 0 /\ typed = 0
    /\ arrived = 0 /\ regular = {} /\ session = 0 /\ leftover = 0
    /\ shown = 0 /\ newest = 0 /\ delivered = {} /\ early = {} /\ dropped = {} /\ expired = {}

-----------------------------------------------------------------------------
(* wait_for_network().                                                     *)

\* verify_authentication() succeeds.  Slot order decides whether this comes
\* before the promotion of another correct connection, so either may.
Verify ==
    /\ pc = "net" /\ Room
    /\ correct' = correct + 1
    /\ IF client_status = "CONNECTED"
       THEN /\ client_toqueue' = Append(client_toqueue, Message)
            /\ flags' = flags \union {"CLIENTQUIT"}
       ELSE UNCHANGED <<client_toqueue, flags>>
    /\ pc' = "timer"
    /\ UNCHANGED <<client_status, client_rxqueue, server_rxqueue, client_txqueue,
                   client_txbuffer, buffered_lines, inactive_lines,
                   history_lines, drops, counts, ghosts>>

\* buffer_to_lines() finds a batch of lines in what a client sent.
ReadClient ==
    \E batch \in ClientBatches :
        /\ typed' = IF batch = <<>> THEN typed ELSE typed + 1
        /\ typed' <= MaxTyped
        /\ client_rxqueue' = client_rxqueue \o batch

\* promote_auth_connection() while there still is a client.
SlipPromoteRefused ==
    /\ pc = "net" /\ correct > 0 /\ client_status = "CONNECTED"
    /\ pc' = "timer"
    /\ UNCHANGED <<auth, flags, client_rxqueue, queues, drops, counts, ghosts>>

PromoteRefused ==
    /\ pc = "net" /\ correct > 0 /\ client_status = "CONNECTED"
    /\ flags' = flags \union {"CLIENTQUIT"}
    /\ pc' = "timer"
    /\ UNCHANGED <<auth, client_rxqueue, queues, drops, counts, ghosts>>

\* promote_auth_connection(), with world_recall_and_pass(): greeting, context,
\* possibly new lines, certainly new lines, and the closing messages; mcp.c
\* may add the handshake of the server.
Promote ==
    /\ pc = "net" /\ correct > 0 /\ client_status = "DISCONNECTED"
    /\ correct' = correct - 1
    /\ client_status' = "CONNECTED"
    /\ ReadClient
    /\ \E handshake \in {<<>>, <<McpLine>>} :
         client_toqueue' =
            client_toqueue \o <<Message>> \o RecallHistory(ContextLines)
               \o CopiesOf(inactive_lines) \o buffered_lines \o <<Message>>
               \o handshake
    /\ buffered_lines' = <<>>
    /\ dropped_inactive_lines' = 0 /\ dropped_buffered_lines' = 0
    /\ session' = session + 1
    /\ leftover' = Len(client_txqueue)
    /\ shown' = 0
    /\ pc' = "timer"
    /\ UNCHANGED <<flags, server_rxqueue, client_txqueue, client_txbuffer,
                   inactive_lines, history_lines, notes, arrived, regular, newest,
                   delivered, early, dropped, expired>>

\* Lines wait in client_toqueue: no select().
SkipSelect ==
    /\ pc = "net" /\ correct = 0 /\ client_toqueue # <<>>
    /\ pc' = "timer"
    /\ UNCHANGED <<auth, flags, client_rxqueue, queues, drops, counts, ghosts>>

\* handle_server_fd() reads a batch of lines, numbered as they arrive.
ReadServer ==
    \E batch \in ServerBatches :
        /\ MayArrive(Len(batch))
        /\ arrived' = arrived + Len(batch)
        /\ regular' = regular \union
              {arrived + i : i \in {k \in DOMAIN batch : batch[k] = "regular"}}
        /\ server_rxqueue' = server_rxqueue \o
              [i \in DOMAIN batch |-> [id |-> arrived + i, kind |-> batch[i]]]

\* select() returned, in time or on a timeout: handle_server_fd(), then
\* handle_client_fd(), which reads lines or finds the connection closed.
Select ==
    /\ pc = "net" /\ correct = 0 /\ client_toqueue = <<>>
    /\ ReadServer
    /\ \/ UNCHANGED <<client_status, client_txbuffer, client_rxqueue, typed>>
       \/ /\ client_status = "CONNECTED"
          /\ ReadClient
          /\ UNCHANGED <<client_status, client_txbuffer>>
       \/ /\ client_status = "CONNECTED"
          /\ DisconnectClient
          /\ UNCHANGED <<client_rxqueue, typed>>
    /\ pc' = "timer"
    /\ UNCHANGED <<correct, flags, client_toqueue, client_txqueue, buffered_lines,
                   inactive_lines, history_lines, drops, notes, session, leftover,
                   shown, newest, delivered, early, dropped, expired>>

-----------------------------------------------------------------------------
(* The queues between the network and the transmit buffer.                 *)

\* A checkpoint, kept like a server line: tick_day() and tick_year() make one,
\* and before that the handlers of wait_for_network() for the connection to
\* the server.
Tick ==
    /\ pc = "timer"
    /\ \/ UNCHANGED <<client_toqueue, notes>>
       \/ /\ MayNote
          /\ notes' = notes + 1
          /\ client_toqueue' = Append(client_toqueue, Checkpoint)
    /\ pc' = "server"
    /\ UNCHANGED <<auth, flags, client_rxqueue, server_rxqueue, client_txqueue,
                   client_txbuffer, buffered_lines, inactive_lines, history_lines, drops,
                   typed, ghosts>>

\* Every line of server_rxqueue goes to the client; an MCP line only to the
\* client of the moment.
DispatchServer ==
    /\ pc = "server"
    /\ client_toqueue' = client_toqueue \o server_rxqueue
    /\ server_rxqueue' = <<>>
    /\ pc' = "client"
    /\ UNCHANGED <<auth, flags, client_rxqueue, client_txqueue, client_txbuffer,
                   buffered_lines, inactive_lines, history_lines, drops, counts, ghosts>>

\* A line that is not for mooproxy goes to the server.
ClientText ==
    /\ UNCHANGED <<client_toqueue, inactive_lines, history_lines, early, expired>>
    /\ flags' = flags \union {"ACTIVATED"}

\* command_quit()
ClientQuit ==
    /\ flags' = flags \union {"ACTIVATED", "CLIENTQUIT"}
    /\ client_toqueue' = Append(client_toqueue, Message)
    /\ UNCHANGED <<inactive_lines, history_lines, early, expired>>

\* An MCP line goes to the server, and is no activity of the user; the first
\* negotiation makes one for the client too (world_do_mcp_client(), mcp.c).
ClientMcp ==
    /\ client_toqueue' \in {client_toqueue, Append(client_toqueue, McpLine)}
    /\ UNCHANGED <<flags, inactive_lines, history_lines, early, expired>>

\* Lines of a queue in their order, any of them or none.
Chosen(queue) ==
    {[i \in DOMAIN at |-> queue[at[i]]] :
        at \in {f \in UNION {[1 .. n -> DOMAIN queue] : n \in 0 .. Len(queue)} :
                   \A i, j \in DOMAIN f : i < j => f[i] < f[j]}}

\* command_recall(): it explains itself, or finds lines of the history by
\* their times and a text (recall_match_one_line()), or recalls the last ones.
ClientRecall ==
    /\ flags' = flags \union {"ACTIVATED"}
    /\ \/ /\ client_toqueue' = Append(client_toqueue, Message)
          /\ UNCHANGED <<inactive_lines, history_lines, early>>
       \/ /\ InactiveToHistory
          /\ \/ \E found \in Chosen(history_lines') :
                   client_toqueue' = client_toqueue \o <<Message>> \o Copies(found, "found")
             \/ \E count \in 1 .. Len(history_lines') :
                   client_toqueue' = client_toqueue \o <<Message>>
                                        \o Copies(Last(history_lines', count), "redrawn")
    /\ UNCHANGED expired

\* command_ace(): it complains, is switched off, or fills the screen with the
\* last lines (world_enable_ace()).
ClientAce ==
    /\ flags' = flags \union {"ACTIVATED"}
    /\ \/ /\ client_toqueue' = Append(client_toqueue, Message)
          /\ UNCHANGED <<inactive_lines, history_lines, early>>
       \/ /\ InactiveToHistory
          /\ client_toqueue' = client_toqueue
                                  \o Copies(Last(history_lines', AceLines), "redrawn")
                                  \o <<Message>>
    /\ UNCHANGED expired

\* command_forget()
ClientForget ==
    /\ flags' = flags \union {"ACTIVATED"}
    /\ client_toqueue' = Append(client_toqueue, Message)
    /\ inactive_lines' = <<>>
    /\ history_lines' = <<>>
    /\ early' = early \union OnTheWay
    /\ expired' = expired \union Ids(history_lines) \union Ids(inactive_lines)

DispatchClient ==
    /\ pc = "client" /\ client_rxqueue # <<>>
    /\ client_rxqueue' = Tail(client_rxqueue)
    /\ \/ Head(client_rxqueue) = "text"   /\ ClientText
       \/ Head(client_rxqueue) = "mcp"    /\ ClientMcp
       \/ Head(client_rxqueue) = "quit"   /\ ClientQuit
       \/ Head(client_rxqueue) = "recall" /\ ClientRecall
       \/ Head(client_rxqueue) = "ace"    /\ ClientAce
       \/ Head(client_rxqueue) = "forget" /\ ClientForget
    /\ UNCHANGED <<pc, auth, server_rxqueue, client_txqueue, client_txbuffer,
                   buffered_lines, drops, counts, arrived, regular, session, leftover, shown,
                   newest, delivered, dropped>>

\* Lines stay in client_txqueue only for a client that is connected.
SlipAfterMerge == "unqueue"
AfterMerge == IF client_status = "CONNECTED" THEN "flush" ELSE "unqueue"

\* client_rxqueue is empty: client_toqueue moves to client_txqueue.
MergeToQueue ==
    /\ pc = "client" /\ client_rxqueue = <<>>
    /\ client_txqueue' = client_txqueue \o client_toqueue
    /\ client_toqueue' = <<>>
    /\ pc' = AfterMerge
    /\ UNCHANGED <<auth, flags, client_rxqueue, server_rxqueue, client_txbuffer,
                   buffered_lines, inactive_lines, history_lines, drops, counts, ghosts>>

\* No client: one line of client_txqueue is destroyed or buffered.
Unqueue ==
    /\ pc = "unqueue" /\ client_txqueue # <<>>
    /\ client_txqueue' = Tail(client_txqueue)
    /\ buffered_lines' = IF Head(client_txqueue).kind \in DONTBUF
                         THEN buffered_lines
                         ELSE Append(buffered_lines, Head(client_txqueue))
    /\ UNCHANGED <<pc, auth, flags, client_rxqueue, server_rxqueue, client_toqueue,
                   client_txbuffer, inactive_lines, history_lines, drops, counts, ghosts>>

UnqueueDone ==
    /\ pc = "unqueue" /\ client_txqueue = <<>>
    /\ pc' = "flush"
    /\ UNCHANGED <<auth, flags, client_rxqueue, queues, drops, counts, ghosts>>

-----------------------------------------------------------------------------
(* world_flush_client_txbuf(): the loop of flush_buffer().                 *)

SlipCanFill == client_txqueue # <<>> /\ Len(client_txbuffer) + 1 < TxBufferLen
CanFill == client_txqueue # <<>> /\ Len(client_txbuffer) < TxBufferLen

\* One line goes into the transmit buffer, and to inactive_lines unless NOHIST.
Fill ==
    /\ pc = "flush" /\ client_status = "CONNECTED" /\ CanFill
    /\ client_txbuffer' = Append(client_txbuffer, Head(client_txqueue))
    /\ client_txqueue' = Tail(client_txqueue)
    /\ inactive_lines' = IF Head(client_txqueue).kind \in NOHIST
                         THEN inactive_lines
                         ELSE Append(inactive_lines, Head(client_txqueue))
    /\ UNCHANGED <<pc, auth, flags, client_rxqueue, server_rxqueue, client_toqueue,
                   buffered_lines, history_lines, drops, counts, ghosts>>

\* What a session presents without being asked to.
Presented == ServerKind \union {"recalled"}

\* write() takes the oldest line of the buffer.  A write() of more lines is
\* as many steps: the loop fills up what room they leave in any case.
Write ==
    /\ pc = "flush" /\ client_status = "CONNECTED" /\ ~CanFill
    /\ client_txbuffer # <<>>
    /\ LET line == Head(client_txbuffer)
       IN /\ shown' = IF leftover = 0 /\ line.id # 0 /\ line.kind \in Presented
                     THEN line.id ELSE shown
          /\ newest' = IF line.id # 0 /\ line.kind \in ServerKind THEN line.id ELSE newest
          /\ delivered' = delivered \union ({line.id} \ {0})
    /\ client_txbuffer' = Tail(client_txbuffer)
    /\ leftover' = IF leftover = 0 THEN 0 ELSE leftover - 1
    /\ UNCHANGED <<pc, auth, flags, client_rxqueue, server_rxqueue, client_toqueue,
                   client_txqueue, buffered_lines, inactive_lines, history_lines, drops,
                   counts, arrived, regular, session, early, dropped, expired>>

\* Nothing left to send, no client, or write() would block or fails.
FlushDone ==
    /\ pc = "flush"
    /\ client_status = "CONNECTED" => ~CanFill
    /\ pc' = "trim"
    /\ UNCHANGED <<auth, flags, client_rxqueue, queues, drops, counts, ghosts>>

-----------------------------------------------------------------------------
(* world_trim_dynamic_queues(), the three queues of lines for the client:  *)
(* oldest lines first, from history, then inactive, then buffered lines.   *)

SlipExcess(total, queue) ==
    IF total > BufferSize + 1 THEN Least(total - BufferSize, Len(queue)) ELSE 0
Excess(total, queue) ==
    IF total > BufferSize THEN Least(total - BufferSize, Len(queue)) ELSE 0

Trim ==
    LET b == Len(buffered_lines)
        i == Len(inactive_lines)
        h == Len(history_lines)
        cutHistory  == Excess(b + i + h, history_lines)
        cutInactive == Excess(b + i, inactive_lines)
        cutBuffered == Excess(b, buffered_lines)
    IN /\ pc = "trim"
       /\ history_lines' = Beyond(history_lines, cutHistory)
       /\ inactive_lines' = Beyond(inactive_lines, cutInactive)
       /\ buffered_lines' = Beyond(buffered_lines, cutBuffered)
       /\ dropped_inactive_lines' = dropped_inactive_lines + cutInactive
       /\ dropped_buffered_lines' = dropped_buffered_lines + cutBuffered
       /\ expired' = expired \union Ids(Front(history_lines, cutHistory))
       /\ dropped' = dropped \union OriginalIds(Front(inactive_lines, cutInactive))
                             \union OriginalIds(Front(buffered_lines, cutBuffered))
       /\ pc' = "flags"
       /\ UNCHANGED <<auth, flags, client_rxqueue, server_rxqueue, client_toqueue,
                      client_txqueue, client_txbuffer, counts, arrived, regular, session,
                      leftover, shown, newest, delivered, early>>

\* handle_flags(): activation, then messages of the flags that concern the
\* server (any number up to MaxNotes), then the disconnection of the client.
HandleFlags ==
    /\ pc = "flags"
    /\ IF "ACTIVATED" \in flags
       THEN InactiveToHistory
       ELSE UNCHANGED <<inactive_lines, history_lines, early>>
    /\ \/ UNCHANGED <<client_toqueue, notes>>
       \/ /\ MayNote
          /\ notes' = notes + 1
          /\ client_toqueue' = Append(client_toqueue, Message)
    /\ IF "CLIENTQUIT" \in flags
       THEN DisconnectClient
       ELSE UNCHANGED <<client_status, client_txbuffer>>
    /\ flags' = {}
    /\ pc' = "net"
    /\ UNCHANGED <<correct, client_rxqueue, server_rxqueue, client_txqueue,
                   buffered_lines, typed, drops, arrived, regular, session, leftover,
                   shown, newest, delivered, dropped, expired>>

-----------------------------------------------------------------------------
WaitForNetwork == Verify \/ PromoteRefused \/ Promote \/ SkipSelect \/ Select
Dispatch ==
    \/ Tick \/ DispatchServer \/ DispatchClient \/ MergeToQueue \/ Unqueue \/ UnqueueDone
Flush == Fill \/ Write \/ FlushDone
Next == WaitForNetwork \/ Dispatch \/ Flush \/ Trim \/ HandleFlags

Spec == Init /\ [][Next]_vars

\* The process runs: select() returns within a second, every other phase is
\* straight-line code, and a phase's loop handles one line per step.
LoopRuns == WF_vars(Next)

\* A client that stays keeps reading: again and again its socket takes
\* what flush_buffer() offers.
ClientReads == SF_vars(Write)

FairSpec == Spec /\ LoopRuns /\ ClientReads

-----------------------------------------------------------------------------
(* Properties.                                                             *)

\* Every variable has the type its code gives it.
LoopOK ==
    /\ pc \in {"net", "timer", "server", "client", "unqueue", "flush", "trim", "flags"}
    /\ correct \in 0 .. MaxCorrect
    /\ client_status \in {"DISCONNECTED", "CONNECTED"}
    /\ flags \subseteq {"ACTIVATED", "CLIENTQUIT"}
    /\ client_rxqueue \in Seq(Command)

QueuesOK ==
    /\ server_rxqueue \in Seq(Line) /\ client_toqueue \in Seq(Line)
    /\ client_txqueue \in Seq(Line) /\ client_txbuffer \in Seq(Line)
    /\ buffered_lines \in Seq(Line) /\ inactive_lines \in Seq(Line)
    /\ history_lines \in Seq(Line)

CountsOK ==
    /\ dropped_inactive_lines \in Nat /\ dropped_buffered_lines \in Nat
    /\ notes \in 0 .. MaxNotes /\ typed \in 0 .. MaxTyped

GhostsOK ==
    /\ arrived \in 0 .. MaxLines /\ session \in Nat /\ leftover \in Nat
    /\ regular \subseteq Nat /\ delivered \subseteq Nat /\ early \subseteq Nat
    /\ dropped \subseteq Nat /\ expired \subseteq Nat
    /\ shown \in Nat /\ newest \in Nat

TypeOK == LoopOK /\ QueuesOK /\ CountsOK /\ GhostsOK

\* Server lines that were not sent on yet, and all lines kept, oldest first.
Backlog == buffered_lines \o client_txqueue \o client_toqueue \o server_rxqueue
Chain == history_lines \o inactive_lines \o Backlog

\* Server lines are kept in arrival order, and none is in two places: along
\* history_lines, inactive_lines, buffered_lines and the queues towards the
\* client the arrival numbers increase, whatever clients came, went and took
\* over.  (The Changelog tells of recalled lines that entered the history.)
ArrivalOrder ==
    \A i, j \in DOMAIN Chain :
        (/\ i < j
         /\ {Chain[i].kind, Chain[j].kind} \subseteq ServerKind
         /\ 0 \notin {Chain[i].id, Chain[j].id})
        => Chain[i].id < Chain[j].id

\* Only server lines and checkpoints become possibly new and history: never a
\* copy, though those of /recall are buffered when the client that asked for
\* them is lost, and are then sent to the next one as certainly new
\* (recall_match_one_line(), LINE_MESSAGE).  Nothing else that was recalled,
\* and no MCP line, is buffered.
QueueKinds ==
    /\ \A i \in DOMAIN history_lines : history_lines[i].kind \in {"regular", "checkpoint"}
    /\ \A i \in DOMAIN inactive_lines : inactive_lines[i].kind \in {"regular", "checkpoint"}
    /\ \A i \in DOMAIN buffered_lines : buffered_lines[i].kind \notin DONTBUF

\* No server line is lost without notice: one that was never written to any
\* client waits somewhere, is possibly new, has been counted as dropped, or
\* went to history while it was on the way to a client.
NoSilentLoss ==
    regular \subseteq delivered \union Ids(inactive_lines) \union OriginalIds(Backlog)
                               \union dropped \union early

\* A session presents its lines in arrival order and none of them twice:
\* context, possibly new, certainly new, then live lines.  Not counted in are
\* copies that a user asked for (/recall, /ace), and what a taken-over session
\* had left in client_txqueue, which is written before the greeting.
PresentedInOrder ==
    LET path == Beyond(client_txbuffer \o client_txqueue \o client_toqueue, leftover)
        own == {i \in DOMAIN path : path[i].id # 0 /\ path[i].kind \in Presented}
    IN client_status = "CONNECTED" =>
          /\ \A i \in own : shown < path[i].id
          /\ \A i, j \in own : i < j => path[i].id < path[j].id

\* Of all sessions together none writes a server line that one has written
\* before: what is written once more is always a copy.
WrittenOnce ==
    LET path == client_txbuffer \o buffered_lines \o client_txqueue \o client_toqueue
                   \o server_rxqueue
        own == {i \in DOMAIN path : path[i].id # 0 /\ path[i].kind \in ServerKind}
    IN  /\ \A i \in own : newest < path[i].id
        /\ \A i, j \in own : i < j => path[i].id < path[j].id

SessionInOrder == PresentedInOrder /\ WrittenOnce

\* The trim leaves no more than BufferSize lines (world.c: history, inactive
\* and buffered lines share the buffer), and they stay within it until the
\* next pass reads or sends lines.
WithinBuffer ==
    pc \in {"flags", "net", "timer", "server", "client"} =>
        Len(buffered_lines) + Len(inactive_lines) + Len(history_lines) <= BufferSize

\* While a client is connected nothing is buffered for the next one.
BufferedOnlyWhileAway == client_status = "CONNECTED" => buffered_lines = <<>>

\* The implementation of the promise: the mailbox holds the server lines of
\* the queues, without messages, copies and MCP lines.
Promise == INSTANCE Mailbox WITH
    posted <- regular,
    fresh <- OriginalIds(Backlog),
    unconfirmed <- OriginalIds(inactive_lines),
    read <- OriginalIds(history_lines),
    lost <- dropped

KeepsPromise == Promise!Spec

\* A step that makes new lines (waiting or possibly new) disappear other than
\* into history or by a /forget adds as many to the counts of dropped lines.
LossIsCounted ==
    [][LET held == OriginalIds(Backlog) \union Ids(inactive_lines)
           lost == held \ (OriginalIds(Chain)' \union expired')
       IN lost # {} => Cardinality(lost) <=
             (dropped_inactive_lines' - dropped_inactive_lines)
           + (dropped_buffered_lines' - dropped_buffered_lines)]_vars

\* Once the client stays connected, every server line that is then kept as
\* certainly or possibly new, or waits in the transmit buffer, has been or
\* will be written to a client.
EventuallyShown ==
    \A id \in 1 .. MaxLines :
        (/\ id \in OriginalIds(Backlog \o client_txbuffer \o inactive_lines)
         /\ [](client_status = "CONNECTED")) ~> id \in delivered

\* Every correctly authenticated connection becomes the client, also when
\* there is one to take over from.
EventuallyPromoted ==
    \A n \in 0 .. MaxSessions - 1 : (correct > 0 /\ session = n) ~> session > n
=============================================================================
