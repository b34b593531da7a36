----------------------------- MODULE ServerLink -----------------------------
(***************************************************************************)
(* The bytes between mooproxy and the server: what is read is cut into     *)
(* lines (handle_server_fd(), buffer_to_lines()), and the lines for the    *)
(* server go through server_toqueue, server_txqueue and server_txbuffer    *)
(* (world_flush_server_txbuf(), flush_buffer()), while connections come    *)
(* and go.  One pass of mainloop() goes through these phases, held in pc:  *)
(*                                                                         *)
(*   resolver, server, connecting                                          *)
(*              wait_for_network(): its three descriptors for the server   *)
(*   dispatch   lines and commands of the client, linequeue_merge()        *)
(*   flush      world_flush_server_txbuf(), which begins a turn of         *)
(*   fill, write   flush_buffer()                                          *)
(*   flags      handle_flags()                                             *)
(*                                                                         *)
(* A byte that is read is CR, LF or any other.  A line for the server is   *)
(* known by a number, and its bytes are <<number, position>>, the last two *)
(* its CR LF.  How a connection is made is reduced to its status and its   *)
(* descriptors (the module ServerConn has the addresses, the delays and    *)
(* the settings), a wait before a reconnect is part of being disconnected, *)
(* MCP lines for the server are like any other, and what becomes of the    *)
(* lines that were read is left to LineFlow.                               *)
(*                                                                         *)
(* Definitions named Slip... are what a slip in the code would make of the *)
(* definition that follows them; no specification uses them.               *)
(***************************************************************************)
EXTENDS Integers, Sequences, FiniteSets

CONSTANTS
    BufferLen,      \* NET_BBUFFER_LEN
    Lengths,        \* lengths of lines for the server
    MaxTyped,       \* bound: lines for the server
    MaxTraffic,     \* bound: bytes read from a connection, and lines for the server
    MaxConnections  \* bound: connections made

ASSUME BufferAssumption == BufferLen \in Nat \ {0} /\ Lengths \subseteq Nat
ASSUME BoundsAssumption ==
    MaxTyped \in Nat /\ MaxTraffic \in Nat /\ MaxConnections \in Nat

VARIABLES
    pc,
    server_status,
    server_resolver_fd, server_connecting_fd, server_fd,  \* open, or -1?
    flags,               \* wld->flags, of those that matter here
    server_rxbuffer, server_toqueue, server_txqueue, server_txbuffer,
    typed, connections,  \* counted against MaxTyped and MaxConnections
    \* History variables, of the connection, read by the properties only:
    beside,              \* was the one before still open while it was attempted?
    oldbytes, oldlines,  \* what that one left: bytes read, and things to send
    received,            \* bytes that were read, behind those left
    rxlines,             \* lines that were put in server_rxqueue
    due,                 \* lines queued for the server, behind those left
    filled,              \* lines put in server_txbuffer
    handed,              \* their bytes, behind those left
    sent                 \* bytes that were written

attempt == <<server_status, server_resolver_fd, server_connecting_fd>>
start == <<connections, beside, oldbytes, oldlines>>
incoming == <<server_rxbuffer, received, rxlines>>
outgoing == <<server_toqueue, server_txqueue, server_txbuffer, typed, due,
              filled, handed, sent>>
vars == <<pc, attempt, server_fd, flags, start, incoming, outgoing>>

Bytes == {"CR", "LF", "other"}
Statuses == {"DISCONNECTED", "RESOLVING", "CONNECTING", "CONNECTED"}
Flags == {"NOTCONNECTED", "RECONNECT", "SERVERQUIT", "SERVERRESOLVE", "SERVERCONNECT"}
Line == [number : Nat, len : Nat]
TxByte == Nat \X Nat

Phases == {"resolver", "server", "connecting", "dispatch", "flush", "fill", "write", "flags"}

Init ==
    /\ pc = "resolver"
    /\ server_status = "DISCONNECTED"
    /\ server_resolver_fd = FALSE /\ server_connecting_fd = FALSE /\ server_fd = FALSE
    /\ flags = {}
    /\ server_rxbuffer = <<>> /\ server_toqueue = <<>>
    /\ server_txqueue = <<>> /\ server_txbuffer = <<>>
    /\ typed = 0 /\ connections = 0
    /\ beside = FALSE /\ oldbytes = 0 /\ oldlines = 0
    /\ received = <<>> /\ rxlines = <<>>
    /\ due = <<>> /\ filled = <<>> /\ handed = <<>> /\ sent = <<>>

\* Bounds of the model: one more line, and so many more bytes and lines.
MayType == typed < MaxTyped /\ Len(received) + typed < MaxTraffic
MayRead(n) == Len(received) + n + typed <= MaxTraffic

Goes(from, to) == pc = from /\ pc' = to

-----------------------------------------------------------------------------
(* Cutting bytes into lines: buffer_to_lines().                            *)

Ends(b) == {i \in 1 .. Len(b) : b[i] = "LF"}
EndCount(b) == Cardinality(Ends(b))

\* Where the k-th LF is: behind the bytes before which there are fewer.
EndOf(b, k) ==
    IF k = 0 THEN 0
             ELSE Cardinality({i \in 1 .. Len(b) : Cardinality(Ends(b) \cap (1 .. i)) < k}) + 1

\* One CR is chopped off at the start, and one at the end of what is left.
Chop(l) ==
    LET lead == IF l # <<>> /\ l[1] = "CR" THEN Tail(l) ELSE l
    IN  IF lead # <<>> /\ lead[Len(lead)] = "CR"
           THEN SubSeq(lead, 1, Len(lead) - 1) ELSE lead

\* The buffer is filled entirely with one big line.
BigLine(b) == Ends(b) = {} /\ Len(b) >= BufferLen

LinesIn(b) ==
    IF BigLine(b)
       THEN <<Chop(b)>>
       ELSE [k \in 1 .. EndCount(b) |-> Chop(SubSeq(b, EndOf(b, k - 1) + 1, EndOf(b, k) - 1))]

Rest(b) == IF BigLine(b) THEN <<>> ELSE SubSeq(b, EndOf(b, EndCount(b)) + 1, Len(b))

-----------------------------------------------------------------------------
(* wait_for_network(): what the lookup, the server and the sockets do.     *)

\* world_handle_resolver_fd(): addresses, an error, or nothing at all.  There
\* may be a connection: then the status denies it.
ResolverAnswers ==
    /\ Goes("resolver", "server") /\ server_resolver_fd
    /\ server_resolver_fd' = FALSE
    /\ server_status' = "DISCONNECTED"
    /\ \E f \in {{"SERVERCONNECT"}, {"RECONNECT"}, {}} : flags' = flags \cup f
    /\ UNCHANGED <<server_connecting_fd, server_fd, start, incoming, outgoing>>

\* handle_server_fd(); a read of no bytes is the end of the connection.
ReadServer ==
    /\ Goes("server", "connecting") /\ server_fd
    /\ \E n \in 1 .. BufferLen - Len(server_rxbuffer) :
       \E chunk \in [1 .. n -> Bytes] :
          LET b == server_rxbuffer \o chunk
          IN  /\ MayRead(n)
              /\ received' = received \o chunk
              /\ rxlines' = rxlines \o LinesIn(b)
              /\ server_rxbuffer' = Rest(b)
    /\ UNCHANGED <<attempt, server_fd, flags, start, outgoing>>

\* With the connection its history ends.
Forgotten ==
    /\ oldbytes' = 0 /\ oldlines' = 0 /\ received' = <<>> /\ rxlines' = <<>>
    /\ due' = <<>> /\ filled' = <<>> /\ handed' = <<>> /\ sent' = <<>>

\* world_disconnect_server(), but for the status; the queues are left as they
\* are.
SlipDisconnect ==
    /\ server_fd' = FALSE
    /\ server_txbuffer' = <<>>
    /\ UNCHANGED server_rxbuffer
    /\ Forgotten
Disconnect ==
    /\ server_fd' = FALSE
    /\ server_txbuffer' = <<>>
    /\ server_rxbuffer' = <<>>
    /\ Forgotten

ServerCloses ==
    /\ Goes("server", "connecting") /\ server_fd
    /\ Disconnect
    /\ server_status' = "DISCONNECTED"
    /\ flags' = flags \cup {"RECONNECT"}
    /\ UNCHANGED <<server_resolver_fd, server_connecting_fd, connections, beside,
                   server_toqueue, server_txqueue, typed>>

NewLine(len) == [number |-> typed + 1, len |-> len]

\* handle_connecting_fd() and world_login_server(), which may queue a line.
\* server_fd is set whether it is open or not, and the buffers stay.
Connects ==
    /\ Goes("connecting", "dispatch") /\ server_connecting_fd
    /\ connections < MaxConnections
    /\ connections' = connections + 1
    /\ server_status' = "CONNECTED"
    /\ server_connecting_fd' = FALSE
    /\ server_fd' = TRUE
    /\ oldbytes' = Len(server_rxbuffer)
    /\ oldlines' = Len(server_txqueue) + Len(server_txbuffer)
    /\ received' = server_rxbuffer /\ rxlines' = <<>>
    /\ filled' = <<>> /\ handed' = server_txbuffer /\ sent' = <<>>
    /\ \/ /\ due' = server_txqueue \o server_toqueue
          /\ UNCHANGED <<typed, server_toqueue>>
       \/ \E len \in Lengths :
             /\ MayType
             /\ typed' = typed + 1
             /\ server_toqueue' = Append(server_toqueue, NewLine(len))
             /\ due' = server_txqueue \o server_toqueue'
    /\ UNCHANGED <<flags, server_resolver_fd, beside, server_rxbuffer, server_txqueue,
                   server_txbuffer>>

\* server_connect_error()
ConnectFails ==
    /\ Goes("connecting", "dispatch") /\ server_connecting_fd
    /\ server_connecting_fd' = FALSE
    /\ flags' = flags \cup {"SERVERCONNECT"}
    /\ UNCHANGED <<server_status, server_resolver_fd, server_fd, start, incoming, outgoing>>

\* The descriptor is not open or not ready.
Nothing ==
    /\ Goes("resolver", "server") \/ Goes("server", "connecting") \/ Goes("connecting", "dispatch")
    /\ UNCHANGED <<attempt, server_fd, flags, start, incoming, outgoing>>

-----------------------------------------------------------------------------
(* dispatch: the user types a line or a command.                           *)

TypeLine ==
    /\ pc = "dispatch" /\ MayType
    /\ typed' = typed + 1
    /\ \E len \in Lengths :
          /\ server_toqueue' = Append(server_toqueue, NewLine(len))
          /\ due' = IF server_fd THEN Append(due, NewLine(len)) ELSE due
    /\ UNCHANGED <<pc, attempt, server_fd, flags, start, incoming,
                   server_txqueue, server_txbuffer, filled, handed, sent>>

\* command_disconnect(): world_cancel_server_resolve(), a flag, or
\* world_cancel_server_connect(), which does nothing without a socket.
CommandDisconnect ==
    /\ pc = "dispatch"
    /\ \/ /\ server_status = "RESOLVING"
          /\ server_status' = "DISCONNECTED" /\ server_resolver_fd' = FALSE
          /\ UNCHANGED <<server_connecting_fd, flags>>
       \/ /\ server_status = "CONNECTING" /\ server_connecting_fd
          /\ server_status' = "DISCONNECTED" /\ server_connecting_fd' = FALSE
          /\ UNCHANGED <<server_resolver_fd, flags>>
       \/ /\ server_status = "CONNECTED"
          /\ flags' = flags \cup {"SERVERQUIT"}
          /\ UNCHANGED attempt
    /\ UNCHANGED <<pc, server_fd, start, incoming, outgoing>>

\* command_connect(), or the end of a wait (world_do_reconnect()): only the
\* status is looked at.
CommandConnect ==
    /\ pc = "dispatch" /\ server_status = "DISCONNECTED"
    /\ flags' = flags \cup {"SERVERRESOLVE"}
    /\ UNCHANGED <<pc, attempt, server_fd, start, incoming, outgoing>>

\* Process server toqueue to txqueue
Merge ==
    /\ Goes("dispatch", "flush")
    /\ server_txqueue' = server_txqueue \o server_toqueue
    /\ server_toqueue' = <<>>
    /\ UNCHANGED <<attempt, server_fd, flags, start, incoming, server_txbuffer,
                   typed, due, filled, handed, sent>>

-----------------------------------------------------------------------------
(* flush: world_flush_server_txbuf() and flush_buffer().                   *)

ToSend == server_txqueue # <<>> \/ server_txbuffer # <<>>

NothingToSend ==
    /\ Goes("flush", "flags") /\ ~ToSend
    /\ UNCHANGED <<attempt, server_fd, flags, start, incoming, outgoing>>

SlipDiscard ==
    /\ Goes("flush", "flags") /\ ToSend /\ ~server_fd
    /\ flags' = flags \cup {"NOTCONNECTED"}
    /\ UNCHANGED <<attempt, server_fd, start, incoming, outgoing>>
Discard ==
    /\ Goes("flush", "flags") /\ ToSend /\ ~server_fd
    /\ server_txqueue' = <<>>
    /\ flags' = flags \cup {"NOTCONNECTED"}
    /\ UNCHANGED <<attempt, server_fd, start, incoming, server_toqueue,
                   server_txbuffer, typed, due, filled, handed, sent>>

StartFlush ==
    /\ Goes("flush", "fill") /\ ToSend /\ server_fd
    /\ UNCHANGED <<attempt, server_fd, flags, start, incoming, outgoing>>

\* A line that is too large is truncated (or it would never fit).
SlipCutTo(l) == l.len
CutTo(l) == IF l.len > BufferLen THEN BufferLen ELSE l.len
Encoded(l) == [i \in 1 .. CutTo(l) + 2 |-> <<l.number, i>>]

SlipFits(l) == Len(server_txbuffer) <= BufferLen
Fits(l) == Len(server_txbuffer) + CutTo(l) <= BufferLen

Fill ==
    /\ pc = "fill" /\ server_txqueue # <<>> /\ Fits(Head(server_txqueue))
    /\ server_txbuffer' = server_txbuffer \o Encoded(Head(server_txqueue))
    /\ server_txqueue' = Tail(server_txqueue)
    /\ filled' = Append(filled, Head(server_txqueue))
    /\ handed' = handed \o Encoded(Head(server_txqueue))
    /\ UNCHANGED <<pc, attempt, server_fd, flags, start, incoming,
                   server_toqueue, typed, due, sent>>

FillEnds ==
    /\ Goes("fill", "write")
    /\ server_txqueue # <<>> => ~Fits(Head(server_txqueue))
    /\ UNCHANGED <<attempt, server_fd, flags, start, incoming, outgoing>>

\* write() takes the first n bytes; there is another turn if any are left.
Write ==
    /\ pc = "write"
    /\ \E n \in 1 .. Len(server_txbuffer) :
          /\ sent' = sent \o SubSeq(server_txbuffer, 1, n)
          /\ server_txbuffer' = SubSeq(server_txbuffer, n + 1, Len(server_txbuffer))
    /\ pc' = IF server_txqueue # <<>> \/ server_txbuffer' # <<>> THEN "fill" ELSE "flags"
    /\ UNCHANGED <<attempt, server_fd, flags, start, incoming, server_toqueue,
                   server_txqueue, typed, due, filled, handed>>

\* The socket takes no more data, or there is an error.
WriteFails ==
    /\ Goes("write", "flags")
    /\ UNCHANGED <<attempt, server_fd, flags, start, incoming, outgoing>>

-----------------------------------------------------------------------------
(* flags: handle_flags().                                                  *)

\* What world_schedule_reconnect() and world_start_server_resolve() make of
\* the status: a lookup starts only from DISCONNECTED, and may fail to; a
\* reconnect starts now, later, or not at all.
AfterLookup(status) ==
    IF status = "DISCONNECTED" /\ flags \cap {"SERVERRESOLVE", "RECONNECT"} # {}
       THEN {"RESOLVING", status} ELSE {status}

\* world_start_server_connect(): an attempt is under way, has failed at once,
\* there is no address left, or no list of addresses at all.
StartConnect(status) ==
    \/ flags' = {} /\ server_status' = "CONNECTING" /\ server_connecting_fd' = TRUE
    \/ flags' = {"SERVERCONNECT"} /\ server_status' = status /\ server_connecting_fd' = FALSE
    \/ flags' = {"RECONNECT"} /\ server_status' = "DISCONNECTED" /\ UNCHANGED server_connecting_fd
    \/ flags' = {} /\ server_status' = status /\ UNCHANGED server_connecting_fd

HandleFlags ==
    /\ Goes("flags", "resolver")
    /\ LET quits == "SERVERQUIT" \in flags
           before == IF quits THEN "DISCONNECTED" ELSE server_status
       IN  /\ \E status \in AfterLookup(before) :
                 /\ server_resolver_fd' = (server_resolver_fd \/ status # before)
                 /\ IF "SERVERCONNECT" \in flags
                       THEN StartConnect(status)
                       ELSE flags' = {} /\ server_status' = status /\ UNCHANGED server_connecting_fd
           /\ IF quits
                 THEN Disconnect
                 ELSE UNCHANGED <<server_fd, oldbytes, oldlines, incoming, server_txbuffer,
                                  due, filled, handed, sent>>
    /\ beside' = IF server_connecting_fd' THEN server_fd ELSE beside
    /\ UNCHANGED <<connections, server_toqueue, server_txqueue, typed>>

-----------------------------------------------------------------------------

Network ==
    \/ ResolverAnswers \/ ReadServer \/ ServerCloses \/ Connects \/ ConnectFails \/ Nothing
User == TypeLine \/ CommandDisconnect \/ CommandConnect
Flush == NothingToSend \/ Discard \/ StartFlush \/ Fill \/ FillEnds \/ Write \/ WriteFails

Next == Network \/ User \/ Merge \/ Flush \/ HandleFlags

\* mainloop() goes on, and a server that stays reads on.
Fairness ==
    /\ WF_vars(Network) /\ WF_vars(Merge) /\ WF_vars(Flush) /\ WF_vars(HandleFlags)
    /\ SF_vars(Write)

Spec == Init /\ [][Next]_vars /\ Fairness

-----------------------------------------------------------------------------
(* Properties.                                                             *)

\* The type of every variable.  A read always has room: it would otherwise
\* take no bytes for the end of the connection.  The transmit buffer exceeds
\* its length by no more than the end of a line.
TypeOK ==
    /\ pc \in Phases
    /\ server_status \in Statuses
    /\ {server_resolver_fd, server_connecting_fd, server_fd, beside} \subseteq BOOLEAN
    /\ flags \subseteq Flags
    /\ server_rxbuffer \in Seq(Bytes) /\ Len(server_rxbuffer) < BufferLen
    /\ server_toqueue \in Seq(Line) /\ server_txqueue \in Seq(Line)
    /\ server_txbuffer \in Seq(TxByte) /\ Len(server_txbuffer) <= BufferLen + 2
    /\ typed \in Nat /\ connections \in Nat /\ oldbytes \in Nat /\ oldlines \in Nat
    /\ received \in Seq(Bytes) /\ rxlines \in Seq(Seq(Bytes))
    /\ due \in Seq(Line) /\ filled \in Seq(Line)
    /\ handed \in Seq(TxByte) /\ sent \in Seq(TxByte)

\* What one gets byte by byte, ending a line at each LF and after BufferLen
\* bytes without one.
ByteByByte ==
    LET cut[n \in 0 .. Len(received)] ==
            IF n = 0
               THEN [lines |-> <<>>, part |-> <<>>]
               ELSE LET last == cut[n - 1]
                        part == Append(last.part, received[n])
                    IN  IF received[n] = "LF"
                           THEN [lines |-> Append(last.lines, Chop(last.part)), part |-> <<>>]
                        ELSE IF Len(part) = BufferLen
                           THEN [lines |-> Append(last.lines, Chop(part)), part |-> <<>>]
                        ELSE [lines |-> last.lines, part |-> part]
    IN  cut[Len(received)]

\* The lines of a connection are the same however its bytes are divided over
\* reads (buffer_to_lines()).  They begin with its own first byte, unless the
\* one before was still open when it was attempted: server_fd and the status
\* then pass to the new one without world_disconnect_server(), and its lines
\* begin with the part of a line that the one before had left.
SameLinesHoweverRead ==
    server_fd =>
        /\ rxlines = ByteByByte.lines /\ server_rxbuffer = ByteByByte.part
        /\ oldbytes > 0 => beside

\* The server is sent the lines queued since it was connected to, in order and
\* each once, of which some are still on their way, however writes, a
\* /disconnect and a reconnect fall (world_flush_server_txbuf()).  Before them
\* it is sent nothing that was typed earlier, unless the connection before was
\* still open when this one was attempted: then it is sent all that waited.
SentInOrder ==
    server_fd =>
        /\ filled \o server_txqueue \o server_toqueue = due
        /\ sent \o server_txbuffer = handed
        /\ oldlines > 0 => beside

\* What waits for the server is sent in the end, if the server stays and reads:
\* also a line too large for the buffer (flush_buffer()).
Delivered ==
    (server_fd /\ server_txqueue # <<>>) ~> (server_txqueue = <<>> \/ ~server_fd)
=============================================================================
