# A formal model of mooproxy

Mooproxy is a proxy for one MOO or MUD world. It holds a permanent connection
to the server, keeps what the server says while the user is away, hands it to
the next client that logs in, and logs it. It is one process with one thread:
`mainloop()` (mooproxy.c:209) goes through the same phases again and again, and
handlers talk to each other through queues of lines, through fields of `World`
(world.h) and through bits in `wld->flags` that `handle_flags()` deals with at
the end of a pass. There are no locks. What makes it hard is order: which
events fall into the same pass, which flag is set after its slot has passed,
what a client or a server does between two system calls, which write stops in
the middle.

These modules describe the parts of mooproxy with such behaviour, TLC checks
them on small instances, and TLAPS proves some of the results for every
instance.

## The parts of the system

| part | state | operations | talks to others through |
| --- | --- | --- | --- |
| client line flow (mooproxy.c, world.c, misc.c, line.c) | `server_rxqueue`, `client_toqueue`, `client_txqueue`, transmit buffer, `buffered_lines`, `inactive_lines`, `history_lines`, drop counts | dispatch, merge, flush, trim, pass on to a new client, /recall, /ace, /forget, activity | `client_status`, `WLD_CLIENTQUIT`, `WLD_ACTIVATED`; every part queues messages to the client |
| authentication slots (network.c) | six parallel arrays `auth_*`, token bucket, privileged addresses, `auth_hash`, `auth_literal` | accept, read, verify, promote, remove, kick, refill | the promoted connection, `WLD_CLIENTQUIT` for a take-over |
| server connection (resolve.c, network.c, world.c) | `server_status`, three descriptors, address list, back-off delay | look up, connect, fail, lose, reconnect, /connect, /disconnect, /set autoreconnect | `WLD_SERVERQUIT`, `WLD_RECONNECT`, `WLD_SERVERRESOLVE`, `WLD_SERVERCONNECT` |
| log store (log.c) | `log_queue`, `log_current`, `log_buffer`, open file, day of the file, remembered error, links | copy lines, change the day, open, write, trim, update links, shut down | lines of the line flow, the timer, `WLD_LOGLINKUPDATE`, `WLD_SHUTDOWN` |
| MCP session reset (mcp.c) | negotiated?, key, queued initialisation | handshake of server and client relayed and replayed | server and client connections |
| to the server (network.c, mooproxy.c) | `server_toqueue`, `server_txqueue`, transmit buffer | merge, flush, discard | line flow, server connection, `WLD_NOTCONNECTED` |
| line buffers (misc.c) | receive and transmit buffers | cut bytes into lines, put lines into bytes | all connections |
| timer (timer.c) | the last time of each unit | second, minute, day | tokens, reconnect, log, current time and day |
| recall (recall.c) | `Params`, during the command | parse the arguments, choose lines of the history | line flow (`history_lines`, `client_toqueue`) |
| instance lock (daemon.c, mooproxy.c) | the lock file, its path, open descriptors | acquire, daemonize, remove, crash | other instances, the resolver slave |
| settings, hashing, help, ANSI codes, binding, panic, start-up | | | |

What makes each of them correct, and what is hard about it:

- **Line flow.** No server line is lost without the user being told; lines stay
  in order; no line is sent as new twice, and no copy of one becomes history; the
  memory stays within `buffer_size`. Hard: clients break or take over at any point,
  three kinds of copies share the queues with the lines themselves, a write takes part
  of the buffer, activity of the user races the lines on their way to him, and three
  queues share one limit.
- **Authentication.** The verdict is that of the peer's own string against the
  hash of the moment; the number of attempts is limited; a correct peer gets in;
  addresses that authenticated before keep their slots. Hard: slots are removed
  from the middle of parallel arrays while a loop goes over them, and buffers,
  tokens and hashes change between the arrival of a string and its verdict.
- **Server connection.** Status, descriptors, flags and address list agree;
  /disconnect is final; a lost connection is retried, with a growing delay, and a
  user's own attempt is not. Hard: lookups and connection attempts end in the same
  pass in which commands arrive, and flags make things happen later.
- **Log.** Every line goes to its day's file, in order, or is counted as lost.
  Hard: days change with lines waiting, disks fill up, the user switches logging
  off and on, and a signal may end it all.
- **MCP.** The client's and the server's ideas of the session agree after clients
  come and go. Hard: what is queued belongs to sessions that may already be over.
- **To the server, line buffers.** The lines do not depend on how the bytes were
  grouped into reads; the server is sent what was queued for this connection, in
  order; and of a connection that has ended nothing reaches the next. Hard: buffers that
  are exactly full, a CR and its LF in two reads, writes that take a part, a connection
  that ends in the middle or is still open when the next one is attempted.
- **Recall.** Exactly the lines asked for are recalled, and the command ends. Hard: two
  scans that must agree, times that need not ascend, a loop that leaves words to
  the loop around it, days of the week modulo seven.
- **Lock.** One instance per world. Hard: the descriptor is shared with a launching
  process and with resolver slaves, instances crash, and closing and unlinking
  are two steps.
- **Timer.** Each unit of time reaches what depends on it.

`PROJECT.json` lists, under "hazards", where in the code these bite and which
property covers each of them.

## The modules

| module | models |
| --- | --- |
| `LineFlow` | the client line flow |
| `Mailbox` | what the line flow promises: the abstract specification of it |
| `LineFlowMC` | what one read may hold, in the instances for TLC |
| `AuthSlots` | the authentication slots |
| `ServerConn` | the server connection |
| `LogStore` | the log store |
| `Mcp` | MCP sessions of the server, mooproxy and the client |
| `ServerLink` | the bytes between mooproxy and the server, in both directions |
| `Recall` | /recall with from, to and search |
| `RecallMC` | words, search strings and histories, in the instance for TLC |
| `Lockfile` | the lock file of a world and the instances started for it |
| `LineFlowProofs`, `AuthSlotsProofs`, `ServerConnProofs`, `LogStoreProofs`, `McpProofs`, `ServerLinkProofs`, `RecallProofs`, `LockfileProofs` | theorems |

All models but `Mcp`, `Recall` and `Lockfile` have the same shape. The variable `pc` holds the phase of
`mainloop()` in the order of the code, restricted to the phases that matter for
the part; each action is one handler or one iteration of a loop and carries a
comment with the function it models. Variables have the names of the fields of
`World`. Variables marked as history variables are not in the code and only
properties read them. Messages to the user appear where they share a queue with
what is modelled. Definitions named `Slip...` stand before the definition they
vary; they are plausible mistakes (a missing reset, the wrong end of a queue, a
forgotten guard), no specification uses them, and PROJECT.json pairs each
property with one that would break it.

**LineFlow.** A line is a record of its kind (which stands for its flags,
line.h) and the arrival number of the server line it carries. Each line costs one
unit of buffer. Authentication is the number of connections in `AUTH_ST_CORRECT`:
a separate module has the rest. `Select` lets the server and the client send, or the
client leave. `ClientText`, `ClientMcp`, `ClientQuit`, `ClientRecall`, `ClientAce` and
`ClientForget` dispatch one client line each: these are all commands that touch the
queues other than by a message. Copies have kinds of their own, after their flags:
"recalled" are those made for a new session, "redrawn" those of /ace and of /recall with
a number (both LINE_RECALLED in the code), and "found" those of /recall with its search
(LINE_MESSAGE: these are buffered when the client is lost, and the next one is sent them
as certainly new). `Fill` and `Write` are the two halves of `flush_buffer()`. `Trim` is
`world_trim_dynamic_queues()`. Lines of which a byte waits in the transmit buffer are in
`client_txbuffer`; they are copies, as the originals have moved on to `inactive_lines`.

**Mailbox.** A line is its arrival number; lines are *fresh*, *unconfirmed* or *read*.
They arrive in order, are presented one at a time, the oldest first, confirmed
together, and taken away only by a /forget or by shortage of space: the oldest
first, nothing unread while something read is kept, and what was not read is
remembered as *lost*. `LineFlow!KeepsPromise` maps the queues to it: the server
lines that are buffered or on the way are fresh, those of `inactive_lines` are
unconfirmed, those of `history_lines` are read; `lost` is `dropped`, and `posted` is
`regular`. So what the promotion of a client does to `buffered_lines`, what a take-over
leaves in the queues, or a lost client in the transmit buffer, must be steps that
change nothing here.

**AuthSlots.** `slots` holds four of the parallel arrays, `bufs` the permutation
of buffers (`auth_buf`), `memory` what is in each buffer. `CheckSlots` is the loop
at the start of `wait_for_network()`, which ends with the first slot that can
move. After `Select` come the client, the listening sockets and the slots from
last to first.

**ServerConn.** The three descriptors are open or not; the address list is NULL
or a number of addresses to try. Phases after `commands` are the slots of
`handle_flags()` in the order of the code. A command may arrive in any
pass; the history variable `raced` remembers that one came in a pass that had
already flagged a lookup or an attempt (`Calm` says that none is flagged).

**LogStore.** Lines know the day they were made on and the date of their time
stamp, which the code keeps apart: `line->day` is `current_day()`, set by
`tick_day()`, while `line->time` is `current_time()`, set by `tick_second()`. The
first decides when a file is done, the second names the file. `NothingToLog`,
`NextDay` and `MoveLines` are the three ways through
`world_flush_client_logqueue()`; `OpenFile` and `OpenFails` are `log_init()`;
`Write` and `WriteFails` are one iteration of `flush_buffer()`. Signals come in
any phase, commands in theirs. `ClockMayRepeat` lets a pass take whole minutes.

**Mcp.** A protocol of three parties rather than a loop: mooproxy, the server and
the client of the moment, with a queue of messages in either direction between
mooproxy and each of the two. What mooproxy reads it dispatches in the same pass,
so `ServerLine` and `ClientLine` take a message and handle it. `ServerConnects`
and `ClientConnects` are the ends of `handle_connecting_fd()` and
`promote_auth_connection()` with the calls into mcp.c. A take-over hands the new
client any part of the queue of the old one, as `Promote` of `LineFlow` does;
`inherited` remembers that. What the server and the client do is external: `ServerReads` and
`ClientReads` follow MCP and mcpreset.html, which README.md demands of them. A
client makes a new key for every session. `ChainedSpec` adds a client that is
itself a mooproxy, with clients of its own.

**ServerLink.** The same loop, seen from the connection to the server, on bytes. A byte
that is read is CR, LF or other, and a read takes any number of bytes that fit;
`LinesIn` and `Rest` are what `buffer_to_lines()` queues and leaves. A line for the
server is a number and a length, its bytes are numbered, `Fill` and `Write` are the
halves of `flush_buffer()`. How connections are made is reduced to the status, the three
descriptors and the flags between them: `ServerConn` has the rest. As in the code, `CommandConnect`
looks at the status alone, so that a second lookup may run beside an attempt, its answer
may deny a connection that is open, and `Connects` may put a new connection in the place
of an open one, with what is in its buffers and queues. `beside` remembers that an
attempt was made while a connection was open; `received` and `handed` begin with what
that one left.

**Recall.** The parser of recall.c is a recursive descent by loops; `pc` is the place in
it, `word` the word it has read ahead, and each word is chosen when it is read, so
that one behaviour is one argument string. A word is a sequence of typed pieces
("-2days" has three). After the last word, `Back` and `Scan` are the turns of the loops
over the history.

**Lockfile.** Several instances, each of up to three processes that share one open file
description. `Open` and `Lock` are the two steps of `world_acquire_lock_file()`,
`Close` and `Unlink` those of `world_remove_lockfile()`, after which an instance is
"leaving" until it exits: it serves nobody, but `main()` still writes what is left of the
log and removes the links (mooproxy.c:182-184). A file is known by the instance
that created it, and outlives its path while it is open.

## The runs

| run | shows |
| --- | --- |
| `LineFlow_all` | order, no silent loss, no server line written twice but as a copy, each session in order, what may become history or be buffered, the limit, counted drops, and the refinement of `Mailbox`; waiting lines reach a client that stays; a correct connection is always promoted |
| `AuthSlots_all` | right verdicts, own buffers, the rate limit, reserved slots, no correct peer kicked, an answer for everyone |
| `ServerConn_all` | in every interleaving: a user's attempt is not retried, no busy loop of reconnects; as long as no command has raced with a flag: agreement of status, descriptors, flags and list, /disconnect is final, lists end, connections are retried |
| `LogStore_all` | files by day and in order, every line accounted for, fresh links, and what waits is written |
| `Mcp_all` | mooproxy knows the key of the server's session, or has a handshake to offer; a client and a server that stay agree on a session |
| `ServerLink_all` | the same lines however they are read; the server is sent what was queued for this connection, in order; a connection inherits something only from one that was still open when it was attempted; a line that waits is sent, also one too large for the buffer |
| `Recall_all` | exactly the lines asked for, in order, but for the last ones; the greedy search finds what can be found; weekdays are the nearest; every recall ends |
| `Lockfile_all` | one instance, but for a lock on a file that has lost its path or is about to |

`TypeOK` of every module is proved. TLC checks it where it is about more than types:
in `ServerLink_all` (room in the buffers).

Four runs show that the code does not do what a comment, a help text, the Changelog or
README.md says:

- `ServerConn_disconnect`: /disconnect in the pass of a failed attempt finds no
  socket (network.c:537), says "Connection attempt aborted." and leaves the
  attempt at the next address flagged.
- `LogStore_shutdown`: /shutdown asks what the log's queues hold, not what is on
  its way to them. When the day changes in that pass, the flush only closes the
  file (log.c:137-145) and `mainloop()` ends with lines unwritten, though
  "/shutdown now refuses to shut down if not all loggable data could be written"
  (Changelog:97). A disk that fills up in that very pass does the same.
- `Mcp_chained`: nothing is looked at in a session that is negotiated (mcp.c:57).
  When the client is another mooproxy and resets the session itself, the old key is
  kept; the next client makes this mooproxy reset with that key, which the server
  ignores, and forget key and handshake. No handshake comes ("We'll receive a new
  "mcp" message.", mcp.c:209), and clients get no session until the server is
  connected to again. BUGS:8 reports this state, with daisy-chained proxies, as one
  whose cause is not known.
- `Recall_last`: "/recall to -80 lines" is to recall the last 80 lines (README.md:269-271).
  Without `from`, the 80 lines are counted back from the time of the oldest line
  (recall.c:144-147, 822-850), so that only lines as old as that one are recalled.
  "Fix /recall to -10 lines [completely forgot what's wrong with it...]" (TODO:26) is
  probably about this. `RecalledAsAsked` is said of all other arguments.

More was met while reading, without a run of its own:

- A connection that takes over is promoted (network.c:883) before `mainloop()` has
  thrown away what was queued for the old client (mooproxy.c:292), so copies made by
  /ace or /recall with a number and MCP lines, flagged "Don't buffer" (line.h:30), go to
  the new session. `Promote` in `LineFlow` keeps both queues for this reason, and `TakeOver` in `Mcp`
  follows it.
- Lines found by /recall are flagged like messages (recall.c:879), not as recalled lines:
  if the user who asked is lost before they are written, they are buffered
  (mooproxy.c:294-301), count against `buffer_size`, and the next client is sent them as
  certainly new lines, beside the lines they are copies of. `QueueKinds` says that this
  is all that becomes of them: no copy enters the history.
- The answer of a lookup sets the status to disconnected with the attempt only flagged
  (resolve.c:168). A /connect in the same pass is accepted and starts a second lookup
  beside the attempt. `Agreement`, `ListIsConsumed` and `Retried` except what follows
  such a race with `raced`: without that, TLC finds all three violated. The answer of that
  second lookup may come when the first attempt has succeeded; the status then denies the
  connection, the user can connect once more, and `server_fd` is overwritten
  (network.c:491) with the old socket open and the buffers as they are. So the first
  line read from the new connection may begin with a part of one from the old, and
  what was typed for the old one is sent to the new. `SameLinesHoweverRead` and
  `SentInOrder` state that this is the only way.
- When the resolver slave ends without an answer, `WLD_RECONNECT` is not set
  (resolve.c:151) and automatic reconnecting stops. The model follows it, with `died`,
  and `Retried` excepts it.
- A /connect that is refused for its arguments has already freed host and port
  (command.c:635), so that a reconnect flagged in the same pass looks up no name;
  the lookup fails and is retried as any other.
- The timer compares seconds of the minute (timer.c:61): a pass that takes whole
  minutes, as on a suspended machine, skips `tick_second()`; if the day changed, the
  first line of the new day carries a stale time, and as it names the file, the new day
  is logged to the file of the old one. With `ClockMayRepeat = TRUE`, `FiledByDay` is
  violated in this way, so `LogStore_all` and two of the theorems take it to be FALSE.
- An instance that has opened the lock file before another closes and unlinks it
  (daemon.c:258-261) gets a lock on a file without a path; the next one creates a new
  file and runs beside it, though the lock is there "so only one instance can run for
  each world" (Changelog:92). `OneInstance` excepts it by `raced`. A resolver slave
  inherits the descriptor, so that the lock of a killed mooproxy lasts until the lookup
  ends.
- A search string that begins with ".*" matches every line, as the empty piece before
  it ends the list of pieces (recall.c:895), and so does what follows an empty piece
  between two ".*". `SearchAsDocumented` is about strings without such pieces.

### Bounds

Every bound is a constant whose comment begins with "bound:", and each appears
as a guard. They are as small as the hazards allow:

- `LineFlow_all` has two sessions, a buffer of two lines, and two lines that are kept,
  of the server or, one of them, of mooproxy (messages of the commands come on top), so
  that a take-over meets lines in every queue, each queue is trimmed, and the transmit
  buffer of one line is full with lines behind it. Reads of two lines are among those of
  the server, and so is an MCP line. One read finds a command: one of each kind, or
  a /quit with a line of text behind it. /ace and the context show one line.
  Safety and liveness are checked in one run, over the same states.
- `AuthSlots_all` has two slots, one of them reserved, and four connections, so
  that one can make its address privileged, another of that address and a third
  fill the slots, and the fourth needs one to be freed; the two addresses cannot
  be privileged at the same time; one token and one change of the hash are enough to make
  verdicts wait and the hash change under them. Addresses and strings are not
  symmetric under the liveness property, so no symmetry is used; but the hash of the
  configuration file is a constant, as nothing tells the strings apart at the start.
- `ServerConn` has two addresses (a list with a next one), and a delay with the
  steps zero, first and limit. All its other state is finite as it is.
- `LogStore_all` has two server lines beside mooproxy's own (start, day, report of
  a loss, shutdown), two days, one failure, a write buffer of one line and a
  `logbuffer_size` of nothing or one line, so that lines of both days wait
  together, buffers fill, and the trim takes from both queues. One failure is
  enough for an error to be remembered over later passes; it may happen at any
  open or write. The run does not check for deadlock: the process ends.
- `Mcp_all` has three connections to the server and four clients: enough for a
  session to be negotiated, for its reset to be overtaken by another client or
  another connection, and for a client after that. Reads have no bound of their
  own, as every message has a cause in a connection. The run does not check for
  deadlock, as the connections run out. `Mcp_chained` needs one connection, two
  clients and one reset.
- `ServerLink_all` has two connections and a buffer of two bytes. Up to three bytes are
  read from a connection, of three kinds, less the lines typed by then, of which there are
  two at most: so the buffer is exactly full, a line is as long as it, CR and LF fall into
  one read or two, a part of a line is left when the connection ends or another
  takes its place, and lines wait for the server in both queues at that time. Lines for
  the server are shorter than the buffer, or longer. The lookups beside each other have
  no bound.
- `Recall_all` has argument strings of up to six words out of 23 (the longest timespec
  takes three), times around noon of a monday in a year without a 29th of February, and
  a history of one line or of four, in which the clock was set back between the second
  and the third; `Recall_last` has the same. Neither checks for deadlock, as the command ends.
- `Lockfile_all` has four instances: one that ends, one that opened the file before, one
  that is refused and one that comes after. It does not check for deadlock, as all end.

### Fairness

Safety needs none. For liveness each module has one `FairSpec` (`Spec` itself in `ServerLink` and `Recall`):

- The loop goes on (weak fairness of the phases): `select()` waits a second at
  most, everything else is straight-line code without blocking calls.
- `LineFlow`: a client that stays takes bytes again and again (strong fairness of
  `Write`); the property is about clients that stay.
- `AuthSlots`: seconds go by (strong fairness of the tick, which happens in one
  phase of a pass). Nothing is assumed of the peers.
- `ServerConn`: lookups and attempts have an outcome, as the resolver and TCP time
  out; the clock reaches the time of a reconnect; `pipe()` and `fork()` work again
  some time. Nothing is assumed of the user or of the server.
- `Mcp`: what is queued is read in the end (weak fairness of the four reads), which
  stands for the loop, the network and peers that read. Nothing is assumed of
  connections; the property is about a client and a server that stay.
- `ServerLink`: the loop, and a server that stays reads (strong fairness of `Write`).
- `Recall`: the command runs on (weak fairness of its next step); it is straight-line
  code and loops without blocking calls.
- `LogStore`: only the loop. The disk works again because failures are bounded.

## What is proved

The theorems hold for every value of the constants that meets the assumptions
stated beside them (sizes are natural numbers, buffers hold at least one line,
batches are sequences of the kinds of lines). Proofs are by induction on steps:
for each theorem, an invariant that holds at the start, is preserved by every
action, and implies the property.

| theorem | the inductive invariant, and why it is needed |
| --- | --- |
| `LineFlowProofs!TypeCorrect` | `TypeOK` is inductive; the work is in the sequences |
| `LineFlowProofs!BufferBounded` | `WithinBuffer` with `TypeOK`: the three cuts of the trim together come down to the limit (`ExcessBounds`) |
| `LineFlowProofs!NothingBufferedForClient` | `AwayInv`: the queue is also empty while its lines are handed to a new client, across the phases of a promotion |
| `LineFlowProofs!KindsKeptApart` | `KindInv`: what becomes of a copy is decided by its flags where it leaves a queue, so that the kinds in `history_lines`, `inactive_lines` and `buffered_lines` follow from what `Fill`, `Unqueue` and the activity of the user put there |
| `LineFlowProofs!LinesKeptInOrder` | `OrderInv`: each queue ascends, and each is below all those behind it. It needs `PhaseInv`, what each phase finds: the promotion puts `buffered_lines` behind `client_txqueue`, which is right only because one of them is empty then, and a read fills `server_rxqueue` only when it is empty |
| `LineFlowProofs!PromiseKept` | `PromiseInv` = `TypeOK`, `AwayInv`, `SoundInv` (kinds of lines in each queue, and which have numbers), `PhaseInv`, `OrderInv` and `RegularInv`. `PromiseStep` maps each step: `FreshArrives` (a read arrives), `FreshPresented` (`Fill` presents the oldest), `FreshTrimmed` (the trim shortens; `CutsInTurn` is the order of its cuts), `HistorySteps` (activity confirms or forgets), and `FreshKept` for all steps that stutter, promotion and take-over among them |
| `LineFlowProofs!LossCounted` | an action property from `PromiseInv`: only the trim takes lines away, and the counts grow by what it cut (`FewIds`: a queue has no more server lines than lines) |
| `LineFlowProofs!NothingLostSilently` | `ShownInv`, with `PromiseInv`: while a client is connected, each possibly new line was written to some client or is on the way to this one, as it is or copied |
| `LineFlowProofs!SessionsInOrder` | `SessionInv` and `WrittenInv`, with `PromiseInv`. `SessionInv`: what a session presented ascends, is below what it is still to present, and that is below what the server sent since; its own lines are those beyond the first `leftover` of the path (`BeyondOfConcat`), and `PromoteRises` is the order of what a new client is sent. `WrittenInv`: the server lines on the path, buffered or still to come ascend and are above the newest that was written, whatever session they are written to |
| `ServerConnProofs!TypeCorrect` | `TypeOK` is inductive |
| `ServerConnProofs!UserAttemptNotRetried` | `UserInv`: a user's attempt switches `reconnect_enabled` off, until it succeeds or the setting is changed; in every interleaving |
| `ServerConnProofs!NoBusyLoop` | `HurryInv`: an immediate reconnect leaves a delay behind |
| `ServerConnProofs!CalmConnection`, `DisconnectStaysFinal` | `WhenCalm`: which flags can be set in which phase with which status, and that nothing is pending once the user has ended the connection; until a command has raced with a flag (`RacedStays`), as the violations above show |
| `AuthSlotsProofs!TypeCorrect` | `TypeInv`: `TypeOK`, and the loop over the slots stays within those in use |
| `AuthSlotsProofs!RateIsLimited` | `RateInv`: attempts made plus tokens left never exceed tokens given |
| `AuthSlotsProofs!BuffersKept`, `JudgedRight` | `JudgeInv`: buffers are a permutation, a connection has one place, each buffer holds its peer's text, and the remembered literal belongs to the present hash |
| `AuthSlotsProofs!CorrectNeverKicked` | `NoCorrect`, with `TypeInv`: while connections are taken and strings read no slot is correct, as the loop before promotes such a slot and then does not go on to `select()` |
| `AuthSlotsProofs!SlotsStayReserved` | an action property from the types: what the accept kicks is privileged only if there are more of these than reserved slots (`AcceptShape`) |
| `LogStoreProofs!TypeCorrect` | `TypeInv`: `TypeOK`, and a file is open whenever something is written |
| `LogStoreProofs!NothingLostUncounted` | `EveryLineAccounted` with `TypeInv` |
| `LogStoreProofs!LinksAreFresh` | links, with `date = day`; assumes that the clock does not repeat a second |
| `LogStoreProofs!LinesGoToTheirDay` | `DayInv`: `log_current` and `log_buffer` hold lines of `log_currentday` only, the open file is that of this day, and nothing is buffered without a file; same assumption, without which a pass of whole minutes across midnight is a counterexample |
| `LogStoreProofs!FilesAreInOrder` | `OrderInv`: ids ascend over files, `log_buffer`, `log_current` and `log_queue` together, whatever their days, and none exceeds the last one logged. No assumption on the clock: a line in the wrong file would still be in order there |
| `McpProofs!TypeCorrect` | `TypeOK` is inductive |
| `McpProofs!KeyIsKnown`, `NotStuck` | `ServerInv`: the messages queued for the server decide the session that it will have when it has read them (`Reaches`, with a list of the sessions in between), and mooproxy knows the key of that one; if it has no key, it has a handshake, or one is in a queue, or a reset that the server will obey is. It needs `ClientInv`: a client in a session of mooproxy's sends no other handshake, as keys are new, each is sent once, and a reset is for a key that mooproxy has forgotten. `Mcp_chained` is the counterexample for clients that reset themselves |
| `ServerLinkProofs!TypeCorrect` | `TypeOK` is inductive: what a read leaves is shorter than the buffer (`RestShort`), and a line is filled in only when it fits but for its end |
| `ServerLinkProofs!SentAsQueued` | `SentInOrder` with `NothingLeft` and `LeftBeside`: while there is no connection the transmit buffer is empty, and when a connection is made so are both queues, as each pass that finds none discards what it merged; so what is left then was left by a connection that is open, and an attempt beside it is remembered |
| `ServerLinkProofs!ReadAsSent` | `CutInv`: the lines and the rest of the buffer are what the reader of single bytes would have, the rest holds no LF, and it is empty without a connection, so that bytes are left to a connection only by an open one (`LeftBeside`). `ChunkAsFed` goes over the bytes of a read: one byte more in the buffer changes the cut as it changes that reader (`CutAsFed`), also the byte that fills the buffer |
| `RecallProofs!TypeCorrect` | `TypeInv` is inductive; the work is in the arithmetic of dates |
| `RecallProofs!RecallsWhatWasAsked` | `BackInv`, `CountInv`, `PickedInv`: the scan back has counted the lines behind it that are old enough, the scan forward those before it, and has picked the asked ones among them; so the two agree on how many there are. Also for the last lines, but there what was asked for is not what README.md says |
| `RecallProofs!WeekdayIsNearest` | from types alone, by arithmetic modulo 7 |
| `RecallProofs!FirstFitFinds` | from types. `Somehow` says for each piece and position whether the pieces from there on fit; it solves the equation of `recall_match()`'s loop (`FirstPlace`: what fits behind a later place of a piece fits behind its first one), and the equation has one solution (`RunIsSomehow`) |
| `RecallProofs!StepsAdvance` | from types. What is left of `Ends` for TLC is that a step can always be taken |
| `LockfileProofs!TypeCorrect`, `OneInstanceRuns` | `LockInv`: a file has one holder; `PathInv`: while nobody raced, the active instance's file has the path, and no other one is about to unlink |

Two of these theorems are about recursive functions, of which neither the induction
theorems of the library nor the unfolding of a definition can be used here. The proofs
go by least counterexamples (`NaturalsReached`): they show that the equation of the
function has a solution (`CutsExist`, `SplitsExist`, `RunsExist`), so that the function
satisfies it, and that it determines the value.

Only model-checked: liveness (`EventuallyShown`, `EventuallyPromoted`, `Answered`,
`ListIsConsumed`, `Retried`, `EventuallyLogged`, `SessionSetUp`, `Ends`, `Delivered`),
which needs fairness and ENABLED, that the prover does not handle. Every invariant
and every action property that a passing run checks is also a theorem.

## What is abstracted

- Bytes, except in `ServerLink`: lines are units. A partial write is one that completes
  some of the lines. Truncation, ANSI codes, time stamps and wording are left out.
- A handler is atomic, and so is a phase that has no choice in it. For the signal
  handler of SIGTERM this is an approximation: it may interrupt a phase halfway,
  and the model lets it come between phases only.
- The configuration file is taken to set `logging`, so that the links are
  updated in the first pass; that a file of the day or of the day before exists at
  the start is left open. A second /shutdown after an accepted one is left out.
- The number of failed logins that mooproxy reports to the next client is left out.
- MCP messages that change nothing (the end of a negotiation, other packages) and
  the bytes of keys are left out; `extract_mcpkey()` is taken to find the key of a
  well-formed message. The server and the client support the reset package, as
  README.md demands for MCP to work at all.
- The directories of the log can be read: `lstat()` fails only for missing files.
- `ServerLink` leaves out the messages to the user, treats MCP lines to the server as any
  other line, and makes a wait before a reconnect part of being disconnected. Bytes
  before the connection ended that were not yet cut into a line are dropped, as in
  the code.
- `Recall` works in a zone without daylight saving time, with a clock that stands still
  during the command and numbers that do not overflow. A year of two zeros stands for a
  year that is left out. Upper case, colours and messages are left out; a word is what
  the parser makes of it, not its spelling.
- `Lockfile` leaves out the process id in the file, which is only shown, and errors of
  `open()` and `flock()`, after which an instance ends without having touched anything.

## Not modelled

- **Settings and their parsing** (config.c, most of accessor.c): text to value and
  back, once for each command or line of the file. The settings that others react to
  while running are actions of the module concerned: autoreconnect in `ServerConn`,
  auth_hash in `AuthSlots`, logging and logbuffer_size in `LogStore`.
- **Hashing** (crypt.c): a function of the C library; `AuthSlots` takes it to tell
  strings apart.
- **Command dispatch and help** (command.c): a search in a table and text output.
  The commands that change state are actions of the modules of that state.
- **ANSI codes** of /ace: what is written around each line, and the screen that is drawn
  when it is switched on. The lines that /ace recalls are in `LineFlow`.
- **Binding of ports**: one system call for each address family and a report.
- **Panic**: ends the process after a message; nothing follows it.
- **Start-up**: options, directories and permissions, once and in sequence; the lock,
  daemonizing and the end of the process are in `Lockfile`.
- **Timer**: what each unit of time does is in the module of the state it changes; that
  the units that passed are found by comparing their numbers is not, but for the second
  that repeats (`ClockMayRepeat`).
- **Easter egg**: answers one fixed phrase.
- **Composition**: `LineFlow` and `AuthSlots` share the promotion of a connection, and
  `ServerConn` and `ServerLink` the status of the connection to the server. Each contains
  of the other what its properties need, as a choice; there is no module that joins
  them, as the product is out of TLC's reach at bounds at which the hazards of both occur.
