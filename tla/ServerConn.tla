----------------------------- MODULE ServerConn -----------------------------
(***************************************************************************)
(* The connection to the MOO server: resolving its name in a slave process *)
(* (resolve.c), trying the addresses one by one (network.c), reconnecting  *)
(* with a growing delay (world.c) and the commands /connect, /disconnect   *)
(* and /set autoreconnect (command.c, accessor.c).                         *)
(*                                                                         *)
(* A pass of mainloop() goes through these phases, held in pc: the three   *)
(* descriptors in the order wait_for_network() looks at them, the timer,   *)
(* the lines of the client, and the slots of handle_flags() in order.  A   *)
(* flag that is set after its slot has passed waits for the next pass.     *)
(*                                                                         *)
(* Definitions named Slip... are what a slip in the code would make of the *)
(* definition that follows them; no specification uses them.               *)
(***************************************************************************)
EXTENDS Integers

CONSTANTS
    MaxAddresses,       \* bound: addresses one lookup yields
    MaxDelay            \* bound: steps of the back-off delay

ASSUME BoundsAssumption == MaxAddresses \in Nat /\ MaxDelay \in Nat \ {0}

NULL == -1

VARIABLES
    pc,
    server_status,
    server_resolver_fd, server_connecting_fd, server_fd,  \* open, or -1?
    server_addresslist,  \* NULL, or how many addresses are left to try
    flags,
    target,              \* are server_host and server_port set?
    autoreconnect,       \* the setting
    reconnect_enabled,
    reconnect_delay,     \* 0: rounds to no seconds; else a step of the back-off
    \* History variables, read by the properties only:
    orphaned,   \* was a descriptor overwritten while it was open?
    attempt,    \* who asked for the latest attempt: "none", "user" or "auto"
    stopped,    \* /disconnect was acknowledged, and no /connect came since
    owed,       \* a connection was lost or failed, and autoreconnect applies
    died,       \* the latest resolver slave ended without an answer
    hurried,    \* immediate reconnects since the delay was last lowered
    raced       \* did a command come in a pass that had already flagged a
                \* lookup or a connection attempt?

fds == <<server_resolver_fd, server_connecting_fd, server_fd>>
settings == <<target, autoreconnect, reconnect_enabled>>
ghosts == <<orphaned, attempt, stopped, owed, died, hurried, raced>>
vars == <<pc, server_status, fds, server_addresslist, flags, settings, reconnect_delay, ghosts>>

Flag == {"SERVERQUIT", "RECONNECT", "SERVERRESOLVE", "SERVERCONNECT"}
Phase == {"resolver", "server", "connecting", "timer", "commands"} \union Flag
Status == {"DISCONNECTED", "RESOLVING", "CONNECTING", "CONNECTED", "RECONNECTWAIT"}

Init ==
    /\ pc = "resolver"
    /\ server_status = "DISCONNECTED"
    /\ server_resolver_fd = FALSE /\ server_connecting_fd = FALSE /\ server_fd = FALSE
    /\ server_addresslist = NULL
    /\ flags = {}
    /\ target = FALSE
    /\ autoreconnect \in BOOLEAN
    /\ reconnect_enabled = FALSE
    /\ reconnect_delay = 0
    /\ orphaned = FALSE /\ attempt = "none" /\ stopped = FALSE /\ owed = FALSE /\ died = FALSE
    /\ hurried = 0 /\ raced = FALSE

\* The phase is over, with or without an event.
After(phase) == CASE phase = "resolver"      -> "server"
                  [] phase = "server"        -> "connecting"
                  [] phase = "connecting"    -> "timer"
                  [] phase = "timer"         -> "commands"
                  [] phase = "commands"      -> "SERVERQUIT"
                  [] phase = "SERVERQUIT"    -> "RECONNECT"
                  [] phase = "RECONNECT"     -> "SERVERRESOLVE"
                  [] phase = "SERVERRESOLVE" -> "SERVERCONNECT"
                  [] phase = "SERVERCONNECT" -> "resolver"

EndPhase == pc' = After(pc)

Raise(flag) == flags' = flags \union {flag}

\* The handling of a flag begins with clearing it.
SlotOf(flag) == pc = flag /\ flag \in flags

-----------------------------------------------------------------------------
(* wait_for_network(): the resolver slave, the server, the pending socket. *)

\* world_handle_resolver_fd(), which ends with the slave gone.
ResolverGone ==
    /\ pc = "resolver" /\ server_resolver_fd
    /\ server_resolver_fd' = FALSE
    /\ server_status' = "DISCONNECTED"
    /\ EndPhase
    /\ UNCHANGED <<server_connecting_fd, server_fd, settings, reconnect_delay,
                   orphaned, attempt, stopped, hurried, raced>>

ResolverSuccess ==
    /\ ResolverGone
    /\ \E n \in 0 .. MaxAddresses : server_addresslist' = n
    /\ Raise("SERVERCONNECT")
    /\ UNCHANGED <<owed, died>>

ResolverError ==
    /\ ResolverGone
    /\ Raise("RECONNECT")
    /\ owed' = reconnect_enabled
    /\ UNCHANGED <<server_addresslist, died>>

\* "Resolver slave went wacko."
ResolverDeath ==
    /\ ResolverGone
    /\ owed' = reconnect_enabled
    /\ died' = TRUE
    /\ UNCHANGED <<flags, server_addresslist>>

\* world_disconnect_server()
DisconnectServer == server_fd' = FALSE /\ server_status' = "DISCONNECTED"

\* handle_server_fd(): end of file or an error.
ServerCloses ==
    /\ pc = "server" /\ server_fd
    /\ DisconnectServer
    /\ Raise("RECONNECT")
    /\ owed' = reconnect_enabled
    /\ EndPhase
    /\ UNCHANGED <<server_resolver_fd, server_connecting_fd, server_addresslist, settings,
                   reconnect_delay, orphaned, attempt, stopped, died, hurried, raced>>

\* handle_connecting_fd() finds the connection established.
ConnectSucceeds ==
    /\ pc = "connecting" /\ server_connecting_fd
    /\ server_addresslist' = NULL
    /\ server_connecting_fd' = FALSE
    /\ server_fd' = TRUE
    /\ orphaned' = (orphaned \/ server_fd)
    /\ server_status' = "CONNECTED"
    /\ reconnect_enabled' = autoreconnect
    /\ attempt' = "none"
    /\ EndPhase
    /\ UNCHANGED <<server_resolver_fd, flags, target, autoreconnect, reconnect_delay,
                   stopped, owed, died, hurried, raced>>

\* handle_connecting_fd() finds an error: server_connect_error() closes the
\* socket and flags the attempt at the next address; the status stays.
SlipConnectFails ==
    /\ pc = "connecting" /\ server_connecting_fd
    /\ server_connecting_fd' = FALSE
    /\ EndPhase
    /\ UNCHANGED <<flags, server_status, server_resolver_fd, server_fd, server_addresslist,
                   settings, reconnect_delay, ghosts>>
ConnectFails ==
    /\ pc = "connecting" /\ server_connecting_fd
    /\ server_connecting_fd' = FALSE
    /\ Raise("SERVERCONNECT")
    /\ EndPhase
    /\ UNCHANGED <<server_status, server_resolver_fd, server_fd, server_addresslist,
                   settings, reconnect_delay, ghosts>>

-----------------------------------------------------------------------------
(* The timer.                                                              *)

\* world_do_reconnect(), for a status of RECONNECTWAIT.
DoReconnect == Raise("SERVERRESOLVE") /\ attempt' = "auto"

\* Time goes by until and tick_second() reconnects.
TickReconnect ==
    /\ pc = "timer" /\ server_status = "RECONNECTWAIT"
    /\ DoReconnect
    /\ EndPhase
    /\ UNCHANGED <<server_status, fds, server_addresslist, settings, reconnect_delay,
                   orphaned, stopped, owed, died, hurried, raced>>

\* tick_minute(): world_decrease_reconnect_delay(), by one step or by less.
TickMinute ==
    /\ pc = "timer" /\ server_status = "CONNECTED" /\ reconnect_delay > 0
    /\ reconnect_delay' = reconnect_delay - 1
    /\ hurried' = 0
    /\ EndPhase
    /\ UNCHANGED <<server_status, fds, server_addresslist, flags, settings,
                   orphaned, attempt, stopped, owed, died, raced>>

-----------------------------------------------------------------------------
(* The commands of the client.                                             *)

\* A pass may already have flagged an attempt when a command comes.
Calm == flags \intersect {"SERVERRESOLVE", "SERVERCONNECT"} = {}
CommandComes == pc = "commands" /\ raced' = (raced \/ ~Calm)

\* command_connect() with no connection and no attempt in sight.
SlipConnectCommand ==
    /\ CommandComes /\ server_status = "DISCONNECTED"
    /\ target' = TRUE
    /\ Raise("SERVERRESOLVE")
    /\ attempt' = "user" /\ stopped' = FALSE /\ owed' = FALSE
    /\ UNCHANGED <<pc, server_status, fds, server_addresslist, autoreconnect,
                   reconnect_enabled, reconnect_delay, orphaned, died, hurried>>
ConnectCommand ==
    /\ CommandComes /\ server_status = "DISCONNECTED"
    /\ target' = TRUE
    /\ reconnect_enabled' = FALSE
    /\ Raise("SERVERRESOLVE")
    /\ attempt' = "user" /\ stopped' = FALSE /\ owed' = FALSE
    /\ UNCHANGED <<pc, server_status, fds, server_addresslist, autoreconnect,
                   reconnect_delay, orphaned, died, hurried>>

\* A /connect with a bad port, or without a host or port when there is no
\* default for it; by then the previous target is gone.
ConnectRefused ==
    /\ CommandComes /\ server_status = "DISCONNECTED"
    /\ target' = FALSE
    /\ UNCHANGED <<pc, server_status, fds, server_addresslist, flags, autoreconnect,
                   reconnect_enabled, reconnect_delay, orphaned, attempt, stopped,
                   owed, died, hurried>>

\* command_connect() while waiting to reconnect.
ConnectNowCommand ==
    /\ CommandComes /\ server_status = "RECONNECTWAIT"
    /\ reconnect_delay' = 0
    /\ DoReconnect
    /\ stopped' = FALSE /\ owed' = FALSE /\ hurried' = 0
    /\ UNCHANGED <<pc, server_status, fds, server_addresslist, settings, orphaned, died>>

\* command_disconnect() while resolving: world_cancel_server_resolve().
AbortResolve ==
    /\ server_status = "RESOLVING"
    /\ server_resolver_fd' = FALSE
    /\ server_status' = "DISCONNECTED"
    /\ UNCHANGED <<server_connecting_fd, server_fd, server_addresslist, flags, reconnect_delay>>

\* While connecting: world_cancel_server_connect(), which does nothing when
\* there is no socket.
SlipAbortConnect ==
    /\ server_status = "CONNECTING"
    /\ IF server_connecting_fd
       THEN server_addresslist' = NULL /\ server_status' = "DISCONNECTED"
       ELSE UNCHANGED <<server_addresslist, server_status>>
    /\ UNCHANGED <<fds, flags, reconnect_delay>>
AbortConnect ==
    /\ server_status = "CONNECTING"
    /\ IF server_connecting_fd
       THEN /\ server_connecting_fd' = FALSE
            /\ server_addresslist' = NULL
            /\ server_status' = "DISCONNECTED"
       ELSE UNCHANGED <<server_connecting_fd, server_addresslist, server_status>>
    /\ UNCHANGED <<server_resolver_fd, server_fd, flags, reconnect_delay>>

\* While connected.
QuitServer ==
    /\ server_status = "CONNECTED"
    /\ Raise("SERVERQUIT")
    /\ UNCHANGED <<server_status, fds, server_addresslist, reconnect_delay>>

\* While waiting to reconnect.
SlipCancelReconnect ==
    /\ server_status = "RECONNECTWAIT"
    /\ reconnect_delay' = 0
    /\ UNCHANGED <<server_status, fds, server_addresslist, flags>>
CancelReconnect ==
    /\ server_status = "RECONNECTWAIT"
    /\ server_status' = "DISCONNECTED"
    /\ reconnect_delay' = 0
    /\ UNCHANGED <<fds, server_addresslist, flags>>

DisconnectCommand ==
    /\ CommandComes
    /\ AbortResolve \/ AbortConnect \/ QuitServer \/ CancelReconnect
    /\ stopped' = TRUE /\ owed' = FALSE
    /\ hurried' = IF reconnect_delay' < reconnect_delay THEN 0 ELSE hurried
    /\ UNCHANGED <<pc, settings, orphaned, attempt, died>>

\* aset_autoreconnect()
SetAutoreconnect ==
    /\ CommandComes
    /\ autoreconnect' \in BOOLEAN
    /\ reconnect_enabled' = autoreconnect'
    /\ attempt' = IF autoreconnect' THEN "none" ELSE attempt
    /\ owed' = (owed /\ autoreconnect')
    /\ UNCHANGED <<pc, server_status, fds, server_addresslist, flags, target, reconnect_delay,
                   orphaned, stopped, died, hurried>>

-----------------------------------------------------------------------------
(* handle_flags().                                                         *)

HandleServerQuit ==
    /\ SlotOf("SERVERQUIT")
    /\ flags' = flags \ {"SERVERQUIT"}
    /\ DisconnectServer
    /\ EndPhase
    /\ UNCHANGED <<server_resolver_fd, server_connecting_fd, server_addresslist, settings,
                   reconnect_delay, ghosts>>

\* world_schedule_reconnect() does nothing when there is a connection or an
\* attempt, or when autoreconnect does not apply.
MayReconnect == server_status = "DISCONNECTED" /\ reconnect_enabled

ReconnectRefused ==
    /\ SlotOf("RECONNECT") /\ ~MayReconnect
    /\ flags' = flags \ {"RECONNECT"}
    /\ EndPhase
    /\ UNCHANGED <<server_status, fds, server_addresslist, settings, reconnect_delay, ghosts>>

SlipLonger(delay) == delay
Longer(delay) == IF delay < MaxDelay THEN delay + 1 ELSE MaxDelay

\* Otherwise it waits; no delay at all reconnects at once.
ScheduleReconnect ==
    /\ SlotOf("RECONNECT") /\ MayReconnect
    /\ server_status' = "RECONNECTWAIT"
    /\ reconnect_delay' = Longer(reconnect_delay)
    /\ IF reconnect_delay = 0
       THEN /\ flags' = (flags \ {"RECONNECT"}) \union {"SERVERRESOLVE"}
            /\ attempt' = "auto"
            /\ hurried' = hurried + 1
       ELSE /\ flags' = flags \ {"RECONNECT"}
            /\ UNCHANGED <<attempt, hurried>>
    /\ EndPhase
    /\ UNCHANGED <<fds, server_addresslist, settings, orphaned, stopped, owed, died, raced>>

\* world_start_server_resolve(): not when busy, nor when pipe() or fork()
\* fails; in neither case anything else changes.
Busy == server_status \notin {"DISCONNECTED", "RECONNECTWAIT"}

ResolveNotStarted ==
    /\ SlotOf("SERVERRESOLVE")
    /\ flags' = flags \ {"SERVERRESOLVE"}
    /\ EndPhase
    /\ UNCHANGED <<server_status, fds, server_addresslist, settings, reconnect_delay, ghosts>>

StartResolve ==
    /\ SlotOf("SERVERRESOLVE") /\ ~Busy
    /\ flags' = flags \ {"SERVERRESOLVE"}
    /\ server_resolver_fd' = TRUE
    /\ orphaned' = (orphaned \/ server_resolver_fd)
    /\ server_status' = "RESOLVING"
    /\ owed' = FALSE /\ died' = FALSE
    /\ EndPhase
    /\ UNCHANGED <<server_connecting_fd, server_fd, server_addresslist, settings,
                   reconnect_delay, attempt, stopped, hurried, raced>>

\* world_start_server_connect(), which counts on a list of addresses.
ConnectWithoutList ==
    /\ SlotOf("SERVERCONNECT") /\ server_addresslist = NULL
    /\ flags' = flags \ {"SERVERCONNECT"}
    /\ EndPhase
    /\ UNCHANGED <<server_status, fds, server_addresslist, settings, reconnect_delay, ghosts>>

\* "Connecting failed, giving up."
SlipGiveUp ==
    /\ SlotOf("SERVERCONNECT") /\ server_addresslist = 0
    /\ flags' = flags \ {"SERVERCONNECT"}
    /\ server_addresslist' = NULL
    /\ server_status' = "DISCONNECTED"
    /\ owed' = reconnect_enabled
    /\ EndPhase
    /\ UNCHANGED <<fds, settings, reconnect_delay, orphaned, attempt, stopped, died, hurried, raced>>
GiveUp ==
    /\ SlotOf("SERVERCONNECT") /\ server_addresslist = 0
    /\ flags' = (flags \ {"SERVERCONNECT"}) \union {"RECONNECT"}
    /\ server_addresslist' = NULL
    /\ server_status' = "DISCONNECTED"
    /\ owed' = reconnect_enabled
    /\ EndPhase
    /\ UNCHANGED <<fds, settings, reconnect_delay, orphaned, attempt, stopped, died, hurried, raced>>

\* The next address: the socket is refused at once, or is on its way.
TryAddressFails ==
    /\ SlotOf("SERVERCONNECT") /\ server_addresslist > 0
    /\ server_addresslist' = server_addresslist - 1
    /\ server_connecting_fd' = FALSE
    /\ orphaned' = (orphaned \/ server_connecting_fd)
    /\ EndPhase
    /\ UNCHANGED <<flags, server_status, server_resolver_fd, server_fd, settings,
                   reconnect_delay, attempt, stopped, owed, died, hurried, raced>>

TryAddress ==
    /\ SlotOf("SERVERCONNECT") /\ server_addresslist > 0
    /\ flags' = flags \ {"SERVERCONNECT"}
    /\ server_addresslist' = server_addresslist - 1
    /\ server_connecting_fd' = TRUE
    /\ orphaned' = (orphaned \/ server_connecting_fd)
    /\ server_status' = "CONNECTING"
    /\ EndPhase
    /\ UNCHANGED <<server_resolver_fd, server_fd, settings, reconnect_delay, attempt,
                   stopped, owed, died, hurried, raced>>

\* No event, no further line of the client, or the flag is not set.
NothingToDo ==
    /\ pc \notin flags
    /\ EndPhase
    /\ UNCHANGED <<server_status, fds, server_addresslist, flags, settings,
                   reconnect_delay, ghosts>>

-----------------------------------------------------------------------------
Network ==
    \/ ResolverSuccess \/ ResolverError \/ ResolverDeath
    \/ ServerCloses \/ ConnectSucceeds \/ ConnectFails
Timer == TickReconnect \/ TickMinute
Commands ==
    \/ ConnectCommand \/ ConnectRefused \/ ConnectNowCommand
    \/ DisconnectCommand \/ SetAutoreconnect
Flags ==
    \/ HandleServerQuit \/ ReconnectRefused \/ ScheduleReconnect
    \/ ResolveNotStarted \/ StartResolve
    \/ ConnectWithoutList \/ GiveUp \/ TryAddressFails \/ TryAddress
Next == Network \/ Timer \/ Commands \/ Flags \/ NothingToDo

Spec == Init /\ [][Next]_vars

\* The phases of a pass follow each other (a pass waits a second at most, and
\* a read() holds finitely many commands); a lookup and a connection attempt
\* have an outcome (timeouts of the resolver and of TCP); the clock goes on;
\* pipe() and fork() work again at some time.
Fairness ==
    /\ WF_vars(Network \/ Timer \/ Flags \/ NothingToDo)
    /\ SF_vars(ResolverSuccess \/ ResolverError \/ ResolverDeath)
    /\ SF_vars(ConnectSucceeds \/ ConnectFails)
    /\ SF_vars(TickReconnect)
    /\ SF_vars(StartResolve)

FairSpec == Spec /\ Fairness

-----------------------------------------------------------------------------
(* Properties.                                                             *)

ConnectionOK ==
    /\ pc \in Phase
    /\ server_status \in Status
    /\ server_resolver_fd \in BOOLEAN /\ server_connecting_fd \in BOOLEAN
    /\ server_fd \in BOOLEAN
    /\ server_addresslist \in {NULL} \union 0 .. MaxAddresses
    /\ flags \subseteq Flag
    /\ target \in BOOLEAN /\ autoreconnect \in BOOLEAN /\ reconnect_enabled \in BOOLEAN
    /\ reconnect_delay \in 0 .. MaxDelay

HistoryOK ==
    /\ orphaned \in BOOLEAN /\ attempt \in {"none", "user", "auto"}
    /\ stopped \in BOOLEAN /\ owed \in BOOLEAN /\ died \in BOOLEAN
    /\ hurried \in Nat /\ raced \in BOOLEAN

\* Every variable has the type its code gives it.
TypeOK == ConnectionOK /\ HistoryOK

\* server_status says which descriptor is open: the resolver's, the pending
\* socket (or the flag to try the next address), the connection, or none.
StatusMatchesFds ==
    /\ server_resolver_fd <=> server_status = "RESOLVING"
    /\ server_fd <=> server_status = "CONNECTED"
    /\ server_connecting_fd => server_status = "CONNECTING"
    /\ server_status = "CONNECTING" => server_connecting_fd \/ "SERVERCONNECT" \in flags

\* No socket is overwritten while it is open: mooproxy never keeps a
\* connection that it does not know of.
NoOrphans == ~orphaned

\* world_start_server_connect() always finds a list of addresses ("This
\* shouldn't happen", network.c).
ConnectHasList == "SERVERCONNECT" \in flags => server_addresslist # NULL

\* Status, descriptors, flags and address list agree, as long as no command
\* has come between a flag and its slot (resolve.c, network.c).
Agreement == ~raced => StatusMatchesFds /\ NoOrphans /\ ConnectHasList

\* What the settings help says of autoreconnect (config.c): an attempt that
\* the user made with /connect is not repeated when it fails.
NoRetryOfUserAttempt == server_status = "RECONNECTWAIT" => attempt # "user"

\* After a /disconnect that mooproxy says it obeyed ("Connection attempt
\* aborted.", "Disconnected from server.", "Canceled reconnect.") there is
\* neither a connection nor an attempt until the next /connect; an
\* established connection ends with the same pass.
DisconnectIsFinal ==
    stopped => \/ server_status = "DISCONNECTED"
               \/ server_status = "CONNECTED" /\ "SERVERQUIT" \in flags

\* A /disconnect is final, as long as no command has come between the flag
\* for a lookup or an attempt and its slot (network.c, command.c).
FinalWhenCalm == ~raced => DisconnectIsFinal

\* Two reconnects without delay are never made in a row, without the delay
\* having been lowered in between: no busy loop on a server that is down.
NoHurry == hurried <= 1

\* Every lookup that ends well is followed by attempts that come to an end,
\* as long as no command has come between a flag and its slot (network.c).
ListIsConsumed == server_addresslist # NULL ~> server_addresslist = NULL \/ raced

\* When a connection that autoreconnect applies to is lost or cannot be
\* established, mooproxy tries again, unless a command decides otherwise; but
\* not when the resolver slave ended without an answer (resolve.c:151), and
\* as long as no command has come between a flag and its slot.
Retried == owed ~> ~owed \/ died \/ raced

=============================================================================
