------------------------------ MODULE AuthSlots ------------------------------
(***************************************************************************)
(* Connections that authenticate (network.c): the slots they wait in, the  *)
(* token bucket that limits how many attempts are checked, the addresses   *)
(* that are privileged because they authenticated before, and the step     *)
(* from a slot to the client.                                              *)
(*                                                                         *)
(* The slots are the first auth_connections entries of six parallel        *)
(* arrays, oldest first.  Five of them are the sequence slots; auth_buf is *)
(* the sequence bufs of all buffers, also of those that are free, which    *)
(* are handed on when a slot is removed.  What a peer sends before a       *)
(* newline is one of Strings; too much without a newline is as good as one *)
(* that does not match.  auth_hash is never NULL (mooproxy.c refuses to    *)
(* start without), so it stands for the string it is the hash of.          *)
(*                                                                         *)
(* A pass of mainloop() has these phases, held in pc: the loop over the    *)
(* slots at the start of wait_for_network(); after select() the client,    *)
(* the listening sockets and the slots from last to first (slot next);     *)
(* the timer; the commands of the client; handle_flags().                  *)
(*                                                                         *)
(* Definitions named Slip... are what a slip in the code would make of the *)
(* definition that follows them; no specification uses them.               *)
(***************************************************************************)
EXTENDS Integers, Sequences, FiniteSets

CONSTANTS
    Strings,       \* what peers send, and what auth_hash may be a hash of
    ConfigHash,    \* the auth_hash of the configuration file
    Addresses,     \* where they connect from
    MaxAuthConn,   \* NET_MAXAUTHCONN
    PrivRes,       \* NET_AUTH_PRIVRES
    MaxPrivAddrs,  \* NET_MAX_PRIVADDRS
    BucketSize,    \* NET_AUTH_BUCKETSIZE
    TokensPerSec,  \* NET_AUTH_TOKENSPERSEC
    MaxConns,      \* bound: connections that are accepted
    MaxSeconds,    \* bound: length of the periods in which attempts are counted
    MaxChanges     \* bound: changes of auth_hash

ASSUME SlotsAssumption ==
    MaxAuthConn \in Nat \ {0} /\ PrivRes \in 0 .. MaxAuthConn - 1
ASSUME BucketAssumption ==
    BucketSize \in Nat \ {0} /\ TokensPerSec \in Nat \ {0} /\ MaxPrivAddrs \in Nat \ {0}
ASSUME BoundsAssumption ==
    MaxConns \in Nat /\ MaxSeconds \in Nat /\ MaxChanges \in Nat

NULL == "none"
ASSUME StringsAssumption == NULL \notin Strings /\ ConfigHash \in Strings

VARIABLES
    pc,
    next,          \* the slot that handle_auth_fd() comes to next
    slots,         \* auth_fd, auth_address, auth_status, auth_ispriv; sent is what
                   \* the peer really sent, for the properties only
    bufs,          \* auth_buf: buffers, by slot
    memory,        \* what is in each buffer
    bucket,        \* auth_tokenbucket
    privaddrs,     \* auth_privaddrs, least recently used first
    auth_hash, auth_literal,
    client,        \* is there a client?
    quit,          \* WLD_CLIENTQUIT
    \* History variables, and counts against the bounds:
    conns,         \* connections accepted; also the name of the last
    changes,
    seconds,       \* seconds of the current period
    spent,         \* attempts without privilege that were checked in it
    misjudged      \* was a verdict not that of the string the peer sent?

bounds == <<conns, changes>>
vars == <<pc, next, slots, bufs, memory, bucket, privaddrs, auth_hash, auth_literal, client,
          quit, bounds, seconds, spent, misjudged>>

Slot == 1 .. MaxAuthConn
Conn == 1 .. MaxConns

Init ==
    /\ pc = "slots" /\ next = 0
    /\ slots = <<>>
    /\ bufs = [i \in Slot |-> i]
    /\ memory = [b \in Slot |-> NULL]
    /\ bucket = BucketSize
    /\ privaddrs = <<>>
    /\ auth_hash = ConfigHash /\ auth_literal = NULL
    /\ client = FALSE /\ quit = FALSE
    /\ conns = 0
    /\ seconds = 0 /\ changes = 0 /\ spent = 0 /\ misjudged = FALSE

-----------------------------------------------------------------------------
(* Slots and privileged addresses.                                         *)

\* A sequence without its i-th element.
Without(seq, i) ==
    [k \in 1 .. Len(seq) - 1 |-> IF k < i THEN seq[k] ELSE seq[k + 1]]

\* remove_auth_connection(): the later slots move up, their buffers with them,
\* and the buffer of the slot that goes becomes that of the slot left free.
SlipMoveBuffers(wa) == bufs
MoveBuffers(wa) ==
    [k \in Slot |-> IF k < wa \/ k > Len(slots) THEN bufs[k]
                    ELSE IF k < Len(slots) THEN bufs[k + 1] ELSE bufs[wa]]

RemoveSlot(wa) ==
    /\ slots' = Without(slots, wa)
    /\ bufs' = MoveBuffers(wa)

Privileged(addr) == \E i \in DOMAIN privaddrs : privaddrs[i] = addr

\* privileged_del()
Unprivileged(addr) ==
    IF Privileged(addr)
    THEN Without(privaddrs, CHOOSE i \in DOMAIN privaddrs : privaddrs[i] = addr)
    ELSE privaddrs

\* privileged_add()
NowPrivileged(addr) ==
    LET others == Unprivileged(addr)
    IN Append(IF Len(others) >= MaxPrivAddrs THEN Tail(others) ELSE others, addr)

-----------------------------------------------------------------------------
(* The start of wait_for_network(): the first slot that can move on.       *)

\* Within the limit on attempts.
MayCheck(i) == bucket > 0 \/ slots[i].ispriv

CanMove(i) ==
    \/ slots[i].status = "CORRECT"
    \/ slots[i].status = "VERIFY" /\ MayCheck(i)
FirstToMove(i) == CanMove(i) /\ \A j \in 1 .. i - 1 : ~CanMove(j)

SlipTokenFor(i) == IF slots[i].ispriv THEN 1 ELSE 0
TokenFor(i) == IF bucket > 0 THEN 1 ELSE 0

\* world_match_authentication()
Matches(string) ==
    IF auth_literal # NULL THEN string = auth_literal ELSE string = auth_hash

\* verify_authentication(), for the string in the buffer of slot i.
Verify(i) ==
    LET string == memory[bufs[i]]
    IN /\ pc = "slots" /\ FirstToMove(i) /\ slots[i].status = "VERIFY"
       /\ bucket' = bucket - TokenFor(i)
       /\ IF Matches(string)
          THEN /\ auth_literal' = string
               /\ slots' = [slots EXCEPT ![i].status = "CORRECT"]
               /\ quit' = (quit \/ client)
               /\ UNCHANGED <<bufs, privaddrs>>
          ELSE /\ privaddrs' = IF slots[i].ispriv THEN Unprivileged(slots[i].addr)
                                                  ELSE privaddrs
               /\ RemoveSlot(i)
               /\ UNCHANGED <<auth_literal, quit>>
       /\ spent' = IF slots[i].ispriv THEN spent ELSE spent + 1
       /\ misjudged' = (misjudged \/ Matches(string) # (slots[i].sent = auth_hash))
       /\ pc' = "timer"
       /\ UNCHANGED <<next, memory, auth_hash, client, bounds, seconds>>

\* promote_auth_connection(): the slot becomes the client, unless there still
\* is one.
SlipPromoteRefused(i) ==
    /\ pc = "slots" /\ FirstToMove(i) /\ slots[i].status = "CORRECT" /\ client
    /\ pc' = "timer"
    /\ UNCHANGED <<next, slots, bufs, memory, bucket, privaddrs, auth_hash, auth_literal,
                   client, quit, bounds, seconds, spent, misjudged>>
PromoteRefused(i) ==
    /\ pc = "slots" /\ FirstToMove(i) /\ slots[i].status = "CORRECT" /\ client
    /\ quit' = TRUE
    /\ pc' = "timer"
    /\ UNCHANGED <<next, slots, bufs, memory, bucket, privaddrs, auth_hash, auth_literal,
                   client, bounds, seconds, spent, misjudged>>

Promote(i) ==
    /\ pc = "slots" /\ FirstToMove(i) /\ slots[i].status = "CORRECT" /\ ~client
    /\ client' = TRUE
    /\ privaddrs' = NowPrivileged(slots[i].addr)
    /\ RemoveSlot(i)
    /\ pc' = "timer"
    /\ UNCHANGED <<next, memory, bucket, auth_hash, auth_literal, quit, bounds, seconds, spent,
                   misjudged>>

\* Nothing to move: select(), or not even that when lines are queued.
SlipIdle == \A i \in DOMAIN slots : ~(slots[i].status = "VERIFY" /\ MayCheck(i))
Idle == \A i \in DOMAIN slots : ~CanMove(i)

Select ==
    /\ pc = "slots" /\ Idle
    /\ pc' \in {"client", "timer"}
    /\ UNCHANGED <<next, slots, bufs, memory, bucket, privaddrs, auth_hash, auth_literal,
                   client, quit, bounds, seconds, spent, misjudged>>

-----------------------------------------------------------------------------
(* The end of wait_for_network(): descriptors that select() found ready.   *)

\* handle_client_fd(): the client has gone, or not.
HandleClient ==
    /\ pc = "client"
    /\ client' \in {client, FALSE}
    /\ pc' = "listen"
    /\ UNCHANGED <<next, slots, bufs, memory, bucket, privaddrs, auth_hash, auth_literal,
                   quit, bounds, seconds, spent, misjudged>>

PrivCount == Cardinality({i \in DOMAIN slots : slots[i].ispriv})

\* The slot a new connection takes when all are in use: the oldest, or the
\* oldest that is not privileged when few are.
SlipKicked == 1
Kicked ==
    IF PrivCount > PrivRes THEN 1
    ELSE CHOOSE i \in Slot : ~slots[i].ispriv /\ \A j \in 1 .. i - 1 : slots[j].ispriv

\* handle_listen_fd(): a slot is made free if need be, and its buffer cleared.
Accept ==
    \E addr \in Addresses :
        LET full == Len(slots) = MaxAuthConn
            kept == IF full THEN Without(slots, Kicked) ELSE slots
            moved == IF full THEN MoveBuffers(Kicked) ELSE bufs
        IN /\ pc = "listen" /\ conns < MaxConns
           /\ conns' = conns + 1
           /\ slots' = Append(kept, [conn |-> conns + 1, addr |-> addr, status |-> "WAITNET",
                                     ispriv |-> Privileged(addr), sent |-> NULL])
           /\ bufs' = moved
           /\ memory' = [memory EXCEPT ![moved[Len(kept) + 1]] = NULL]
           /\ UNCHANGED <<pc, next, bucket, privaddrs, auth_hash, auth_literal, client, quit,
                          seconds, changes, spent, misjudged>>

\* No more connections: handle_auth_fd() is next, from the last slot down.
ListenDone ==
    /\ pc = "listen"
    /\ pc' = "auth"
    /\ next' = Len(slots)
    /\ UNCHANGED <<slots, bufs, memory, bucket, privaddrs, auth_hash, auth_literal, client,
                   quit, bounds, seconds, spent, misjudged>>

\* handle_auth_fd(): nothing or not enough arrived, or it is not waited for.
AuthWaits ==
    /\ pc = "auth" /\ next > 0
    /\ next' = next - 1
    /\ UNCHANGED <<pc, slots, bufs, memory, bucket, privaddrs, auth_hash, auth_literal, client,
                   quit, bounds, seconds, spent, misjudged>>

\* A newline arrived, or as much as is read at most.
AuthComplete ==
    /\ pc = "auth" /\ next > 0 /\ slots[next].status = "WAITNET"
    /\ \E string \in Strings :
          /\ memory' = [memory EXCEPT ![bufs[next]] = string]
          /\ slots' = [slots EXCEPT ![next].status = "VERIFY", ![next].sent = string]
    /\ next' = next - 1
    /\ UNCHANGED <<pc, bufs, bucket, privaddrs, auth_hash, auth_literal, client, quit,
                   conns, seconds, changes, spent, misjudged>>

\* The peer has gone.
AuthClosed ==
    /\ pc = "auth" /\ next > 0 /\ slots[next].status = "WAITNET"
    /\ RemoveSlot(next)
    /\ next' = next - 1
    /\ UNCHANGED <<pc, memory, bucket, privaddrs, auth_hash, auth_literal, client, quit,
                   bounds, seconds, spent, misjudged>>

AuthDone ==
    /\ pc = "auth" /\ next = 0
    /\ pc' = "timer"
    /\ UNCHANGED <<next, slots, bufs, memory, bucket, privaddrs, auth_hash, auth_literal,
                   client, quit, bounds, seconds, spent, misjudged>>

-----------------------------------------------------------------------------
(* The rest of the pass.                                                   *)

\* world_auth_add_bucket()
Refilled == IF bucket + TokensPerSec > BucketSize THEN BucketSize ELSE bucket + TokensPerSec

\* tick_second(); a period that is over is followed by the next.
Tick ==
    /\ pc = "timer"
    /\ bucket' = Refilled
    /\ IF seconds < MaxSeconds
       THEN seconds' = seconds + 1 /\ UNCHANGED spent
       ELSE seconds' = 0 /\ spent' = 0
    /\ pc' = "commands"
    /\ UNCHANGED <<next, slots, bufs, memory, privaddrs, auth_hash, auth_literal, client, quit,
                   bounds, misjudged>>

\* Less than a second has gone by.
NoTick ==
    /\ pc = "timer"
    /\ pc' = "commands"
    /\ UNCHANGED <<next, slots, bufs, memory, bucket, privaddrs, auth_hash, auth_literal,
                   client, quit, bounds, seconds, spent, misjudged>>

\* aset_auth_hash()
SlipSetAuthHash ==
    /\ pc = "commands" /\ changes < MaxChanges
    /\ changes' = changes + 1
    /\ auth_hash' \in Strings
    /\ UNCHANGED <<pc, next, slots, bufs, memory, bucket, privaddrs, auth_literal, client,
                   quit, conns, seconds, spent, misjudged>>
SetAuthHash ==
    /\ pc = "commands" /\ changes < MaxChanges
    /\ changes' = changes + 1
    /\ auth_hash' \in Strings
    /\ auth_literal' = NULL
    /\ UNCHANGED <<pc, next, slots, bufs, memory, bucket, privaddrs, client, quit,
                   conns, seconds, spent, misjudged>>

\* The other commands, of which /quit matters here; then handle_flags().
EndPass ==
    /\ pc = "commands"
    /\ \E leave \in BOOLEAN : client' = (client /\ ~quit /\ ~leave)
    /\ quit' = FALSE
    /\ pc' = "slots"
    /\ UNCHANGED <<next, slots, bufs, memory, bucket, privaddrs, auth_hash, auth_literal,
                   bounds, seconds, spent, misjudged>>

-----------------------------------------------------------------------------
CheckSlots == \E i \in DOMAIN slots : Verify(i) \/ PromoteRefused(i) \/ Promote(i)
Poll ==
    \/ HandleClient \/ Accept \/ ListenDone
    \/ AuthWaits \/ AuthComplete \/ AuthClosed \/ AuthDone
Rest == Tick \/ NoTick \/ SetAuthHash \/ EndPass
Next == CheckSlots \/ Select \/ Poll \/ Rest

Spec == Init /\ [][Next]_vars

\* The process runs: select() returns within a second, the phases are
\* straight-line code, and seconds go by.  Connections and their data come
\* when they like.
LoopRuns ==
    /\ WF_vars(CheckSlots \/ Select \/ HandleClient \/ ListenDone \/ AuthWaits \/ AuthDone
               \/ NoTick \/ EndPass)
    /\ SF_vars(Tick)

FairSpec == Spec /\ LoopRuns

-----------------------------------------------------------------------------
(* Properties.                                                             *)

Connection == [conn : Conn, addr : Addresses, status : {"WAITNET", "VERIFY", "CORRECT"},
               ispriv : BOOLEAN, sent : Strings \union {NULL}]

\* Every variable has the type its code gives it; slots, bucket and list of
\* addresses keep their sizes (network.c, world.h).
TypeOK ==
    /\ pc \in {"slots", "client", "listen", "auth", "timer", "commands"}
    /\ next \in 0 .. MaxAuthConn
    /\ slots \in Seq(Connection) /\ Len(slots) <= MaxAuthConn
    /\ bufs \in [Slot -> Slot]
    /\ memory \in [Slot -> Strings \union {NULL}]
    /\ bucket \in 0 .. BucketSize
    /\ privaddrs \in Seq(Addresses) /\ Len(privaddrs) <= MaxPrivAddrs
    /\ auth_hash \in Strings /\ auth_literal \in Strings \union {NULL}
    /\ client \in BOOLEAN /\ quit \in BOOLEAN
    /\ conns \in 0 .. MaxConns
    /\ changes \in 0 .. MaxChanges /\ seconds \in 0 .. MaxSeconds /\ spent \in Nat
    /\ misjudged \in BOOLEAN

\* Every slot has a buffer of its own, which holds what its own peer sent,
\* however many slots were removed before it (remove_auth_connection()).
OwnBuffer ==
    /\ \A i, j \in Slot : i # j => bufs[i] # bufs[j]
    /\ \A i \in DOMAIN slots :
          slots[i].status # "CORRECT" => memory[bufs[i]] = slots[i].sent

\* A peer is accepted exactly when what it sent matches the hash of the
\* moment, also after auth_hash was changed (the literal string kept in
\* auth_literal is never that of another hash).
NoMisjudgement == ~misjudged

\* In a period of some seconds no more attempts without privilege are checked
\* than the bucket held and has been given.
RateLimited == spent <= BucketSize + TokensPerSec * seconds

\* A connection that authenticated leaves its slot only to become the client:
\* it is never the one that has to go for a new connection.
CorrectIsPromoted ==
    [][\A i \in DOMAIN slots : slots[i].status = "CORRECT" =>
          \/ ~client /\ client'
          \/ \E j \in DOMAIN slots' : slots'[j].conn = slots[i].conn]_vars

\* New connections do not push privileged ones out of the slots reserved for
\* them (NET_AUTH_PRIVRES, global.h).
ReservedSlots ==
    [][conns' # conns /\ PrivCount' < PrivCount => PrivCount' >= PrivRes]_vars

\* Every connection that has sent its string leaves its slot: it is refused,
\* becomes the client, or has to go for a new connection.
Answered ==
    \A c \in Conn :
        (\E i \in DOMAIN slots : slots[i].conn = c /\ slots[i].status = "VERIFY")
            ~> (\A i \in DOMAIN slots : slots[i].conn # c)
=============================================================================
