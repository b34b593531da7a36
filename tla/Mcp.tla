--------------------------------- MODULE Mcp ---------------------------------
(***************************************************************************)
(* MCP sessions across clients and servers that come and go (mcp.c).  The  *)
(* MOO server and the client speak MCP with each other; mooproxy passes    *)
(* their messages on, remembers the key of the session and the handshake   *)
(* of the server, and resets the session when one of the two is new.       *)
(*                                                                         *)
(* Three parties: mooproxy; the server; the client of the moment.  What    *)
(* the last two do is external: they follow MCP and the package            *)
(* dns-nl-icecrew-mcpreset, as README and mcpreset.html describe them.     *)
(* Between mooproxy and each of them is a connection, up or down, with a   *)
(* queue of messages for either direction.  A queue stands for the lines   *)
(* in mooproxy's queues and buffers and those on the network; what         *)
(* mooproxy reads it dispatches in the same pass of mainloop(), so reading *)
(* and handling a message is one step.                                     *)
(*                                                                         *)
(* Messages, by type: "mcp" is the handshake, without a key from the       *)
(* server and with the key of the new session from the client; "can" says  *)
(* that the sender knows the package; "reset" ends the session.  The end   *)
(* of the negotiation and other messages change nothing and are left out.  *)
(*                                                                         *)
(* Definitions named Slip... are what a slip in the code would make of the *)
(* definition that follows them; no specification uses them.               *)
(***************************************************************************)
EXTENDS Naturals, Sequences

CONSTANTS
    MaxConnects,   \* bound: connections to the server
    MaxClients,    \* bound: clients
    MaxResets,     \* bound: resets by a chained client
    NULL

ASSUME BoundsAssumption ==
    MaxConnects \in Nat /\ MaxClients \in Nat /\ MaxResets \in Nat
ASSUME NullAssumption == NULL \notin Nat

VARIABLES
    mcp_negotiated, mcp_key,
    mcp_initmsg,                  \* is there a handshake of the server?
    server_up, client_up,         \* server_fd # -1, client_fd # -1
    to_server, from_server, to_client, from_client,
    server_key, client_key,       \* the key of the session each of them has, or NULL
    server_knows, client_knows,   \* has it been told of the package in it?
    keys,                         \* keys that clients made; also the last one
    connects, clients, resets,    \* counted against the bounds
    inherited                     \* history: did a client get lines for another one?

mcp == <<mcp_negotiated, mcp_key, mcp_initmsg>>
serverside == <<server_up, to_server, from_server, server_key, server_knows>>
clientside == <<client_up, to_client, from_client, client_key, client_knows>>
counts == <<connects, clients, resets>>
vars == <<mcp, serverside, clientside, keys, counts, inherited>>

Key == Nat \union {NULL}
Message == [type : {"mcp", "can", "reset"}, key : Key]

Handshake == [type |-> "mcp", key |-> NULL]
Reply(key) == [type |-> "mcp", key |-> key]
Can(key) == [type |-> "can", key |-> key]      \* with mcp-negotiate-end or before it
Reset(key) == [type |-> "reset", key |-> key]

Beyond(queue, n) == SubSeq(queue, n + 1, Len(queue))

\* Lines for a peer that is not there are thrown away: those for the server
\* by world_flush_server_txbuf(), MCP lines for the client by mainloop().
Queued(queue, up, messages) == IF up THEN queue \o messages ELSE <<>>

Init ==
    /\ mcp_negotiated = FALSE /\ mcp_key = NULL /\ mcp_initmsg = FALSE
    /\ server_up = FALSE /\ client_up = FALSE
    /\ to_server = <<>> /\ from_server = <<>> /\ to_client = <<>> /\ from_client = <<>>
    /\ server_key = NULL /\ client_key = NULL
    /\ server_knows = FALSE /\ client_knows = FALSE
    /\ keys = 0 /\ connects = 0 /\ clients = 0 /\ resets = 0
    /\ inherited = FALSE

-----------------------------------------------------------------------------
(* Messages that mooproxy passes on.                                       *)

\* world_do_mcp_server()
SlipServerLine ==
    /\ server_up /\ from_server # <<>>
    /\ from_server' = Tail(from_server)
    /\ to_client' = Queued(to_client, client_up, <<Head(from_server)>>)
    /\ UNCHANGED <<mcp, server_up, to_server, server_key, server_knows, client_up,
                   from_client, client_key, client_knows, keys, counts, inherited>>
ServerLine ==
    /\ server_up /\ from_server # <<>>
    /\ from_server' = Tail(from_server)
    /\ to_client' = Queued(to_client, client_up, <<Head(from_server)>>)
    /\ mcp_initmsg' = (mcp_initmsg \/ Head(from_server).type = "mcp")
    /\ UNCHANGED <<mcp_negotiated, mcp_key, server_up, to_server, server_key, server_knows,
                   client_up, from_client, client_key, client_knows, keys, counts, inherited>>

\* The key that extract_mcpkey() finds in the client's "mcp" message.
KeyAfter(message) ==
    IF message.type = "mcp" /\ message.key # NULL THEN message.key ELSE mcp_key

\* world_do_mcp_client(), before and while a negotiated session.
ClientNegotiates(message) ==
    /\ ~mcp_negotiated
    /\ mcp_key' = KeyAfter(message)
    /\ \/ /\ message.type = "can" /\ mcp_key # NULL
          /\ mcp_negotiated' = TRUE
          /\ to_server' = Queued(to_server, server_up, <<message, Can(mcp_key)>>)
          /\ to_client' = Append(to_client, Can(mcp_key))
       \/ /\ ~(message.type = "can" /\ mcp_key # NULL)
          /\ to_server' = Queued(to_server, server_up, <<message>>)
          /\ UNCHANGED <<mcp_negotiated, to_client>>

ClientRelayed(message) ==
    /\ mcp_negotiated
    /\ to_server' = Queued(to_server, server_up, <<message>>)
    /\ UNCHANGED <<mcp_negotiated, mcp_key, to_client>>

ClientLine ==
    /\ client_up /\ from_client # <<>>
    /\ from_client' = Tail(from_client)
    /\ ClientNegotiates(Head(from_client)) \/ ClientRelayed(Head(from_client))
    /\ UNCHANGED <<mcp_initmsg, server_up, from_server, server_key, server_knows, client_up,
                   client_key, client_knows, keys, counts, inherited>>

-----------------------------------------------------------------------------
(* Connections.                                                            *)

Forget == mcp_negotiated' = FALSE /\ mcp_key' = NULL /\ mcp_initmsg' = FALSE

\* What a peer that is new to a session with a key must do first, as the old
\* peer did or would have done: world_mcp_server_connect() plays the server,
\* world_mcp_client_connect() the client.
SlipResetMessages == <<Reset(mcp_key)>>
ResetMessages ==
    IF mcp_negotiated THEN <<Reset(mcp_key)>> ELSE <<Can(mcp_key), Reset(mcp_key)>>

\* handle_connecting_fd() and world_mcp_server_connect(); the server greets.
SlipServerConnects ==
    /\ ~server_up /\ connects < MaxConnects
    /\ connects' = connects + 1
    /\ server_up' = TRUE /\ from_server' = <<Handshake>>
    /\ mcp_negotiated' = FALSE
    /\ UNCHANGED <<mcp_key, mcp_initmsg, to_server, server_key, server_knows, client_up,
                   from_client, to_client, client_key, client_knows, keys, clients, resets, inherited>>
ServerConnects ==
    /\ ~server_up /\ connects < MaxConnects
    /\ connects' = connects + 1
    /\ server_up' = TRUE /\ from_server' = <<Handshake>>
    /\ to_client' = IF mcp_key # NULL THEN Queued(to_client, client_up, ResetMessages)
                                      ELSE to_client
    /\ Forget
    /\ UNCHANGED <<to_server, server_key, server_knows, client_up, from_client, client_key,
                   client_knows, keys, clients, resets, inherited>>

\* world_disconnect_server(); what was queued for the server is thrown away
\* before there can be a new connection.
ServerLost ==
    /\ server_up
    /\ server_up' = FALSE
    /\ to_server' = <<>> /\ from_server' = <<>>
    /\ server_key' = NULL /\ server_knows' = FALSE
    /\ UNCHANGED <<mcp, clientside, keys, counts, inherited>>

\* promote_auth_connection() and world_mcp_client_connect(), for a client that
\* gets what is left of the queue for the client before it.
ClientConnects(left) ==
    /\ clients < MaxClients
    /\ clients' = clients + 1
    /\ client_up' = TRUE
    /\ from_client' = <<>> /\ client_key' = NULL /\ client_knows' = FALSE
    /\ \/ /\ server_up /\ mcp_key = NULL
          /\ to_client' = left \o (IF mcp_initmsg THEN <<Handshake>> ELSE <<>>)
          /\ UNCHANGED <<mcp, to_server>>
       \/ /\ server_up /\ mcp_key # NULL
          /\ to_client' = left
          /\ to_server' = to_server \o ResetMessages
          /\ Forget
       \/ /\ ~server_up
          /\ to_client' = left
          /\ UNCHANGED <<mcp, to_server>>
    /\ UNCHANGED <<server_up, from_server, server_key, server_knows, keys, connects, resets>>

NewClient == ~client_up /\ ClientConnects(<<>>) /\ UNCHANGED inherited

\* A client that another one takes over from: the lines in client_txqueue are
\* not thrown away when there is a new client in the next pass.
TakeOver ==
    /\ client_up
    /\ \E n \in 0 .. Len(to_client) :
          /\ ClientConnects(Beyond(to_client, n))
          /\ inherited' = (inherited \/ n < Len(to_client))

\* world_disconnect_client()
ClientLost ==
    /\ client_up
    /\ client_up' = FALSE
    /\ to_client' = <<>> /\ from_client' = <<>>
    /\ client_key' = NULL /\ client_knows' = FALSE
    /\ UNCHANGED <<mcp, serverside, keys, counts, inherited>>

-----------------------------------------------------------------------------
(* The server and the client.  Both ignore messages with another key than  *)
(* that of their session, and handshakes when they have one.               *)

ServerReads ==
    /\ server_up /\ to_server # <<>>
    /\ to_server' = Tail(to_server)
    /\ LET message == Head(to_server)
       IN \/ /\ message.type = "mcp" /\ server_key = NULL
             /\ server_key' = message.key /\ server_knows' = FALSE
             /\ UNCHANGED from_server
          \/ /\ message.type = "can" /\ message.key = server_key
             /\ server_knows' = TRUE
             /\ UNCHANGED <<server_key, from_server>>
          \/ /\ message.type = "reset" /\ message.key = server_key /\ server_knows
             /\ server_key' = NULL /\ server_knows' = FALSE
             /\ from_server' = Append(from_server, Handshake)
          \/ /\ IF message.type = "mcp" THEN server_key # NULL
                ELSE message.key # server_key \/ (message.type = "reset" /\ ~server_knows)
             /\ UNCHANGED <<server_key, server_knows, from_server>>
    /\ UNCHANGED <<mcp, server_up, clientside, keys, counts, inherited>>

ClientReads ==
    /\ client_up /\ to_client # <<>>
    /\ to_client' = Tail(to_client)
    /\ LET message == Head(to_client)
       IN \/ /\ message.type = "mcp" /\ client_key = NULL
             /\ keys' = keys + 1
             /\ client_key' = keys' /\ client_knows' = FALSE
             /\ from_client' = from_client \o <<Reply(keys'), Can(keys')>>
          \/ /\ message.type = "can" /\ message.key = client_key
             /\ client_knows' = TRUE
             /\ UNCHANGED <<keys, client_key, from_client>>
          \/ /\ message.type = "reset" /\ message.key = client_key /\ client_knows
             /\ client_key' = NULL /\ client_knows' = FALSE
             /\ UNCHANGED <<keys, from_client>>
          \/ /\ IF message.type = "mcp" THEN client_key # NULL
                ELSE message.key # client_key \/ (message.type = "reset" /\ ~client_knows)
             /\ UNCHANGED <<keys, client_key, client_knows, from_client>>
    /\ UNCHANGED <<mcp, serverside, client_up, counts, inherited>>

-----------------------------------------------------------------------------
Relay == ServerLine \/ ClientLine
Connections == ServerConnects \/ ServerLost \/ NewClient \/ TakeOver \/ ClientLost
Peers == ServerReads \/ ClientReads

Next == Relay \/ Connections \/ Peers

Spec == Init /\ [][Next]_vars

\* What is queued is sent and read; connections come and go as they like.
FairSpec ==
    /\ Spec
    /\ WF_vars(ServerLine) /\ WF_vars(ClientLine)
    /\ WF_vars(ServerReads) /\ WF_vars(ClientReads)

-----------------------------------------------------------------------------
(* A chain of proxies: the client of this one is another mooproxy.         *)

\* It plays the client when it gets a new client of its own, and resets the
\* session itself (world_mcp_client_connect()).
ClientResets ==
    /\ client_up /\ client_key # NULL /\ client_knows
    /\ resets < MaxResets
    /\ resets' = resets + 1
    /\ from_client' = Append(from_client, Reset(client_key))
    /\ client_key' = NULL /\ client_knows' = FALSE
    /\ UNCHANGED <<mcp, serverside, client_up, to_client, keys, connects, clients,
                   inherited>>

ChainedSpec == Init /\ [][Next \/ ClientResets]_vars

-----------------------------------------------------------------------------
(* Properties.                                                             *)

\* Every variable has its type, and nothing is kept for a peer that is not there.
TypeOK ==
    /\ mcp_negotiated \in BOOLEAN /\ mcp_key \in Key /\ mcp_initmsg \in BOOLEAN
    /\ server_up \in BOOLEAN /\ client_up \in BOOLEAN
    /\ to_server \in Seq(Message) /\ from_server \in Seq(Message)
    /\ to_client \in Seq(Message) /\ from_client \in Seq(Message)
    /\ server_key \in Key /\ client_key \in Key
    /\ server_knows \in BOOLEAN /\ client_knows \in BOOLEAN
    /\ keys \in Nat /\ connects \in 0 .. MaxConnects /\ clients \in 0 .. MaxClients
    /\ resets \in 0 .. MaxResets /\ inherited \in BOOLEAN
    /\ ~server_up => to_server = <<>> /\ from_server = <<>>
    /\ ~client_up => to_client = <<>> /\ from_client = <<>>

\* mooproxy never is in the state that BUGS tells of, "no known mcp key, no
\* initmsg", with a server from which no handshake is to come.  It then has
\* nothing to offer the next client, for as long as the server stays.
NeverStuck ==
    server_up /\ to_server = <<>> /\ from_server = <<>> =>
        mcp_key # NULL \/ mcp_initmsg

\* When the server has read everything, the key that mooproxy would reset the
\* session with is that of the server's session.
KeyIsServers ==
    server_up /\ to_server = <<>> /\ mcp_key # NULL => mcp_key = server_key

\* A client that stays gets a session with a server that stays, whatever clients
\* and connections came before (README, MCP), unless it was sent lines for an
\* older one (Promote of LineFlow keeps the queue of the client before).
Agreed == client_key # NULL /\ client_key = server_key /\ mcp_key = client_key
SessionSetUp == <>[](client_up /\ server_up /\ ~inherited) => <>[]Agreed
=============================================================================
