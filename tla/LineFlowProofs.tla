--------------------------- MODULE LineFlowProofs ---------------------------
(***************************************************************************)
(* Proofs about LineFlow, for every size of the buffers, every number of   *)
(* sessions and lines, and every way in which reads group the lines.       *)
(***************************************************************************)
EXTENDS LineFlow, SequenceTheorems, FiniteSetTheorems, TLAPS

USE BoundsAssumption, BufferAssumption, BatchAssumption

-----------------------------------------------------------------------------
(* Lemmas about sequences and about the helpers of LineFlow.               *)

\* A function on 1 .. n is a sequence.
LEMMA FunctionIsSeq ==
    ASSUME NEW S, NEW n \in Nat, NEW f \in [1 .. n -> S]
    PROVE  f \in Seq(S) /\ Len(f) = n
  BY SeqDef

LEMMA FrontOfSeq ==
    ASSUME NEW S, NEW q \in Seq(S), NEW n \in 0 .. Len(q)
    PROVE  Front(q, n) \in Seq(S) /\ Len(Front(q, n)) = n
<1>1. \A i \in 1 .. n : q[i] \in S
  BY LenProperties, ElementOfSeq
<1>2. QED
  BY <1>1, SubSeqProperties, LenProperties DEF Front

LEMMA BeyondOfSeq ==
    ASSUME NEW S, NEW q \in Seq(S), NEW n \in 0 .. Len(q)
    PROVE  Beyond(q, n) \in Seq(S) /\ Len(Beyond(q, n)) = Len(q) - n
<1>1. n \in Nat /\ Len(q) \in Nat /\ n <= Len(q)
  BY LenProperties
<1>2. \A i \in n + 1 .. Len(q) : q[i] \in S
  BY <1>1, ElementOfSeq
<1>3. /\ SubSeq(q, n + 1, Len(q)) \in Seq(S)
      /\ Len(SubSeq(q, n + 1, Len(q))) = IF n + 1 <= Len(q) THEN Len(q) - (n + 1) + 1 ELSE 0
  BY <1>1, <1>2, SubSeqProperties
<1>4. QED
  BY <1>1, <1>3 DEF Beyond

\* The trim never takes more lines than there are, and takes all of a queue
\* or enough to come down to the limit.
LEMMA ExcessBounds ==
    ASSUME NEW S, NEW q \in Seq(S), NEW total \in Nat
    PROVE  /\ Excess(total, q) \in 0 .. Len(q)
           /\ total - Excess(total, q) <= BufferSize \/ Excess(total, q) = Len(q)
<1>1. Len(q) \in Nat
  BY LenProperties
<1>2. QED
  BY <1>1 DEF Excess, Least

LEMMA LastOfSeq ==
    ASSUME NEW S, NEW q \in Seq(S), NEW n \in Nat
    PROVE  /\ Len(q) - Least(n, Len(q)) \in 0 .. Len(q)
           /\ Last(q, n) \in Seq(S)
<1>1. Len(q) - Least(n, Len(q)) \in 0 .. Len(q)
  BY LenProperties DEF Least
<1>2. QED
  BY <1>1, BeyondOfSeq DEF Last

LEMMA ChosenOfSeq ==
    ASSUME NEW S, NEW q \in Seq(S), NEW r \in Chosen(q)
    PROVE  r \in Seq(S)
<1>1. PICK at \in UNION {[1 .. n -> DOMAIN q] : n \in 0 .. Len(q)} :
         r = [i \in DOMAIN at |-> q[at[i]]]
  BY DEF Chosen
<1>2. PICK n \in 0 .. Len(q) : at \in [1 .. n -> DOMAIN q]
  BY <1>1
<1>3. n \in Nat /\ DOMAIN at = 1 .. n /\ \A i \in 1 .. n : q[at[i]] \in S
  BY <1>2, LenProperties, ElementOfSeq
<1>4. r \in [1 .. n -> S]
  BY <1>1, <1>3
<1>5. QED
  BY <1>3, <1>4, FunctionIsSeq

\* Copies of lines of S are lines of T.
LEMMA CopiesOfSeq ==
    ASSUME NEW S, NEW T, NEW kind, NEW q \in Seq(S),
           \A line \in S : [line EXCEPT !.kind = kind] \in T
    PROVE  Copies(q, kind) \in Seq(T)
<1>1. Len(q) \in Nat /\ DOMAIN q = 1 .. Len(q) /\ \A i \in 1 .. Len(q) : q[i] \in S
  BY LenProperties, ElementOfSeq
<1>2. \A i \in 1 .. Len(q) : [q[i] EXCEPT !.kind = kind] \in T
  BY <1>1
<1>3. QED
  BY <1>1, <1>2, FunctionIsSeq DEF Copies

LEMMA CopyOfLine ==
    ASSUME NEW line \in Line, NEW kind \in Kind
    PROVE  /\ [line EXCEPT !.kind = kind] \in Line
           /\ [line EXCEPT !.kind = kind].id = line.id
           /\ [line EXCEPT !.kind = kind].kind = kind
  BY DEF Line

LEMMA IdsAreNumbers ==
    ASSUME NEW q \in Seq(Line)
    PROVE  Ids(q) \subseteq Nat /\ OriginalIds(q) \subseteq Nat
<1>1. \A i \in DOMAIN q : q[i] \in Line
  BY LenProperties, ElementOfSeq
<1>2. QED
  BY <1>1 DEF Ids, OriginalIds, Line

LEMMA MessageIsLine == Message \in Line
  BY DEF Message, Line, Kind

LEMMA CheckpointIsLine == Checkpoint \in Line
  BY DEF Checkpoint, Line, Kind

LEMMA McpLineIsLine == McpLine \in Line
  BY DEF McpLine, Line, Kind, ServerKind

LEMMA OnTheWayAreNumbers ==
    ASSUME QueuesOK
    PROVE  OnTheWay \subseteq Nat
<1>1. Ids(inactive_lines) \subseteq Nat
  BY IdsAreNumbers DEF QueuesOK
<1>2. QED
  BY <1>1 DEF OnTheWay

\* world_inactive_to_history() moves the lines, as many as there are.
LEMMA InactiveToHistoryStep ==
    ASSUME QueuesOK, InactiveToHistory
    PROVE  /\ history_lines' \in Seq(Line) /\ inactive_lines' = <<>>
           /\ Len(history_lines') = Len(history_lines) + Len(inactive_lines)
           /\ inactive_lines' \in Seq(Line)
           /\ early' = early \union OnTheWay
  BY ConcatProperties, EmptySeq DEF QueuesOK, InactiveToHistory

LEMMA Regroup ==
    ASSUME NEW q \in Seq(Line), NEW r \in Seq(Line), NEW s \in Seq(Line)
    PROVE  (q \o r) \o s = q \o (r \o s) /\ (q \o r) \o s \in Seq(Line)
<1>1. (q \o r) \o s = q \o (r \o s)
  BY ConcatAssociative
<1>2. QED
  BY <1>1, ConcatProperties

\* What a command sends to the client: messages, copies of lines that are or
\* become history, and what mcp.c makes.
LEMMA CommandAdds ==
    ASSUME NEW S, NEW T, DispatchClient,
           client_toqueue \in Seq(Line),
           history_lines \in Seq(S) /\ inactive_lines \in Seq(S),
           Message \in T /\ McpLine \in T /\ T \subseteq Line,
           \A line \in S : /\ [line EXCEPT !.kind = "found"] \in T
                           /\ [line EXCEPT !.kind = "redrawn"] \in T
    PROVE  \E r \in Seq(T) : client_toqueue' = client_toqueue \o r
<1>t. \A r \in Seq(T) : r \in Seq(Line)
  BY SeqMonotonic
<1>1. \A line \in T : /\ <<line>> \in Seq(T)
                      /\ Append(client_toqueue, line) = client_toqueue \o <<line>>
  BY AppendIsConcat
<1>2. <<>> \in Seq(T) /\ client_toqueue = client_toqueue \o <<>>
  BY EmptySeq, ConcatEmptySeq
<1>3. \A r \in Seq(T) : client_toqueue \o r \in Seq(Line)
  BY <1>t, ConcatProperties
<1>4. \A q, r \in Seq(T) : q \o r \in Seq(T)
  BY ConcatProperties
<1>5. \A q, r \in Seq(T) : client_toqueue \o q \o r = client_toqueue \o (q \o r)
  <2> TAKE q, r \in Seq(T)
  <2>1. client_toqueue \in Seq(Line) /\ q \in Seq(Line) /\ r \in Seq(Line)
    BY <1>t
  <2>2. QED
    BY <2>1, Regroup
<1>h. InactiveToHistory => history_lines' \in Seq(S)
  BY ConcatProperties DEF InactiveToHistory
<1>c. ASSUME NEW q \in Seq(S)
      PROVE  Copies(q, "found") \in Seq(T) /\ Copies(q, "redrawn") \in Seq(T)
  <2>1. Copies(q, "found") \in Seq(T)
    BY CopiesOfSeq
  <2>2. Copies(q, "redrawn") \in Seq(T)
    BY CopiesOfSeq
  <2>3. QED
    BY <2>1, <2>2
<1>6. CASE ClientText
  BY <1>2, <1>6 DEF ClientText
<1>7. CASE ClientQuit \/ ClientForget
  BY <1>1, <1>7 DEF ClientQuit, ClientForget
<1>8. CASE ClientMcp
  BY <1>1, <1>2, <1>8 DEF ClientMcp
<1>m. <<Message>> \in Seq(T)
  BY <1>1
<1>9. CASE ClientRecall
  <2>1. CASE client_toqueue' = Append(client_toqueue, Message)
    BY <1>1, <2>1
  <2>2. ASSUME InactiveToHistory, NEW found \in Chosen(history_lines'),
               client_toqueue' = client_toqueue \o <<Message>> \o Copies(found, "found")
        PROVE  \E r \in Seq(T) : client_toqueue' = client_toqueue \o r
    <3>1. Copies(found, "found") \in Seq(T)
      BY <1>h, <1>c, <2>2, ChosenOfSeq
    <3>2. QED
      BY <1>4, <1>5, <1>m, <2>2, <3>1
  <2>3. ASSUME InactiveToHistory, NEW count \in 1 .. Len(history_lines'),
               client_toqueue' = client_toqueue \o <<Message>>
                                    \o Copies(Last(history_lines', count), "redrawn")
        PROVE  \E r \in Seq(T) : client_toqueue' = client_toqueue \o r
    <3>1. Copies(Last(history_lines', count), "redrawn") \in Seq(T)
      <4>1. count \in Nat /\ history_lines' \in Seq(S)
        BY <1>h, <2>3, LenProperties
      <4>2. QED
        BY <1>c, <4>1, LastOfSeq
    <3>2. QED
      BY <1>4, <1>5, <1>m, <2>3, <3>1
  <2>4. QED
    BY <1>9, <2>1, <2>2, <2>3 DEF ClientRecall
<1>10. CASE ClientAce
  <2>1. CASE client_toqueue' = Append(client_toqueue, Message)
    BY <1>1, <2>1
  <2>2. CASE /\ InactiveToHistory
             /\ client_toqueue' = client_toqueue \o Copies(Last(history_lines', AceLines), "redrawn")
                                     \o <<Message>>
    <3>1. Copies(Last(history_lines', AceLines), "redrawn") \in Seq(T)
      BY <1>c, <1>h, <2>2, LastOfSeq
    <3>2. QED
      BY <1>4, <1>5, <1>m, <2>2, <3>1
  <2>3. QED
    BY <1>10, <2>1, <2>2 DEF ClientAce
<1>11. QED
  BY <1>6, <1>7, <1>8, <1>9, <1>10 DEF DispatchClient

\* What a command does to the lines that are kept.
LEMMA CommandKeeps ==
    ASSUME DispatchClient
    PROVE  /\ UNCHANGED <<buffered_lines, server_rxqueue, client_txqueue, client_txbuffer,
                          client_status, pc, arrived, regular, leftover, shown, newest,
                          delivered, dropped>>
           /\ \/ UNCHANGED <<inactive_lines, history_lines, early, expired>>
              \/ InactiveToHistory /\ UNCHANGED expired
              \/ /\ inactive_lines' = <<>> /\ history_lines' = <<>>
                 /\ early' = early \union OnTheWay
                 /\ expired' = expired \union Ids(history_lines) \union Ids(inactive_lines)
  BY DEF DispatchClient, ClientText, ClientQuit, ClientMcp, ClientRecall, ClientAce, ClientForget, auth

-----------------------------------------------------------------------------
(* Every variable has its type.                                            *)

LEMMA InitType == Init => TypeOK
<1> SUFFICES ASSUME Init PROVE TypeOK
  OBVIOUS
<1>1. LoopOK
  BY EmptySeq DEF Init, LoopOK
<1>2. QueuesOK
  BY EmptySeq DEF Init, QueuesOK
<1>3. CountsOK
  BY DEF Init, CountsOK
<1>4. GhostsOK
  BY EmptySeq DEF Init, GhostsOK
<1>5. QED
  BY <1>1, <1>2, <1>3, <1>4 DEF TypeOK

\* One lemma per phase of a pass.
LEMMA NetType ==
    ASSUME TypeOK, WaitForNetwork
    PROVE  TypeOK'
<1> USE DEF TypeOK
<1>r. ReadClient => client_rxqueue' \in Seq(Command) /\ typed' \in 0 .. MaxTyped
  <2> SUFFICES ASSUME NEW batch \in ClientBatches,
                      typed' = IF batch = <<>> THEN typed ELSE typed + 1,
                      typed' <= MaxTyped,
                      client_rxqueue' = client_rxqueue \o batch
               PROVE  client_rxqueue' \in Seq(Command) /\ typed' \in 0 .. MaxTyped
    BY DEF ReadClient
  <2>1. batch \in Seq(Command)
    OBVIOUS
  <2>2. QED
    BY <2>1, ConcatProperties DEF LoopOK, CountsOK
<1>1. CASE Verify
  <2>a. correct' \in 0 .. MaxCorrect /\ pc' = "timer"
    BY <1>1 DEF Verify, Room, LoopOK
  <2>b. flags' = flags \union {"CLIENTQUIT"} \/ flags' = flags
    BY <1>1 DEF Verify
  <2>c. client_status' = client_status /\ client_rxqueue' = client_rxqueue
    BY <1>1 DEF Verify
  <2>1. LoopOK'
    BY <2>a, <2>b, <2>c DEF LoopOK
  <2>2. Append(client_toqueue, Message) \in Seq(Line)
    BY AppendProperties, MessageIsLine DEF QueuesOK
  <2>3. QueuesOK'
    BY <1>1, <2>2 DEF Verify, QueuesOK
  <2>4. CountsOK'
    BY <1>1 DEF Verify, CountsOK, drops, counts
  <2>5. GhostsOK'
    BY <1>1 DEF Verify, GhostsOK, ghosts
  <2>6. QED
    BY <2>1, <2>3, <2>4, <2>5
<1>2. CASE PromoteRefused
  <2>1. LoopOK'
    BY <1>2 DEF PromoteRefused, LoopOK, auth
  <2>2. QueuesOK' /\ CountsOK' /\ GhostsOK'
    BY <1>2 DEF PromoteRefused, QueuesOK, CountsOK, GhostsOK, queues, drops, counts, ghosts
  <2>3. QED
    BY <2>1, <2>2
<1>3. CASE Promote
  <2>1. LoopOK'
    BY <1>3, <1>r DEF Promote, LoopOK
  <2>c. ASSUME NEW q \in Seq(Line) PROVE CopiesOf(q) \in Seq(Line)
    <3>1. "recalled" \in Kind
      BY DEF Kind
    <3>2. \A line \in Line : [line EXCEPT !.kind = "recalled"] \in Line
      BY <3>1, CopyOfLine
    <3>3. QED
      BY <3>2, CopiesOfSeq DEF CopiesOf
  <2>2. RecallHistory(ContextLines) \in Seq(Line)
    <3>1. Last(history_lines, ContextLines) \in Seq(Line)
      BY LastOfSeq DEF QueuesOK
    <3>2. QED
      BY <2>c, <3>1 DEF RecallHistory
  <2>3. CopiesOf(inactive_lines) \in Seq(Line)
    BY <2>c DEF QueuesOK
  <2>4. <<Message>> \in Seq(Line)
    BY MessageIsLine
  <2>5. client_toqueue' \in Seq(Line)
    <3>1. PICK handshake \in {<<>>, <<McpLine>>} :
            client_toqueue' =
               client_toqueue \o <<Message>> \o RecallHistory(ContextLines)
                  \o CopiesOf(inactive_lines) \o buffered_lines
                  \o <<Message>> \o handshake
      BY <1>3 DEF Promote
    <3>2. handshake \in Seq(Line)
      <4>1. <<McpLine>> \in Seq(Line)
        BY McpLineIsLine
      <4>2. QED
        BY <3>1, <4>1, EmptySeq
    <3>3. QED
      BY <3>1, <3>2, <2>2, <2>3, <2>4, ConcatProperties DEF QueuesOK
  <2>6. QueuesOK'
    BY <1>3, <2>5, EmptySeq DEF Promote, QueuesOK
  <2>7. CountsOK'
    BY <1>3, <1>r DEF Promote, CountsOK
  <2>8. GhostsOK'
    BY <1>3, LenProperties, EmptySeq DEF Promote, GhostsOK, QueuesOK
  <2>9. QED
    BY <2>1, <2>6, <2>7, <2>8
<1>4. CASE SkipSelect
  BY <1>4 DEF SkipSelect, LoopOK, QueuesOK, CountsOK, GhostsOK, auth, queues, drops, counts,
              ghosts
<1>5. CASE Select
  <2>1. /\ server_rxqueue' \in Seq(Line)
        /\ arrived' \in 0 .. MaxLines /\ regular' \subseteq Nat
    <3> PICK batch \in ServerBatches :
          /\ arrived + notes + Len(batch) <= MaxLines
          /\ arrived' = arrived + Len(batch)
          /\ regular' = regular \union
                {arrived + i : i \in {k \in DOMAIN batch : batch[k] = "regular"}}
          /\ server_rxqueue' = server_rxqueue \o
                [i \in DOMAIN batch |-> [id |-> arrived + i, kind |-> batch[i]]]
      BY <1>5 DEF Select, ReadServer, MayArrive
    <3>1. /\ Len(batch) \in Nat /\ DOMAIN batch = 1 .. Len(batch)
          /\ \A i \in 1 .. Len(batch) : batch[i] \in ServerKind
      BY LenProperties, ElementOfSeq
    <3>2. [i \in DOMAIN batch |-> [id |-> arrived + i, kind |-> batch[i]]]
            \in Seq(Line)
      BY <3>1, FunctionIsSeq DEF Line, Kind, GhostsOK
    <3>3. server_rxqueue' \in Seq(Line)
      BY <3>2, ConcatProperties DEF QueuesOK
    <3>4. arrived' \in 0 .. MaxLines
      BY <3>1 DEF GhostsOK, CountsOK
    <3>5. \A i \in DOMAIN batch : arrived + i \in Nat
      BY <3>1 DEF GhostsOK
    <3>6. QED
      BY <3>3, <3>4, <3>5 DEF GhostsOK
  <2>2. LoopOK'
    BY <1>5, <1>r DEF Select, DisconnectClient, LoopOK
  <2>3. QueuesOK'
    BY <1>5, <2>1, EmptySeq DEF Select, DisconnectClient, QueuesOK
  <2>4. CountsOK'
    BY <1>5, <1>r DEF Select, CountsOK, drops
  <2>5. GhostsOK'
    BY <1>5, <2>1 DEF Select, GhostsOK
  <2>6. QED
    BY <2>2, <2>3, <2>4, <2>5
<1>6. QED
  BY <1>1, <1>2, <1>3, <1>4, <1>5 DEF WaitForNetwork

LEMMA DispatchType ==
    ASSUME TypeOK, Dispatch
    PROVE  TypeOK'
<1> USE DEF TypeOK
<1>1. CASE DispatchServer
  <2>1. client_toqueue \o server_rxqueue \in Seq(Line)
    BY ConcatProperties DEF QueuesOK
  <2>2. QueuesOK'
    BY <1>1, <2>1, EmptySeq DEF DispatchServer, QueuesOK
  <2>3. LoopOK' /\ CountsOK' /\ GhostsOK'
    BY <1>1 DEF DispatchServer, LoopOK, CountsOK, GhostsOK, auth, drops, counts, ghosts
  <2>4. QED
    BY <2>2, <2>3
<1>2. CASE DispatchClient
  <2>1. client_toqueue' \in Seq(Line)
    <3>1. {"found", "redrawn"} \subseteq Kind
      BY DEF Kind
    <3>2. \A line \in Line : /\ [line EXCEPT !.kind = "found"] \in Line
                             /\ [line EXCEPT !.kind = "redrawn"] \in Line
      BY <3>1, CopyOfLine
    <3>3. PICK r \in Seq(Line) : client_toqueue' = client_toqueue \o r
      BY <1>2, <3>2, CommandAdds, MessageIsLine, McpLineIsLine DEF QueuesOK
    <3>4. QED
      BY <3>3, ConcatProperties DEF QueuesOK
  <2>2. /\ inactive_lines' \in Seq(Line) /\ history_lines' \in Seq(Line)
        /\ early' \subseteq Nat /\ expired' \subseteq Nat
    <3>1. Ids(history_lines) \subseteq Nat /\ Ids(inactive_lines) \subseteq Nat
          /\ OnTheWay \subseteq Nat
      BY IdsAreNumbers, OnTheWayAreNumbers DEF QueuesOK
    <3>2. QED
      BY <1>2, <3>1, CommandKeeps, InactiveToHistoryStep, EmptySeq DEF QueuesOK, GhostsOK
  <2>3. flags' \subseteq {"ACTIVATED", "CLIENTQUIT"}
    BY <1>2 DEF DispatchClient, ClientText, ClientQuit, ClientMcp, ClientRecall, ClientAce, ClientForget,
                LoopOK
  <2>4. client_rxqueue' \in Seq(Command)
    BY <1>2, HeadTailProperties DEF DispatchClient, LoopOK
  <2>5. LoopOK'
    BY <1>2, <2>3, <2>4 DEF DispatchClient, LoopOK, auth
  <2>6. QueuesOK'
    BY <1>2, <2>1, <2>2 DEF DispatchClient, QueuesOK
  <2>7. CountsOK' /\ GhostsOK'
    BY <1>2, <2>2 DEF DispatchClient, CountsOK, GhostsOK, drops, counts
  <2>8. QED
    BY <2>5, <2>6, <2>7
<1>3. CASE MergeToQueue
  <2>1. client_txqueue \o client_toqueue \in Seq(Line)
    BY ConcatProperties DEF QueuesOK
  <2>2. LoopOK'
    BY <1>3 DEF MergeToQueue, AfterMerge, LoopOK, auth
  <2>3. QueuesOK'
    BY <1>3, <2>1, EmptySeq DEF MergeToQueue, QueuesOK
  <2>4. CountsOK' /\ GhostsOK'
    BY <1>3 DEF MergeToQueue, CountsOK, GhostsOK, drops, counts, ghosts
  <2>5. QED
    BY <2>2, <2>3, <2>4
<1>4. CASE Unqueue
  <2>1. Head(client_txqueue) \in Line /\ Tail(client_txqueue) \in Seq(Line)
    BY <1>4, HeadTailProperties DEF Unqueue, QueuesOK
  <2>2. buffered_lines' \in Seq(Line)
    BY <1>4, <2>1, AppendProperties DEF Unqueue, QueuesOK
  <2>3. QueuesOK'
    BY <1>4, <2>1, <2>2 DEF Unqueue, QueuesOK
  <2>4. LoopOK' /\ CountsOK' /\ GhostsOK'
    BY <1>4 DEF Unqueue, LoopOK, CountsOK, GhostsOK, auth, drops, counts, ghosts
  <2>5. QED
    BY <2>3, <2>4
<1>5. CASE UnqueueDone
  BY <1>5 DEF UnqueueDone, LoopOK, QueuesOK, CountsOK, GhostsOK, auth, queues, drops, counts,
              ghosts
<1>6. CASE Tick
  <2>1. client_toqueue' \in Seq(Line) /\ notes' \in 0 .. MaxNotes
    <3>1. Append(client_toqueue, Checkpoint) \in Seq(Line)
      BY AppendProperties, CheckpointIsLine DEF QueuesOK
    <3>2. CASE UNCHANGED <<client_toqueue, notes>>
      BY <3>2 DEF QueuesOK, CountsOK
    <3>3. CASE /\ notes < MaxNotes
               /\ notes' = notes + 1
               /\ client_toqueue' = Append(client_toqueue, Checkpoint)
      BY <3>1, <3>3 DEF CountsOK
    <3>4. QED
      BY <1>6, <3>2, <3>3 DEF Tick, MayNote
  <2>2. LoopOK'
    BY <1>6 DEF Tick, LoopOK, auth
  <2>3. QueuesOK'
    BY <1>6, <2>1 DEF Tick, QueuesOK
  <2>4. CountsOK' /\ GhostsOK'
    BY <1>6, <2>1 DEF Tick, CountsOK, GhostsOK, drops, ghosts
  <2>5. QED
    BY <2>2, <2>3, <2>4
<1>7. QED
  BY <1>1, <1>2, <1>3, <1>4, <1>5, <1>6 DEF Dispatch

LEMMA FlushType ==
    ASSUME TypeOK, Flush
    PROVE  TypeOK'
<1> USE DEF TypeOK
<1>1. CASE Fill
  <2>1. Head(client_txqueue) \in Line /\ Tail(client_txqueue) \in Seq(Line)
    BY <1>1, HeadTailProperties DEF Fill, CanFill, QueuesOK
  <2>2. client_txbuffer' \in Seq(Line) /\ inactive_lines' \in Seq(Line)
    BY <1>1, <2>1, AppendProperties DEF Fill, QueuesOK
  <2>3. QueuesOK'
    BY <1>1, <2>1, <2>2 DEF Fill, QueuesOK
  <2>4. LoopOK' /\ CountsOK' /\ GhostsOK'
    BY <1>1 DEF Fill, LoopOK, CountsOK, GhostsOK, auth, drops, counts, ghosts
  <2>5. QED
    BY <2>3, <2>4
<1>2. CASE Write
  <2>1. Head(client_txbuffer) \in Line /\ Tail(client_txbuffer) \in Seq(Line)
    BY <1>2, HeadTailProperties DEF Write, QueuesOK
  <2>2. Head(client_txbuffer).id \in Nat
    BY <2>1 DEF Line
  <2>3. delivered' \subseteq Nat /\ leftover' \in Nat
    <3>1. leftover' = IF leftover = 0 THEN 0 ELSE leftover - 1
      BY <1>2 DEF Write
    <3>2. delivered' = delivered \union ({Head(client_txbuffer).id} \ {0})
      BY <1>2 DEF Write
    <3>3. leftover' \in Nat
      BY <3>1 DEF GhostsOK
    <3>4. delivered' \subseteq Nat
      BY <2>2, <3>2 DEF GhostsOK
    <3>5. QED
      BY <3>3, <3>4
  <2>4. shown' \in Nat /\ newest' \in Nat
    BY <1>2, <2>2 DEF Write, GhostsOK
  <2>5. QueuesOK'
    BY <1>2, <2>1 DEF Write, QueuesOK
  <2>6. GhostsOK'
    BY <1>2, <2>3, <2>4 DEF Write, GhostsOK
  <2>7. LoopOK' /\ CountsOK'
    BY <1>2 DEF Write, LoopOK, CountsOK, auth, drops, counts
  <2>8. QED
    BY <2>5, <2>6, <2>7
<1>3. CASE FlushDone
  BY <1>3 DEF FlushDone, LoopOK, QueuesOK, CountsOK, GhostsOK, auth, queues, drops, counts,
              ghosts
<1>4. QED
  BY <1>1, <1>2, <1>3 DEF Flush

\* What the trim takes from each of its queues.
cutHistory ==
    Excess(Len(buffered_lines) + Len(inactive_lines) + Len(history_lines), history_lines)
cutInactive == Excess(Len(buffered_lines) + Len(inactive_lines), inactive_lines)
cutBuffered == Excess(Len(buffered_lines), buffered_lines)

LEMMA TrimCuts ==
    ASSUME QueuesOK, Trim
    PROVE  /\ cutHistory \in 0 .. Len(history_lines)
           /\ cutInactive \in 0 .. Len(inactive_lines)
           /\ cutBuffered \in 0 .. Len(buffered_lines)
           /\ history_lines' = Beyond(history_lines, cutHistory)
           /\ inactive_lines' = Beyond(inactive_lines, cutInactive)
           /\ buffered_lines' = Beyond(buffered_lines, cutBuffered)
<1>1. Len(history_lines) \in Nat /\ Len(inactive_lines) \in Nat /\ Len(buffered_lines) \in Nat
  BY LenProperties DEF QueuesOK
<1>2. QED
  BY <1>1, ExcessBounds DEF QueuesOK, Trim, cutHistory, cutInactive, cutBuffered

LEMMA TrimType ==
    ASSUME TypeOK, Trim
    PROVE  TypeOK'
<1> USE DEF TypeOK
<1>1. QueuesOK'
  BY TrimCuts, BeyondOfSeq DEF Trim, QueuesOK
<1>2. CountsOK'
  <2>1. cutInactive \in Nat /\ cutBuffered \in Nat
    BY TrimCuts, LenProperties DEF QueuesOK
  <2>2. /\ dropped_inactive_lines' = dropped_inactive_lines + cutInactive
        /\ dropped_buffered_lines' = dropped_buffered_lines + cutBuffered
    BY DEF Trim, cutInactive, cutBuffered
  <2>3. QED
    BY <2>1, <2>2 DEF Trim, CountsOK, counts
<1>3. GhostsOK'
  <2>1. /\ expired' = expired \union Ids(Front(history_lines, cutHistory))
        /\ dropped' = dropped \union OriginalIds(Front(inactive_lines, cutInactive))
                             \union OriginalIds(Front(buffered_lines, cutBuffered))
    BY DEF Trim, cutHistory, cutInactive, cutBuffered
  <2>2. expired' \subseteq Nat
    BY <2>1, TrimCuts, FrontOfSeq, IdsAreNumbers DEF QueuesOK, GhostsOK
  <2>3. dropped' \subseteq Nat
    <3>1. OriginalIds(Front(inactive_lines, cutInactive)) \subseteq Nat
      BY TrimCuts, FrontOfSeq, IdsAreNumbers DEF QueuesOK
    <3>2. OriginalIds(Front(buffered_lines, cutBuffered)) \subseteq Nat
      BY TrimCuts, FrontOfSeq, IdsAreNumbers DEF QueuesOK
    <3>3. QED
      BY <2>1, <3>1, <3>2 DEF GhostsOK
  <2>4. QED
    BY <2>2, <2>3 DEF Trim, GhostsOK
<1>4. LoopOK'
  BY DEF Trim, LoopOK, auth
<1>5. QED
  BY <1>1, <1>2, <1>3, <1>4

LEMMA FlagsType ==
    ASSUME TypeOK, HandleFlags
    PROVE  TypeOK'
<1> USE DEF TypeOK
<1>1. client_toqueue' \in Seq(Line) /\ notes' \in 0 .. MaxNotes
  <2>1. Append(client_toqueue, Message) \in Seq(Line)
    BY AppendProperties, MessageIsLine DEF QueuesOK
  <2>2. CASE UNCHANGED <<client_toqueue, notes>>
    BY <2>2 DEF QueuesOK, CountsOK
  <2>3. CASE /\ notes < MaxNotes
             /\ notes' = notes + 1
             /\ client_toqueue' = Append(client_toqueue, Message)
    BY <2>1, <2>3 DEF CountsOK
  <2>4. QED
    BY <2>2, <2>3 DEF HandleFlags, MayNote
<1>2. inactive_lines' \in Seq(Line) /\ history_lines' \in Seq(Line) /\ early' \subseteq Nat
  BY InactiveToHistoryStep, OnTheWayAreNumbers DEF HandleFlags, QueuesOK, GhostsOK
<1>3. client_status' \in {"DISCONNECTED", "CONNECTED"} /\ client_txbuffer' \in Seq(Line)
  BY EmptySeq DEF HandleFlags, DisconnectClient, LoopOK, QueuesOK
<1>4. LoopOK'
  BY <1>3 DEF HandleFlags, LoopOK
<1>5. QueuesOK'
  BY <1>1, <1>2, <1>3 DEF HandleFlags, QueuesOK
<1>6. CountsOK' /\ GhostsOK'
  BY <1>1, <1>2 DEF HandleFlags, CountsOK, GhostsOK, drops
<1>7. QED
  BY <1>4, <1>5, <1>6

LEMMA TypeStep == TypeOK /\ [Next]_vars => TypeOK'
<1> SUFFICES ASSUME TypeOK, [Next]_vars PROVE TypeOK'
  OBVIOUS
<1>1. CASE UNCHANGED vars
  BY <1>1 DEF vars, auth, queues, drops, counts, ghosts, TypeOK, LoopOK, QueuesOK, CountsOK,
              GhostsOK
<1>2. QED
  BY <1>1, NetType, DispatchType, FlushType, TrimType, FlagsType DEF Next

\* Every variable always has its type.
THEOREM TypeCorrect == Spec => []TypeOK
<1>1. Init => TypeOK
  BY InitType
<1>2. TypeOK /\ [Next]_vars => TypeOK'
  BY TypeStep
<1>3. QED
  BY <1>1, <1>2, PTL DEF Spec

-----------------------------------------------------------------------------
(* The lines that are kept fit the buffer.                                 *)

Kept == Len(buffered_lines) + Len(inactive_lines) + Len(history_lines)

LEMMA WithinBufferStep == TypeOK /\ WithinBuffer /\ [Next]_vars => WithinBuffer'
<1> SUFFICES ASSUME TypeOK, WithinBuffer, [Next]_vars PROVE WithinBuffer'
  OBVIOUS
<1>q. QueuesOK
  BY DEF TypeOK
<1>n. Len(buffered_lines) \in Nat /\ Len(inactive_lines) \in Nat /\ Len(history_lines) \in Nat
  BY <1>q, LenProperties DEF QueuesOK
\* A step that leaves the three queues alone.
<1>u. ASSUME UNCHANGED <<buffered_lines, inactive_lines, history_lines>>,
             pc' \in {"flags", "net", "timer", "server", "client"} =>
                pc \in {"flags", "net", "timer", "server", "client"}
      PROVE  WithinBuffer'
  BY <1>u DEF WithinBuffer
<1>1. CASE Verify \/ PromoteRefused \/ SkipSelect \/ Select
  BY <1>1, <1>u DEF Verify, PromoteRefused, SkipSelect, Select, queues
<1>2. CASE Promote
  BY <1>2, <1>n, EmptySeq DEF Promote, WithinBuffer
<1>3. CASE Tick \/ DispatchServer \/ MergeToQueue \/ UnqueueDone \/ Write \/ FlushDone
  BY <1>3, <1>u DEF Tick, DispatchServer, MergeToQueue, AfterMerge, UnqueueDone, Write, FlushDone,
                    queues
<1>4. CASE DispatchClient
  <2>1. pc = "client" /\ buffered_lines' = buffered_lines
    BY <1>4 DEF DispatchClient
  <2>2. CASE UNCHANGED <<inactive_lines, history_lines>>
    BY <2>1, <2>2 DEF WithinBuffer
  <2>3. CASE InactiveToHistory
    BY <1>q, <1>n, <2>1, <2>3, InactiveToHistoryStep, EmptySeq DEF WithinBuffer
  <2>4. CASE inactive_lines' = <<>> /\ history_lines' = <<>>
    BY <1>n, <2>1, <2>4, EmptySeq DEF WithinBuffer
  <2>5. QED
    BY <1>4, <2>2, <2>3, <2>4, CommandKeeps
<1>5. CASE Unqueue \/ Fill
  BY <1>5 DEF Unqueue, Fill, WithinBuffer
<1>6. CASE Trim
  <2>1. /\ cutHistory \in 0 .. Len(history_lines)
        /\ cutInactive \in 0 .. Len(inactive_lines)
        /\ cutBuffered \in 0 .. Len(buffered_lines)
        /\ Len(history_lines') = Len(history_lines) - cutHistory
        /\ Len(inactive_lines') = Len(inactive_lines) - cutInactive
        /\ Len(buffered_lines') = Len(buffered_lines) - cutBuffered
    BY <1>q, <1>6, TrimCuts, BeyondOfSeq DEF QueuesOK
  <2>2. Kept - cutHistory <= BufferSize \/ cutHistory = Len(history_lines)
    BY <1>q, <1>n, ExcessBounds DEF QueuesOK, Kept, cutHistory
  <2>3. \/ Len(buffered_lines) + Len(inactive_lines) - cutInactive <= BufferSize
        \/ cutInactive = Len(inactive_lines)
    <3>1. Len(buffered_lines) + Len(inactive_lines) \in Nat /\ inactive_lines \in Seq(Line)
      BY <1>q, <1>n DEF QueuesOK
    <3>2. QED
      BY <3>1, ExcessBounds DEF cutInactive
  <2>4. Len(buffered_lines) - cutBuffered <= BufferSize \/ cutBuffered = Len(buffered_lines)
    BY <1>q, <1>n, ExcessBounds DEF QueuesOK, cutBuffered
  <2>5. QED
    BY <1>n, <2>1, <2>2, <2>3, <2>4 DEF WithinBuffer, Kept
<1>7. CASE HandleFlags
  <2>1. pc = "flags" /\ buffered_lines' = buffered_lines
    BY <1>7 DEF HandleFlags
  <2>2. CASE InactiveToHistory
    BY <1>q, <1>n, <2>1, <2>2, InactiveToHistoryStep, EmptySeq DEF WithinBuffer
  <2>3. CASE UNCHANGED <<inactive_lines, history_lines>>
    BY <2>1, <2>3 DEF WithinBuffer
  <2>4. QED
    BY <1>7, <2>2, <2>3 DEF HandleFlags
<1>8. CASE UNCHANGED vars
  BY <1>8, <1>u DEF vars, queues
<1>9. QED
  BY <1>1, <1>2, <1>3, <1>4, <1>5, <1>6, <1>7, <1>8
     DEF Next, WaitForNetwork, Dispatch, Flush

\* world_trim_dynamic_queues() (world.c) leaves at most BufferSize lines, and
\* nothing adds to them until the next pass sends or buffers lines.
THEOREM BufferBounded == Spec => []WithinBuffer
<1>1. Init => WithinBuffer
  BY EmptySeq DEF Init, WithinBuffer
<1>2. TypeOK /\ WithinBuffer /\ [Next]_vars => WithinBuffer'
  BY WithinBufferStep
<1>3. QED
  BY <1>1, <1>2, TypeCorrect, PTL DEF Spec

-----------------------------------------------------------------------------
(* Lines are buffered for the next client only while there is none.        *)

AwayInv ==
    /\ BufferedOnlyWhileAway
    /\ pc = "unqueue" => client_status = "DISCONNECTED"

LEMMA AwayStep == TypeOK /\ AwayInv /\ [Next]_vars => AwayInv'
<1> SUFFICES ASSUME TypeOK, AwayInv, [Next]_vars PROVE AwayInv'
  OBVIOUS
<1>q. QueuesOK /\ client_status \in {"DISCONNECTED", "CONNECTED"}
  BY DEF TypeOK, LoopOK
<1> USE DEF AwayInv, BufferedOnlyWhileAway
<1>1. CASE Verify \/ PromoteRefused \/ SkipSelect
  BY <1>1 DEF Verify, PromoteRefused, SkipSelect, auth, queues
<1>2. CASE Promote
  BY <1>2 DEF Promote
<1>3. CASE Select
  BY <1>3 DEF Select, DisconnectClient
<1>4. CASE Tick \/ DispatchServer \/ DispatchClient
  BY <1>4 DEF Tick, DispatchServer, DispatchClient, auth
<1>5. CASE MergeToQueue
  BY <1>5, <1>q DEF MergeToQueue, AfterMerge, auth
<1>6. CASE Unqueue
  BY <1>6 DEF Unqueue, auth
<1>7. CASE UnqueueDone \/ FlushDone
  BY <1>7 DEF UnqueueDone, FlushDone, auth, queues
<1>8. CASE Fill \/ Write
  BY <1>8 DEF Fill, Write, auth
<1>9. CASE Trim
  <2>1. client_status = "CONNECTED" => Len(buffered_lines) = 0
    BY EmptySeq
  <2>2. client_status = "CONNECTED" => buffered_lines' = <<>>
    <3> SUFFICES ASSUME client_status = "CONNECTED" PROVE buffered_lines' = <<>>
      OBVIOUS
    <3>1. cutBuffered \in 0 .. 0 /\ buffered_lines' = Beyond(buffered_lines, cutBuffered)
      BY <1>9, <1>q, <2>1, TrimCuts
    <3>2. Beyond(buffered_lines, 0) = <<>>
      BY <2>1, SubSeqEmpty DEF Beyond
    <3>3. QED
      BY <3>1, <3>2
  <2>3. QED
    BY <1>9, <2>2 DEF Trim, auth
<1>10. CASE HandleFlags
  BY <1>10 DEF HandleFlags, DisconnectClient
<1>11. CASE UNCHANGED vars
  BY <1>11 DEF vars, auth, queues
<1>12. QED
  BY <1>1, <1>2, <1>3, <1>4, <1>5, <1>6, <1>7, <1>8, <1>9, <1>10, <1>11
     DEF Next, WaitForNetwork, Dispatch, Flush

\* While a client is connected nothing is buffered for the next one, also
\* across a take-over (mainloop(), world_recall_and_pass()).
THEOREM NothingBufferedForClient == Spec => []BufferedOnlyWhileAway
<1>1. Init => AwayInv
  BY DEF Init, AwayInv, BufferedOnlyWhileAway
<1>2. TypeOK /\ AwayInv /\ [Next]_vars => AwayInv'
  BY AwayStep
<1>3. AwayInv => BufferedOnlyWhileAway
  BY DEF AwayInv
<1>4. QED
  BY <1>1, <1>2, <1>3, TypeCorrect, PTL DEF Spec

-----------------------------------------------------------------------------
(* Which lines become possibly new, history, or are kept for a client.     *)

OriginalLine == {line \in Line : line.kind \in {"regular", "checkpoint"}}
LastingLine == {line \in Line : line.kind \notin DONTBUF}

KindInv ==
    /\ history_lines \in Seq(OriginalLine) /\ inactive_lines \in Seq(OriginalLine)
    /\ buffered_lines \in Seq(LastingLine)

LEMMA KindStep == TypeOK /\ KindInv /\ [Next]_vars => KindInv'
<1> SUFFICES ASSUME TypeOK, KindInv, [Next]_vars PROVE KindInv'
  OBVIOUS
<1>q. QueuesOK
  BY DEF TypeOK
<1>h. InactiveToHistory => /\ history_lines' \in Seq(OriginalLine)
                           /\ inactive_lines' \in Seq(OriginalLine)
  BY ConcatProperties, EmptySeq DEF InactiveToHistory, KindInv
<1>1. CASE Verify \/ PromoteRefused \/ SkipSelect \/ Select
  BY <1>1 DEF Verify, PromoteRefused, SkipSelect, Select, queues, KindInv
<1>2. CASE Promote
  BY <1>2, EmptySeq DEF Promote, KindInv
<1>3. CASE Tick \/ DispatchServer \/ MergeToQueue \/ UnqueueDone \/ Write \/ FlushDone
  BY <1>3 DEF Tick, DispatchServer, MergeToQueue, UnqueueDone, Write, FlushDone, queues, KindInv
<1>4. CASE DispatchClient
  <2>1. UNCHANGED buffered_lines
    BY <1>4 DEF DispatchClient
  <2>2. QED
    BY <1>4, <1>h, <2>1, CommandKeeps, EmptySeq DEF KindInv
<1>5. CASE Unqueue
  <2>1. Head(client_txqueue) \in Line
    BY <1>5, <1>q, HeadTailProperties DEF Unqueue, QueuesOK
  <2>2. CASE Head(client_txqueue).kind \in DONTBUF
    BY <1>5, <2>2 DEF Unqueue, KindInv
  <2>3. CASE Head(client_txqueue).kind \notin DONTBUF
    <3>1. Head(client_txqueue) \in LastingLine
      BY <2>1, <2>3 DEF LastingLine
    <3>2. QED
      BY <1>5, <2>3, <3>1, AppendProperties DEF Unqueue, KindInv
  <2>4. QED
    BY <2>2, <2>3
<1>6. CASE Fill
  <2>1. Head(client_txqueue) \in Line
    BY <1>6, <1>q, HeadTailProperties DEF Fill, CanFill, QueuesOK
  <2>2. CASE Head(client_txqueue).kind \in NOHIST
    BY <1>6, <2>2 DEF Fill, KindInv
  <2>3. CASE Head(client_txqueue).kind \notin NOHIST
    <3>1. Head(client_txqueue) \in OriginalLine
      BY <2>1, <2>3 DEF OriginalLine, Line, Kind, ServerKind, NOHIST
    <3>2. QED
      BY <1>6, <2>3, <3>1, AppendProperties DEF Fill, KindInv
  <2>4. QED
    BY <2>2, <2>3
<1>7. CASE Trim
  BY <1>7, <1>q, TrimCuts, BeyondOfSeq DEF KindInv
<1>8. CASE HandleFlags
  BY <1>8, <1>h DEF HandleFlags, KindInv
<1>9. CASE UNCHANGED vars
  BY <1>9 DEF vars, queues, KindInv
<1>10. QED
  BY <1>1, <1>2, <1>3, <1>4, <1>5, <1>6, <1>7, <1>8, <1>9
     DEF Next, WaitForNetwork, Dispatch, Flush

\* Copies, MCP lines and messages never become possibly new or history (the
\* flag NOHIST of line.h).  Of them only messages, and the copies that /recall
\* finds, wait for the next client: the flag DONTBUF keeps the others from it.
THEOREM KindsKeptApart == Spec => []QueueKinds
<1>1. Init => KindInv
  BY EmptySeq DEF Init, KindInv
<1>2. TypeOK /\ KindInv /\ [Next]_vars => KindInv'
  BY KindStep
<1>3. KindInv => QueueKinds
  <2> SUFFICES ASSUME KindInv PROVE QueueKinds
    OBVIOUS
  <2>1. \A i \in DOMAIN history_lines : history_lines[i] \in OriginalLine
    BY LenProperties, ElementOfSeq DEF KindInv
  <2>2. \A i \in DOMAIN inactive_lines : inactive_lines[i] \in OriginalLine
    BY LenProperties, ElementOfSeq DEF KindInv
  <2>3. \A i \in DOMAIN buffered_lines : buffered_lines[i] \in LastingLine
    BY LenProperties, ElementOfSeq DEF KindInv
  <2>4. QED
    BY <2>1, <2>2, <2>3 DEF QueueKinds, OriginalLine, LastingLine
<1>4. QED
  BY <1>1, <1>2, <1>3, TypeCorrect, PTL DEF Spec

-----------------------------------------------------------------------------
(* Order: what concatenation, and taking lines from either end, do to the  *)
(* numbers that a queue holds.                                             *)

\* Numbers that ascend, zeros aside, and those that are not zero.
Rising(s) == \A i, j \in DOMAIN s : i < j /\ s[i] # 0 /\ s[j] # 0 => s[i] < s[j]
Positive(s) == {s[i] : i \in DOMAIN s} \ {0}
Below(A, B) == \A a \in A, b \in B : a < b

LEMMA PositiveConcat ==
    ASSUME NEW s \in Seq(Nat), NEW t \in Seq(Nat)
    PROVE  Positive(s \o t) = Positive(s) \union Positive(t)
<1>1. /\ Len(s) \in Nat /\ Len(t) \in Nat
      /\ DOMAIN s = 1 .. Len(s) /\ DOMAIN t = 1 .. Len(t)
      /\ DOMAIN (s \o t) = 1 .. Len(s) + Len(t)
  BY LenProperties, ConcatProperties
<1>2. \A i \in 1 .. Len(s) : (s \o t)[i] = s[i]
  BY <1>1, ConcatProperties
<1>3. \A i \in 1 .. Len(t) : Len(s) + i \in 1 .. Len(s) + Len(t) /\ (s \o t)[Len(s) + i] = t[i]
  BY <1>1, ConcatProperties
<1>4. \A i \in 1 .. Len(s) + Len(t) : i \in 1 .. Len(s) \/ i - Len(s) \in 1 .. Len(t)
  BY <1>1
<1>5. \A i \in DOMAIN (s \o t) : (s \o t)[i] \in {s[k] : k \in DOMAIN s} \union {t[k] : k \in DOMAIN t}
  BY <1>1, <1>4, ConcatProperties
<1>6. \A i \in DOMAIN s : s[i] \in {(s \o t)[k] : k \in DOMAIN (s \o t)}
  BY <1>1, <1>2
<1>7. \A i \in DOMAIN t : t[i] \in {(s \o t)[k] : k \in DOMAIN (s \o t)}
  BY <1>1, <1>3
<1>8. QED
  BY <1>5, <1>6, <1>7 DEF Positive

LEMMA RisingConcat ==
    ASSUME NEW s \in Seq(Nat), NEW t \in Seq(Nat)
    PROVE  Rising(s \o t) <=> Rising(s) /\ Rising(t) /\ Below(Positive(s), Positive(t))
<1>1. /\ Len(s) \in Nat /\ Len(t) \in Nat
      /\ DOMAIN s = 1 .. Len(s) /\ DOMAIN t = 1 .. Len(t)
      /\ DOMAIN (s \o t) = 1 .. Len(s) + Len(t)
  BY LenProperties, ConcatProperties
<1>2. \A i \in 1 .. Len(s) : i \in 1 .. Len(s) + Len(t) /\ (s \o t)[i] = s[i]
  BY <1>1, ConcatProperties
<1>3. \A i \in 1 .. Len(t) : Len(s) + i \in 1 .. Len(s) + Len(t) /\ (s \o t)[Len(s) + i] = t[i]
  BY <1>1, ConcatProperties
<1> DEFINE st == s \o t
<1>4. /\ DOMAIN st = 1 .. Len(s) + Len(t)
      /\ \A i \in 1 .. Len(s) : i \in 1 .. Len(s) + Len(t) /\ st[i] = s[i]
      /\ \A i \in 1 .. Len(t) : Len(s) + i \in 1 .. Len(s) + Len(t) /\ st[Len(s) + i] = t[i]
  BY <1>1, <1>2, <1>3
<1> HIDE DEF st
<1>5. ASSUME Rising(st)
      PROVE  Rising(s) /\ Rising(t) /\ Below(Positive(s), Positive(t))
  <2>1. ASSUME NEW i \in 1 .. Len(s), NEW j \in 1 .. Len(s), i < j, s[i] # 0, s[j] # 0
        PROVE  s[i] < s[j]
    BY <1>4, <1>5, <2>1 DEF Rising
  <2>2. ASSUME NEW i \in 1 .. Len(t), NEW j \in 1 .. Len(t), i < j, t[i] # 0, t[j] # 0
        PROVE  t[i] < t[j]
    <3>1. Len(s) + i < Len(s) + j
      BY <1>1, <2>2
    <3>2. QED
      BY <1>4, <1>5, <2>2, <3>1 DEF Rising
  <2>3. ASSUME NEW i \in 1 .. Len(s), NEW j \in 1 .. Len(t), s[i] # 0, t[j] # 0
        PROVE  s[i] < t[j]
    <3>1. i < Len(s) + j
      BY <1>1, <2>3
    <3>2. QED
      BY <1>4, <1>5, <2>3, <3>1 DEF Rising
  <2>4. Rising(s) /\ Rising(t)
    BY <1>1, <2>1, <2>2 DEF Rising
  <2>5. Below(Positive(s), Positive(t))
    BY <1>1, <2>3 DEF Below, Positive
  <2>6. QED
    BY <2>4, <2>5
<1>6. ASSUME Rising(s), Rising(t), Below(Positive(s), Positive(t))
      PROVE  Rising(st)
  <2> SUFFICES ASSUME NEW i \in 1 .. Len(s) + Len(t), NEW j \in 1 .. Len(s) + Len(t), i < j,
                      st[i] # 0, st[j] # 0
               PROVE  st[i] < st[j]
    BY <1>4 DEF Rising
  <2>1. CASE j <= Len(s)
    <3>1. i \in 1 .. Len(s) /\ j \in 1 .. Len(s)
      BY <1>1, <2>1
    <3>2. st[i] = s[i] /\ st[j] = s[j]
      BY <1>4, <3>1
    <3>3. QED
      BY <1>1, <1>6, <3>1, <3>2 DEF Rising
  <2>2. CASE i > Len(s)
    <3>1. PICK k \in 1 .. Len(t) : i = Len(s) + k
      <4>1. i - Len(s) \in 1 .. Len(t) /\ i = Len(s) + (i - Len(s))
        BY <1>1, <2>2
      <4>2. QED
        BY <4>1
    <3>2. PICK l \in 1 .. Len(t) : j = Len(s) + l
      <4>1. j - Len(s) \in 1 .. Len(t) /\ j = Len(s) + (j - Len(s))
        BY <1>1, <2>2
      <4>2. QED
        BY <4>1
    <3>3. st[i] = t[k] /\ st[j] = t[l] /\ k < l
      BY <1>1, <1>4, <3>1, <3>2
    <3>4. QED
      BY <1>1, <1>6, <3>3 DEF Rising
  <2>3. CASE i <= Len(s) /\ j > Len(s)
    <3>1. i \in 1 .. Len(s)
      BY <1>1, <2>3
    <3>2. PICK l \in 1 .. Len(t) : j = Len(s) + l
      <4>1. j - Len(s) \in 1 .. Len(t) /\ j = Len(s) + (j - Len(s))
        BY <1>1, <2>3
      <4>2. QED
        BY <4>1
    <3>3. st[i] = s[i] /\ st[j] = t[l]
      BY <1>4, <3>1, <3>2
    <3>4. s[i] \in Positive(s) /\ t[l] \in Positive(t)
      BY <1>1, <3>1, <3>3 DEF Positive
    <3>5. QED
      BY <1>6, <3>3, <3>4 DEF Below
  <2>4. QED
    BY <1>1, <2>1, <2>2, <2>3
<1>7. QED
  BY <1>5, <1>6 DEF st

\* The numbers of the lines of a queue that are of some kinds, with zero for
\* the others.
Number(line, kinds) == IF line.kind \in kinds THEN line.id ELSE 0
NumbersOf(queue, kinds) == [i \in DOMAIN queue |-> Number(queue[i], kinds)]

\* The arrival numbers of the server's own lines, and of what a session
\* presents, copies of server lines included.
Stamp(line) == Number(line, ServerKind)
Mark(line) == Number(line, Presented)
StampsOf(queue) == NumbersOf(queue, ServerKind)
MarksOf(queue) == NumbersOf(queue, Presented)

Stamps(queue) == Positive(StampsOf(queue))
Marks(queue) == Positive(MarksOf(queue))
InOrder(queue) == Rising(StampsOf(queue))
MarksRise(queue) == Rising(MarksOf(queue))

LEMMA NumbersOfSeq ==
    ASSUME NEW q \in Seq(Line), NEW kinds
    PROVE  /\ NumbersOf(q, kinds) \in Seq(Nat) /\ Len(NumbersOf(q, kinds)) = Len(q)
           /\ Positive(NumbersOf(q, kinds)) \subseteq Ids(q)
           /\ Positive(NumbersOf(q, kinds)) \subseteq Nat \ {0}
<1>1. Len(q) \in Nat /\ DOMAIN q = 1 .. Len(q) /\ \A i \in 1 .. Len(q) : q[i] \in Line
  BY LenProperties, ElementOfSeq
<1>2. \A i \in 1 .. Len(q) : Number(q[i], kinds) \in Nat
  BY <1>1 DEF Line, Number
<1>3. NumbersOf(q, kinds) \in [1 .. Len(q) -> Nat]
  BY <1>1, <1>2 DEF NumbersOf
<1>4. NumbersOf(q, kinds) \in Seq(Nat) /\ Len(NumbersOf(q, kinds)) = Len(q)
  BY <1>1, <1>3, FunctionIsSeq
<1>5. \A i \in 1 .. Len(q) : Number(q[i], kinds) # 0 => Number(q[i], kinds) = q[i].id
  BY DEF Number
<1>6. Positive(NumbersOf(q, kinds)) \subseteq Ids(q)
  BY <1>1, <1>5 DEF Positive, NumbersOf, Ids
<1>7. Positive(NumbersOf(q, kinds)) \subseteq Nat \ {0}
  BY <1>1, <1>2 DEF Positive, NumbersOf
<1>8. QED
  BY <1>4, <1>6, <1>7

LEMMA StampsAndMarks ==
    ASSUME NEW q \in Seq(Line)
    PROVE  /\ StampsOf(q) \in Seq(Nat) /\ Len(StampsOf(q)) = Len(q)
           /\ MarksOf(q) \in Seq(Nat) /\ Len(MarksOf(q)) = Len(q)
           /\ Stamps(q) \subseteq Ids(q) /\ Marks(q) \subseteq Ids(q)
           /\ Stamps(q) \subseteq Nat \ {0} /\ Marks(q) \subseteq Nat \ {0}
  BY NumbersOfSeq DEF StampsOf, MarksOf, Stamps, Marks

LEMMA NumbersOfConcat ==
    ASSUME NEW q \in Seq(Line), NEW r \in Seq(Line), NEW kinds
    PROVE  NumbersOf(q \o r, kinds) = NumbersOf(q, kinds) \o NumbersOf(r, kinds)
<1>1. /\ Len(q) \in Nat /\ Len(r) \in Nat /\ q \o r \in Seq(Line)
      /\ DOMAIN q = 1 .. Len(q) /\ DOMAIN r = 1 .. Len(r)
      /\ DOMAIN (q \o r) = 1 .. Len(q) + Len(r) /\ Len(q \o r) = Len(q) + Len(r)
  BY LenProperties, ConcatProperties
<1>2. \A i \in 1 .. Len(q) + Len(r) :
         (q \o r)[i] = IF i <= Len(q) THEN q[i] ELSE r[i - Len(q)]
  BY ConcatProperties
<1>3. \A i \in 1 .. Len(q) + Len(r) : i <= Len(q) => i \in 1 .. Len(q)
  BY <1>1
<1>4. \A i \in 1 .. Len(q) + Len(r) : ~(i <= Len(q)) => i - Len(q) \in 1 .. Len(r)
  BY <1>1
<1> DEFINE s == NumbersOf(q, kinds)
           t == NumbersOf(r, kinds)
           u == NumbersOf(q \o r, kinds)
<1>5. /\ s \in Seq(Nat) /\ t \in Seq(Nat) /\ u \in Seq(Nat)
      /\ Len(s) = Len(q) /\ Len(t) = Len(r) /\ Len(u) = Len(q) + Len(r)
  BY <1>1, NumbersOfSeq
<1>6. \A i \in 1 .. Len(q) : s[i] = Number(q[i], kinds)
  BY <1>1 DEF NumbersOf
<1>7. \A i \in 1 .. Len(r) : t[i] = Number(r[i], kinds)
  BY <1>1 DEF NumbersOf
<1>8. \A i \in 1 .. Len(q) + Len(r) : u[i] = Number((q \o r)[i], kinds)
  BY <1>1 DEF NumbersOf
<1> HIDE DEF s, t, u
<1>9. /\ s \o t \in Seq(Nat) /\ Len(s \o t) = Len(q) + Len(r)
      /\ \A i \in 1 .. Len(q) + Len(r) : (s \o t)[i] = IF i <= Len(q) THEN s[i] ELSE t[i - Len(q)]
  <2>1. /\ s \o t \in Seq(Nat) /\ Len(s \o t) = Len(s) + Len(t)
        /\ \A i \in 1 .. Len(s) + Len(t) : (s \o t)[i] = IF i <= Len(s) THEN s[i] ELSE t[i - Len(s)]
    <3>1. s \in Seq(Nat) /\ t \in Seq(Nat)
      BY <1>5
    <3>2. QED
      BY <3>1, ConcatProperties, Zenon
  <2>2. QED
    BY <1>5, <2>1
<1>10. ASSUME NEW i \in 1 .. Len(q) + Len(r)
       PROVE  u[i] = (s \o t)[i]
  <2>1. CASE i <= Len(q)
    <3>1. (q \o r)[i] = q[i] /\ (s \o t)[i] = s[i] /\ i \in 1 .. Len(q)
      BY <1>2, <1>3, <1>9, <2>1
    <3>2. QED
      BY <1>6, <1>8, <3>1
  <2>2. CASE ~(i <= Len(q))
    <3>1. (q \o r)[i] = r[i - Len(q)] /\ (s \o t)[i] = t[i - Len(q)]
          /\ i - Len(q) \in 1 .. Len(r)
      BY <1>2, <1>4, <1>9, <2>2
    <3>2. QED
      BY <1>7, <1>8, <3>1
  <2>3. QED
    BY <2>1, <2>2
<1>11. u = s \o t
  BY <1>5, <1>9, <1>10, SeqEqual
<1>12. QED
  BY <1>11 DEF s, t, u

LEMMA RiseOfConcat ==
    ASSUME NEW q \in Seq(Line), NEW r \in Seq(Line), NEW kinds
    PROVE  LET s == NumbersOf(q, kinds)
               t == NumbersOf(r, kinds)
               u == NumbersOf(q \o r, kinds)
           IN /\ Positive(u) = Positive(s) \union Positive(t)
              /\ Rising(u) <=> Rising(s) /\ Rising(t) /\ Below(Positive(s), Positive(t))
<1> DEFINE s == NumbersOf(q, kinds)
           t == NumbersOf(r, kinds)
<1>1. s \in Seq(Nat) /\ t \in Seq(Nat) /\ NumbersOf(q \o r, kinds) = s \o t
  BY NumbersOfSeq, NumbersOfConcat
<1> HIDE DEF s, t
<1>2. Positive(s \o t) = Positive(s) \union Positive(t)
  BY <1>1, PositiveConcat
<1>3. Rising(s \o t) <=> Rising(s) /\ Rising(t) /\ Below(Positive(s), Positive(t))
  BY <1>1, RisingConcat
<1>4. QED
  BY <1>1, <1>2, <1>3 DEF s, t

LEMMA OrderOfConcat ==
    ASSUME NEW q \in Seq(Line), NEW r \in Seq(Line)
    PROVE  /\ Stamps(q \o r) = Stamps(q) \union Stamps(r)
           /\ InOrder(q \o r) <=> InOrder(q) /\ InOrder(r) /\ Below(Stamps(q), Stamps(r))
  BY RiseOfConcat DEF Stamps, InOrder, StampsOf

LEMMA MarksOfConcat ==
    ASSUME NEW q \in Seq(Line), NEW r \in Seq(Line)
    PROVE  /\ q \o r \in Seq(Line)
           /\ Marks(q \o r) = Marks(q) \union Marks(r)
           /\ MarksRise(q \o r) <=> MarksRise(q) /\ MarksRise(r) /\ Below(Marks(q), Marks(r))
<1>1. q \o r \in Seq(Line)
  BY ConcatProperties
<1>2. QED
  BY <1>1, RiseOfConcat DEF Marks, MarksRise, MarksOf

LEMMA OrderOfEmpty ==
    Stamps(<<>>) = {} /\ InOrder(<<>>) /\ Marks(<<>>) = {} /\ MarksRise(<<>>)
  BY DEF Stamps, InOrder, Marks, MarksRise, Positive, Rising, StampsOf, MarksOf, NumbersOf

LEMMA OrderOfOne ==
    ASSUME NEW line \in Line
    PROVE  /\ <<line>> \in Seq(Line)
           /\ Stamps(<<line>>) = {Stamp(line)} \ {0} /\ InOrder(<<line>>)
           /\ Marks(<<line>>) = {Mark(line)} \ {0} /\ MarksRise(<<line>>)
  BY DEF Stamps, InOrder, Marks, MarksRise, Positive, Rising, StampsOf, MarksOf, NumbersOf, Stamp, Mark

LEMMA OrderOfAppend ==
    ASSUME NEW q \in Seq(Line), NEW line \in Line
    PROVE  /\ Stamps(Append(q, line)) = Stamps(q) \union ({Stamp(line)} \ {0})
           /\ InOrder(Append(q, line))
                 <=> InOrder(q) /\ Below(Stamps(q), {Stamp(line)} \ {0})
<1> DEFINE last == <<line>>
<1>1. /\ Append(q, line) = q \o last /\ last \in Seq(Line)
      /\ Stamps(last) = {Stamp(line)} \ {0} /\ InOrder(last)
  BY AppendIsConcat, OrderOfOne
<1> HIDE DEF last
<1>2. /\ Stamps(q \o last) = Stamps(q) \union Stamps(last)
      /\ InOrder(q \o last) <=> InOrder(q) /\ InOrder(last) /\ Below(Stamps(q), Stamps(last))
  BY <1>1, OrderOfConcat
<1>3. QED
  BY <1>1, <1>2

\* A queue is its first line and the rest, or its first n lines and the rest.
LEMMA HeadAndTail ==
    ASSUME NEW S, NEW q \in Seq(S), q # <<>>
    PROVE  q = <<Head(q)>> \o Tail(q) /\ Head(q) \in S /\ Tail(q) \in Seq(S)
<1>1. Head(q) \in S /\ Tail(q) \in Seq(S) /\ <<Head(q)>> \in Seq(S)
  BY HeadTailProperties
<1>2. Len(q) \in Nat \ {0}
  BY EmptySeq
<1>3. SubSeq(q, 1, Len(q)) = <<q[1]>> \o SubSeq(q, 2, Len(q))
  BY <1>2, SubSeqRecursiveFirst
<1>4. QED
  BY <1>1, <1>3, SubSeqFull, TailIsSubSeq

LEMMA FrontAndBeyond ==
    ASSUME NEW S, NEW q \in Seq(S), NEW n \in 0 .. Len(q)
    PROVE  q = Front(q, n) \o Beyond(q, n)
<1>1. Len(q) \in Nat
  BY LenProperties
<1>2. 1 \in 1 .. Len(q) + 1 /\ n \in 1 - 1 .. Len(q) /\ Len(q) \in n .. Len(q)
  BY <1>1
<1>3. SubSeq(q, 1, n) \o SubSeq(q, n + 1, Len(q)) = SubSeq(q, 1, Len(q))
  BY <1>2, ConcatAdjacentSubSeq
<1>4. QED
  BY <1>3, SubSeqFull DEF Front, Beyond

LEMMA OrderOfTail ==
    ASSUME NEW q \in Seq(Line), q # <<>>
    PROVE  /\ Stamps(q) = ({Stamp(Head(q))} \ {0}) \union Stamps(Tail(q))
           /\ InOrder(q) => InOrder(Tail(q)) /\ Below({Stamp(Head(q))} \ {0}, Stamps(Tail(q)))
<1> DEFINE first == <<Head(q)>>
           rest == Tail(q)
<1>1. q = first \o rest /\ first \in Seq(Line) /\ rest \in Seq(Line)
      /\ Stamps(first) = {Stamp(Head(q))} \ {0} /\ InOrder(first)
  BY HeadAndTail, OrderOfOne
<1> HIDE DEF first, rest
<1>2. /\ Stamps(first \o rest) = Stamps(first) \union Stamps(rest)
      /\ InOrder(first \o rest)
            <=> InOrder(first) /\ InOrder(rest) /\ Below(Stamps(first), Stamps(rest))
  BY <1>1, OrderOfConcat
<1>3. QED
  BY <1>1, <1>2 DEF rest

LEMMA OrderOfBeyond ==
    ASSUME NEW q \in Seq(Line), NEW n \in 0 .. Len(q)
    PROVE  /\ Stamps(q) = Stamps(Front(q, n)) \union Stamps(Beyond(q, n))
           /\ InOrder(q) => InOrder(Beyond(q, n))
                            /\ Below(Stamps(Front(q, n)), Stamps(Beyond(q, n)))
<1> DEFINE f == Front(q, n)
           b == Beyond(q, n)
<1>1. f \in Seq(Line) /\ b \in Seq(Line)
  BY FrontOfSeq, BeyondOfSeq
<1>2. q = f \o b
  BY FrontAndBeyond
<1> HIDE DEF f, b
<1>3. /\ Stamps(f \o b) = Stamps(f) \union Stamps(b)
      /\ InOrder(f \o b) <=> InOrder(f) /\ InOrder(b) /\ Below(Stamps(f), Stamps(b))
  BY <1>1, OrderOfConcat
<1>4. QED
  BY <1>2, <1>3 DEF f, b

\* Copies of context and of possibly new lines carry the ids of their lines
\* and no stamps.
LEMMA OrderOfCopies ==
    ASSUME NEW q \in Seq(Line)
    PROVE  /\ CopiesOf(q) \in Seq(Line)
           /\ Stamps(CopiesOf(q)) = {} /\ InOrder(CopiesOf(q))
           /\ Ids(CopiesOf(q)) = Ids(q) /\ OriginalIds(CopiesOf(q)) = {}
           /\ MarksOf(CopiesOf(q)) = NumbersOf(q, Kind)
<1>k. "recalled" \in Kind /\ "recalled" \in Presented /\ "recalled" \notin ServerKind
  BY DEF Kind, Presented, ServerKind
<1>1. Len(q) \in Nat /\ DOMAIN q = 1 .. Len(q) /\ \A i \in 1 .. Len(q) : q[i] \in Line
  BY LenProperties, ElementOfSeq
<1>2. DOMAIN CopiesOf(q) = DOMAIN q
      /\ \A i \in DOMAIN q : CopiesOf(q)[i] = [q[i] EXCEPT !.kind = "recalled"]
  BY DEF CopiesOf, Copies
<1>3. \A i \in DOMAIN q : /\ CopiesOf(q)[i].id = q[i].id /\ CopiesOf(q)[i].kind = "recalled"
                          /\ q[i].kind \in Kind
  BY <1>k, <1>1, <1>2, CopyOfLine DEF Line
<1>4. CopiesOf(q) \in Seq(Line)
  <2>1. \A line \in Line : [line EXCEPT !.kind = "recalled"] \in Line
    BY <1>k, CopyOfLine
  <2>2. QED
    BY <2>1, CopiesOfSeq DEF CopiesOf
<1>5. \A i \in DOMAIN q : /\ Number(CopiesOf(q)[i], ServerKind) = 0
                          /\ Number(CopiesOf(q)[i], Presented) = Number(q[i], Kind)
  BY <1>k, <1>3 DEF Number
<1> DEFINE c == CopiesOf(q)
<1>6. /\ DOMAIN c = DOMAIN q
      /\ \A i \in DOMAIN q : c[i].id = q[i].id /\ c[i].kind # "regular"
      /\ \A i \in DOMAIN q : /\ Number(c[i], ServerKind) = 0
                             /\ Number(c[i], Presented) = Number(q[i], Kind)
  BY <1>2, <1>3, <1>5
<1> HIDE DEF c
<1>7. Stamps(c) = {} /\ InOrder(c)
  BY <1>6 DEF Stamps, InOrder, Positive, Rising, StampsOf, NumbersOf
<1>8. Ids(c) = Ids(q) /\ OriginalIds(c) = {}
  BY <1>6 DEF Ids, OriginalIds
<1>9. MarksOf(c) = NumbersOf(q, Kind)
  BY <1>6 DEF MarksOf, NumbersOf
<1>10. QED
  BY <1>4, <1>7, <1>8, <1>9 DEF c

-----------------------------------------------------------------------------
(* Contents: which server lines a queue holds.                             *)

\* The server line that a line is, if it is one.
Original(line) == IF line.kind = "regular" THEN {line.id} ELSE {}

LEMMA ContentsOfConcat ==
    ASSUME NEW q \in Seq(Line), NEW r \in Seq(Line)
    PROVE  /\ q \o r \in Seq(Line)
           /\ Ids(q \o r) = Ids(q) \union Ids(r)
           /\ OriginalIds(q \o r) = OriginalIds(q) \union OriginalIds(r)
<1>1. /\ Len(q) \in Nat /\ Len(r) \in Nat /\ q \o r \in Seq(Line)
      /\ DOMAIN q = 1 .. Len(q) /\ DOMAIN r = 1 .. Len(r)
      /\ DOMAIN (q \o r) = 1 .. Len(q) + Len(r)
  BY LenProperties, ConcatProperties
<1>2. \A i \in 1 .. Len(q) : i \in 1 .. Len(q) + Len(r) /\ (q \o r)[i] = q[i]
  BY <1>1, ConcatProperties
<1>3. \A i \in 1 .. Len(r) : Len(q) + i \in 1 .. Len(q) + Len(r) /\ (q \o r)[Len(q) + i] = r[i]
  BY <1>1, ConcatProperties
<1>4. ASSUME NEW i \in 1 .. Len(q) + Len(r)
      PROVE  \/ \E j \in DOMAIN q : (q \o r)[i] = q[j]
             \/ \E j \in DOMAIN r : (q \o r)[i] = r[j]
  <2>1. CASE i <= Len(q)
    <3>1. i \in DOMAIN q
      BY <1>1, <2>1
    <3>2. QED
      BY <1>1, <1>2, <3>1
  <2>2. CASE i > Len(q)
    <3>1. i - Len(q) \in DOMAIN r /\ Len(q) + (i - Len(q)) = i
      BY <1>1, <2>2
    <3>2. QED
      BY <1>1, <1>3, <3>1
  <2>3. QED
    BY <1>1, <2>1, <2>2
<1> DEFINE qr == q \o r
<1>5. /\ \A i \in DOMAIN q : \E j \in DOMAIN qr : qr[j] = q[i]
      /\ \A i \in DOMAIN r : \E j \in DOMAIN qr : qr[j] = r[i]
      /\ \A i \in DOMAIN qr : (\E j \in DOMAIN q : qr[i] = q[j]) \/ \E j \in DOMAIN r : qr[i] = r[j]
  BY <1>1, <1>2, <1>3, <1>4
<1> HIDE DEF qr
<1>6. Ids(qr) = Ids(q) \union Ids(r)
  BY <1>5 DEF Ids
<1>7. OriginalIds(qr) = OriginalIds(q) \union OriginalIds(r)
  <2>1. \A s, id : id \in OriginalIds(s) <=> \E i \in DOMAIN s : s[i].kind = "regular" /\ id = s[i].id
    BY DEF OriginalIds
  <2>2. QED
    BY <1>5, <2>1
<1>8. QED
  BY <1>1, <1>6, <1>7 DEF qr

LEMMA ContentsOfEmpty == <<>> \in Seq(Line) /\ Ids(<<>>) = {} /\ OriginalIds(<<>>) = {}
  BY EmptySeq DEF Ids, OriginalIds

LEMMA ContentsOfOne ==
    ASSUME NEW line \in Line
    PROVE  /\ <<line>> \in Seq(Line)
           /\ Ids(<<line>>) = {line.id} \ {0} /\ OriginalIds(<<line>>) = Original(line)
  BY DEF Ids, OriginalIds, Original

LEMMA ContentsOfAppend ==
    ASSUME NEW q \in Seq(Line), NEW line \in Line
    PROVE  /\ Append(q, line) \in Seq(Line)
           /\ Ids(Append(q, line)) = Ids(q) \union ({line.id} \ {0})
           /\ OriginalIds(Append(q, line)) = OriginalIds(q) \union Original(line)
<1> DEFINE last == <<line>>
<1>1. /\ Append(q, line) = q \o last /\ last \in Seq(Line)
      /\ Ids(last) = {line.id} \ {0} /\ OriginalIds(last) = Original(line)
  BY AppendIsConcat, ContentsOfOne
<1> HIDE DEF last
<1>2. /\ q \o last \in Seq(Line)
      /\ Ids(q \o last) = Ids(q) \union Ids(last)
      /\ OriginalIds(q \o last) = OriginalIds(q) \union OriginalIds(last)
  BY <1>1, ContentsOfConcat
<1>3. QED
  BY <1>1, <1>2

LEMMA ContentsOfTail ==
    ASSUME NEW q \in Seq(Line), q # <<>>
    PROVE  /\ Head(q) \in Line /\ Tail(q) \in Seq(Line)
           /\ Ids(q) = ({Head(q).id} \ {0}) \union Ids(Tail(q))
           /\ OriginalIds(q) = Original(Head(q)) \union OriginalIds(Tail(q))
<1> DEFINE first == <<Head(q)>>
           rest == Tail(q)
<1>1. /\ q = first \o rest /\ first \in Seq(Line) /\ rest \in Seq(Line) /\ Head(q) \in Line
      /\ Ids(first) = {Head(q).id} \ {0} /\ OriginalIds(first) = Original(Head(q))
  BY HeadAndTail, ContentsOfOne
<1> HIDE DEF first, rest
<1>2. /\ Ids(first \o rest) = Ids(first) \union Ids(rest)
      /\ OriginalIds(first \o rest) = OriginalIds(first) \union OriginalIds(rest)
  BY <1>1, ContentsOfConcat
<1>3. QED
  BY <1>1, <1>2 DEF rest

LEMMA ContentsOfBeyond ==
    ASSUME NEW q \in Seq(Line), NEW n \in 0 .. Len(q)
    PROVE  /\ Front(q, n) \in Seq(Line) /\ Beyond(q, n) \in Seq(Line)
           /\ Ids(q) = Ids(Front(q, n)) \union Ids(Beyond(q, n))
           /\ OriginalIds(q) = OriginalIds(Front(q, n)) \union OriginalIds(Beyond(q, n))
<1>1. Front(q, n) \in Seq(Line) /\ Beyond(q, n) \in Seq(Line)
  BY FrontOfSeq, BeyondOfSeq
<1>2. q = Front(q, n) \o Beyond(q, n)
  BY FrontAndBeyond
<1>3. QED
  BY <1>1, <1>2, ContentsOfConcat

-----------------------------------------------------------------------------
(* Lines as mooproxy makes them: messages and checkpoints carry no arrival *)
(* number, server lines do.  In the queues that last, all numbers belong   *)
(* to server lines.                                                        *)

\* Lines as the code makes them; of those, what becomes history, what is kept
\* for the next client, what the server sends, and what a client gets besides
\* the lines that a session presents.
SoundLine ==
    {line \in Line : /\ line.kind \in {"message", "checkpoint"} => line.id = 0
                     /\ line.kind = "regular" => line.id # 0}
KeptLine == {line \in SoundLine : line.kind \in {"regular", "checkpoint"}}
WaitingLine == {line \in SoundLine : line.kind \notin DONTBUF}
ServerLine == {line \in SoundLine : line.kind \in ServerKind}
ExtraLine == {line \in SoundLine : Mark(line) = 0}

LEMMA SoundIsLine ==
    /\ SoundLine \subseteq Line /\ KeptLine \subseteq WaitingLine
    /\ \A q \in Seq(SoundLine) : q \in Seq(Line)
    /\ \A q \in Seq(KeptLine) : q \in Seq(SoundLine) /\ q \in Seq(WaitingLine) /\ q \in Seq(Line)
    /\ \A q \in Seq(WaitingLine) : q \in Seq(SoundLine) /\ q \in Seq(Line)
    /\ \A q \in Seq(ServerLine) : q \in Seq(SoundLine) /\ q \in Seq(Line)
    /\ \A q \in Seq(ExtraLine) : q \in Seq(SoundLine) /\ q \in Seq(Line)
<1>1. /\ SoundLine \subseteq Line /\ KeptLine \subseteq SoundLine /\ WaitingLine \subseteq SoundLine
      /\ ServerLine \subseteq SoundLine /\ ExtraLine \subseteq SoundLine
  BY DEF SoundLine, KeptLine, WaitingLine, ServerLine, ExtraLine
<1>2. KeptLine \subseteq WaitingLine
  BY DEF KeptLine, WaitingLine, DONTBUF
<1>3. QED
  BY <1>1, <1>2, SeqMonotonic

LEMMA SoundQueue ==
    ASSUME NEW q \in Seq(SoundLine)
    PROVE  /\ OriginalIds(q) \subseteq Stamps(q) /\ OriginalIds(q) \subseteq Ids(q)
           /\ OriginalIds(q) \subseteq Marks(q)
<1>1. \A i \in DOMAIN q : q[i] \in SoundLine
  BY LenProperties, ElementOfSeq
<1>2. /\ DOMAIN StampsOf(q) = DOMAIN q /\ \A i \in DOMAIN q : StampsOf(q)[i] = Stamp(q[i])
      /\ DOMAIN MarksOf(q) = DOMAIN q /\ \A i \in DOMAIN q : MarksOf(q)[i] = Mark(q[i])
  BY DEF StampsOf, Stamp, MarksOf, Mark, NumbersOf
<1>3. ASSUME NEW i \in DOMAIN q, q[i].kind = "regular"
      PROVE  q[i].id # 0 /\ Stamp(q[i]) = q[i].id /\ Mark(q[i]) = q[i].id
  BY <1>1, <1>3 DEF SoundLine, Stamp, Mark, Number, ServerKind, Presented
<1>4. ASSUME NEW id \in OriginalIds(q)
      PROVE  id \in Stamps(q) /\ id \in Ids(q) /\ id \in Marks(q)
  <2>1. PICK i \in DOMAIN q : q[i].kind = "regular" /\ id = q[i].id
    BY <1>4 DEF OriginalIds
  <2>2. id # 0 /\ StampsOf(q)[i] = id /\ MarksOf(q)[i] = id
    BY <1>2, <1>3, <2>1
  <2>3. QED
    BY <1>2, <2>1, <2>2 DEF Stamps, Marks, Positive, Ids
<1>5. QED
  BY <1>4

\* Of the lines that wait for the next client, those with a stamp are the
\* server's; it presents no others that have a number.
LEMMA WaitingQueue ==
    ASSUME NEW q \in Seq(WaitingLine)
    PROVE  /\ OriginalIds(q) = Stamps(q)
           /\ Marks(q) = Stamps(q) /\ (MarksRise(q) <=> InOrder(q))
<1>1. \A i \in DOMAIN q : q[i] \in WaitingLine
  BY LenProperties, ElementOfSeq
<1>2. \A i \in DOMAIN q : /\ q[i].kind # "mcp" /\ q[i].kind # "recalled"
                          /\ Number(q[i], ServerKind) = Number(q[i], Presented)
                          /\ Number(q[i], ServerKind) # 0
                                => q[i].kind = "regular" /\ Number(q[i], ServerKind) = q[i].id
  BY <1>1 DEF WaitingLine, DONTBUF, Number, ServerKind, Presented
<1>3. StampsOf(q) = MarksOf(q)
  BY <1>2 DEF StampsOf, MarksOf, NumbersOf
<1>4. Stamps(q) \subseteq OriginalIds(q)
  BY <1>2 DEF Stamps, Positive, StampsOf, NumbersOf, OriginalIds
<1>5. OriginalIds(q) \subseteq Stamps(q)
  BY SoundIsLine, SoundQueue
<1>6. QED
  BY <1>3, <1>4, <1>5 DEF Marks, Stamps, MarksRise, InOrder

\* In what becomes history all numbers are the server's, and the copies for a
\* new client have them.
LEMMA KeptQueue ==
    ASSUME NEW q \in Seq(KeptLine)
    PROVE  /\ Ids(q) = Stamps(q) /\ OriginalIds(q) = Stamps(q)
           /\ Marks(CopiesOf(q)) = Stamps(q) /\ (MarksRise(CopiesOf(q)) <=> InOrder(q))
<1>1. \A i \in DOMAIN q : q[i] \in KeptLine
  BY LenProperties, ElementOfSeq
<1>2. \A i \in DOMAIN q : /\ q[i].id # 0 => q[i].kind = "regular"
                          /\ Number(q[i], Kind) = Number(q[i], ServerKind)
  BY <1>1 DEF KeptLine, SoundLine, Number, Kind, ServerKind
<1>3. q \in Seq(SoundLine) /\ q \in Seq(Line) /\ q \in Seq(WaitingLine)
  BY SoundIsLine
<1>4. OriginalIds(q) = Stamps(q)
  BY <1>3, WaitingQueue
<1>5. Ids(q) \subseteq OriginalIds(q) /\ OriginalIds(q) \subseteq Ids(q)
  BY <1>2, <1>3, SoundQueue DEF Ids, OriginalIds
<1>6. MarksOf(CopiesOf(q)) = StampsOf(q)
  <2>1. MarksOf(CopiesOf(q)) = NumbersOf(q, Kind)
    BY <1>3, OrderOfCopies
  <2>2. NumbersOf(q, Kind) = NumbersOf(q, ServerKind)
    BY <1>2 DEF NumbersOf
  <2>3. QED
    BY <2>1, <2>2 DEF StampsOf
<1>7. QED
  BY <1>4, <1>5, <1>6 DEF Marks, Stamps, MarksRise, InOrder

LEMMA ServerQueue ==
    ASSUME NEW q \in Seq(ServerLine)
    PROVE  Marks(q) = Stamps(q) /\ (MarksRise(q) <=> InOrder(q)) /\ Ids(q) = Stamps(q)
<1>1. DOMAIN q = 1 .. Len(q) /\ \A i \in DOMAIN q : q[i] \in ServerLine
  BY LenProperties, ElementOfSeq
<1>2. \A i \in DOMAIN q : /\ Number(q[i], ServerKind) = q[i].id
                          /\ Number(q[i], Presented) = q[i].id
  BY <1>1 DEF ServerLine, Number, Presented
<1>3. StampsOf(q) = MarksOf(q)
  BY <1>2 DEF StampsOf, MarksOf, NumbersOf
<1>4. Ids(q) = Stamps(q)
  BY <1>2 DEF Ids, Stamps, Positive, StampsOf, NumbersOf
<1>5. QED
  BY <1>3, <1>4 DEF Marks, Stamps, MarksRise, InOrder

\* What a client gets besides has no stamps and no marks.
LEMMA ExtraQueue ==
    ASSUME NEW r \in Seq(ExtraLine)
    PROVE  /\ r \in Seq(Line) /\ r \in Seq(SoundLine)
           /\ Stamps(r) = {} /\ InOrder(r) /\ Marks(r) = {} /\ MarksRise(r)
           /\ OriginalIds(r) = {}
<1>1. DOMAIN r = 1 .. Len(r) /\ \A i \in DOMAIN r : r[i] \in ExtraLine
  BY LenProperties, ElementOfSeq
<1>2. \A i \in DOMAIN r : Number(r[i], Presented) = 0 /\ Number(r[i], ServerKind) = 0
  BY <1>1 DEF ExtraLine, Mark, Number, Presented
<1>3. Stamps(r) = {} /\ InOrder(r) /\ Marks(r) = {} /\ MarksRise(r)
  BY <1>2 DEF Stamps, InOrder, Marks, MarksRise, Positive, Rising, StampsOf, MarksOf, NumbersOf
<1>4. r \in Seq(Line) /\ r \in Seq(SoundLine)
  BY SoundIsLine
<1>5. QED
  BY <1>3, <1>4, SoundQueue

LEMMA ExtraAdds ==
    ASSUME NEW q \in Seq(Line), NEW r \in Seq(ExtraLine)
    PROVE  /\ q \o r \in Seq(Line)
           /\ Stamps(q \o r) = Stamps(q) /\ (InOrder(q \o r) <=> InOrder(q))
           /\ OriginalIds(q \o r) = OriginalIds(q)
           /\ Ids(q) \subseteq Ids(q \o r)
<1>1. r \in Seq(Line) /\ Stamps(r) = {} /\ InOrder(r) /\ OriginalIds(r) = {}
  BY ExtraQueue
<1>2. /\ Stamps(q \o r) = Stamps(q) \union Stamps(r)
      /\ InOrder(q \o r) <=> InOrder(q) /\ InOrder(r) /\ Below(Stamps(q), Stamps(r))
  BY <1>1, OrderOfConcat
<1>3. /\ q \o r \in Seq(Line)
      /\ Ids(q \o r) = Ids(q) \union Ids(r)
      /\ OriginalIds(q \o r) = OriginalIds(q) \union OriginalIds(r)
  BY <1>1, ContentsOfConcat
<1>4. Below(Stamps(q), Stamps(r))
  BY <1>1 DEF Below
<1>5. QED
  BY <1>1, <1>2, <1>3, <1>4

LEMMA MadeLines ==
    /\ Message \in ExtraLine /\ Checkpoint \in ExtraLine /\ McpLine \in ExtraLine
    /\ \A line \in {Message, Checkpoint, McpLine} :
          line.id = 0 /\ Stamp(line) = 0 /\ Mark(line) = 0 /\ Original(line) = {}
  BY DEF Message, Checkpoint, McpLine, ExtraLine, SoundLine, Line, Kind, ServerKind, Presented,
         Stamp, Mark, Number, Original

\* The copies that a user asks for are such lines.
LEMMA CopiesAreExtra ==
    ASSUME NEW line \in KeptLine
    PROVE  /\ [line EXCEPT !.kind = "found"] \in ExtraLine
           /\ [line EXCEPT !.kind = "redrawn"] \in ExtraLine
<1>1. line \in Line /\ {"found", "redrawn"} \subseteq Kind
  BY DEF KeptLine, SoundLine, Kind
<1>2. ASSUME NEW kind \in {"found", "redrawn"}
      PROVE  [line EXCEPT !.kind = kind] \in ExtraLine
  <2> DEFINE copy == [line EXCEPT !.kind = kind]
  <2>1. copy \in Line /\ copy.kind = kind
    BY <1>1, CopyOfLine
  <2> HIDE DEF copy
  <2>2. kind # "message" /\ kind # "checkpoint" /\ kind # "regular" /\ kind \notin Presented
    BY DEF Presented, ServerKind
  <2>3. copy \in ExtraLine
    BY <2>1, <2>2 DEF ExtraLine, SoundLine, Mark, Number
  <2>4. QED
    BY <2>3 DEF copy
<1>3. QED
  BY <1>2

\* The lines of each queue are of the kinds that the code puts there.
SoundInv ==
    /\ server_rxqueue \in Seq(ServerLine)
    /\ client_toqueue \in Seq(SoundLine) /\ client_txqueue \in Seq(SoundLine)
    /\ buffered_lines \in Seq(WaitingLine)
    /\ inactive_lines \in Seq(KeptLine) /\ history_lines \in Seq(KeptLine)

\* What the handlers besides the two dispatches and the promotion send.
Added == \E r \in Seq(ExtraLine) : client_toqueue' = client_toqueue \o r

LEMMA HandlersAdd ==
    ASSUME QueuesOK, SoundInv, Verify \/ Tick \/ DispatchClient \/ HandleFlags
    PROVE  Added
<1>1. \A line \in ExtraLine : /\ <<line>> \in Seq(ExtraLine)
                              /\ Append(client_toqueue, line) = client_toqueue \o <<line>>
  <2>1. ExtraLine \subseteq Line
    BY DEF ExtraLine, SoundLine
  <2>2. QED
    BY <2>1, AppendIsConcat DEF QueuesOK
<1>2. <<>> \in Seq(ExtraLine) /\ client_toqueue = client_toqueue \o <<>>
  BY EmptySeq, ConcatEmptySeq DEF QueuesOK
<1>3. CASE Verify
  BY <1>1, <1>2, <1>3, MadeLines DEF Verify, Added
<1>4. CASE Tick
  BY <1>1, <1>2, <1>4, MadeLines DEF Tick, Added
<1>5. CASE DispatchClient
  <2>1. ExtraLine \subseteq Line
    BY DEF ExtraLine, SoundLine
  <2>2. QED
    BY <1>5, <2>1, CommandAdds, CopiesAreExtra, MadeLines DEF Added, QueuesOK, SoundInv
<1>6. CASE HandleFlags
  BY <1>1, <1>2, <1>6, MadeLines DEF HandleFlags, Added
<1>7. QED
  BY <1>3, <1>4, <1>5, <1>6

LEMMA SoundStep == TypeOK /\ SoundInv /\ [Next]_vars => SoundInv'
<1> SUFFICES ASSUME TypeOK, SoundInv, [Next]_vars PROVE SoundInv'
  OBVIOUS
<1>q. QueuesOK
  BY DEF TypeOK
<1>h. InactiveToHistory => history_lines' \in Seq(KeptLine) /\ inactive_lines' \in Seq(KeptLine)
  BY ConcatProperties, EmptySeq DEF InactiveToHistory, SoundInv
<1>a. ASSUME Verify \/ Tick \/ DispatchClient \/ HandleFlags
      PROVE  client_toqueue' \in Seq(SoundLine)
  <2>1. PICK r \in Seq(ExtraLine) : client_toqueue' = client_toqueue \o r
    BY <1>a, <1>q, HandlersAdd DEF Added
  <2>2. r \in Seq(SoundLine) /\ client_toqueue \in Seq(SoundLine)
    BY SoundIsLine DEF SoundInv
  <2>3. QED
    BY <2>1, <2>2, ConcatProperties
<1>1. CASE Verify
  BY <1>1, <1>a DEF Verify, SoundInv
<1>2. CASE PromoteRefused \/ SkipSelect
  BY <1>2 DEF PromoteRefused, SkipSelect, queues, SoundInv
<1>3. CASE Promote
  <2>1. ASSUME NEW q \in Seq(KeptLine) PROVE CopiesOf(q) \in Seq(SoundLine)
    <3>1. \A line \in KeptLine : [line EXCEPT !.kind = "recalled"] \in SoundLine
      <4> TAKE line \in KeptLine
      <4>1. line \in Line /\ "recalled" \in Kind
        BY DEF KeptLine, SoundLine, Kind
      <4> DEFINE copy == [line EXCEPT !.kind = "recalled"]
      <4>2. copy \in Line /\ copy.kind = "recalled"
        BY <4>1, CopyOfLine
      <4> HIDE DEF copy
      <4>3. copy \in SoundLine
        BY <4>2 DEF SoundLine
      <4>4. QED
        BY <4>3 DEF copy
    <3>2. QED
      BY <3>1, CopiesOfSeq DEF CopiesOf
  <2>2. RecallHistory(ContextLines) \in Seq(SoundLine)
    <3>1. Last(history_lines, ContextLines) \in Seq(KeptLine)
      BY LastOfSeq DEF SoundInv
    <3>2. QED
      BY <2>1, <3>1 DEF RecallHistory
  <2>3. CopiesOf(inactive_lines) \in Seq(SoundLine) /\ buffered_lines \in Seq(SoundLine)
    BY <2>1, SoundIsLine DEF SoundInv
  <2>4. <<Message>> \in Seq(SoundLine) /\ <<McpLine>> \in Seq(SoundLine)
    BY MadeLines DEF ExtraLine
  <2>5. client_toqueue' \in Seq(SoundLine)
    <3>1. PICK handshake \in {<<>>, <<McpLine>>} :
            client_toqueue' =
               client_toqueue \o <<Message>> \o RecallHistory(ContextLines)
                  \o CopiesOf(inactive_lines) \o buffered_lines
                  \o <<Message>> \o handshake
      BY <1>3 DEF Promote
    <3>2. handshake \in Seq(SoundLine)
      BY <2>4, <3>1, EmptySeq
    <3>3. QED
      BY <3>1, <3>2, <2>2, <2>3, <2>4, ConcatProperties DEF SoundInv
  <2>6. QED
    BY <1>3, <2>5, EmptySeq DEF Promote, SoundInv
<1>4. CASE Select
  <2> PICK batch \in ServerBatches :
        /\ server_rxqueue' = server_rxqueue \o
              [i \in DOMAIN batch |-> [id |-> arrived + i, kind |-> batch[i]]]
    BY <1>4 DEF Select, ReadServer
  <2>1. /\ Len(batch) \in Nat /\ DOMAIN batch = 1 .. Len(batch)
        /\ \A i \in 1 .. Len(batch) : batch[i] \in ServerKind
    BY LenProperties, ElementOfSeq
  <2>2. \A i \in 1 .. Len(batch) : [id |-> arrived + i, kind |-> batch[i]] \in ServerLine
    BY <2>1 DEF ServerLine, SoundLine, Line, Kind, ServerKind, TypeOK, GhostsOK
  <2>3. [i \in DOMAIN batch |-> [id |-> arrived + i, kind |-> batch[i]]] \in Seq(ServerLine)
    BY <2>1, <2>2, FunctionIsSeq
  <2>4. server_rxqueue' \in Seq(ServerLine)
    BY <2>3, ConcatProperties DEF SoundInv
  <2>5. QED
    BY <1>4, <2>4 DEF Select, SoundInv
<1>5. CASE Tick
  BY <1>5, <1>a DEF Tick, SoundInv
<1>6. CASE DispatchServer
  BY <1>6, SoundIsLine, ConcatProperties, EmptySeq DEF DispatchServer, SoundInv
<1>7. CASE DispatchClient
  <2>1. UNCHANGED <<buffered_lines, server_rxqueue, client_txqueue>>
    BY <1>7 DEF DispatchClient
  <2>2. QED
    BY <1>7, <1>a, <1>h, <2>1, CommandKeeps, EmptySeq DEF SoundInv
<1>8. CASE MergeToQueue
  BY <1>8, ConcatProperties, EmptySeq DEF MergeToQueue, SoundInv
<1>9. CASE Unqueue
  <2>1. Head(client_txqueue) \in SoundLine /\ client_txqueue' \in Seq(SoundLine)
    BY <1>9, HeadTailProperties DEF Unqueue, SoundInv
  <2>2. CASE Head(client_txqueue).kind \in DONTBUF
    BY <1>9, <2>1, <2>2 DEF Unqueue, SoundInv
  <2>3. CASE Head(client_txqueue).kind \notin DONTBUF
    <3>1. Head(client_txqueue) \in WaitingLine
      BY <2>1, <2>3 DEF WaitingLine
    <3>2. QED
      BY <1>9, <2>1, <2>3, <3>1, AppendProperties DEF Unqueue, SoundInv
  <2>4. QED
    BY <2>2, <2>3
<1>10. CASE Fill
  <2>1. Head(client_txqueue) \in SoundLine /\ client_txqueue' \in Seq(SoundLine)
    BY <1>10, HeadTailProperties DEF Fill, CanFill, SoundInv
  <2>2. CASE Head(client_txqueue).kind \in NOHIST
    BY <1>10, <2>1, <2>2 DEF Fill, SoundInv
  <2>3. CASE Head(client_txqueue).kind \notin NOHIST
    <3>1. Head(client_txqueue) \in KeptLine
      BY <2>1, <2>3 DEF KeptLine, SoundLine, Line, Kind, ServerKind, NOHIST
    <3>2. QED
      BY <1>10, <2>1, <2>3, <3>1, AppendProperties DEF Fill, SoundInv
  <2>4. QED
    BY <2>2, <2>3
<1>11. CASE Write \/ FlushDone \/ UnqueueDone
  BY <1>11 DEF Write, FlushDone, UnqueueDone, queues, SoundInv
<1>12. CASE Trim
  <2>1. UNCHANGED <<server_rxqueue, client_toqueue, client_txqueue>>
    BY <1>12 DEF Trim
  <2>2. QED
    BY <1>12, <1>q, <2>1, TrimCuts, BeyondOfSeq DEF SoundInv
<1>13. CASE HandleFlags
  BY <1>13, <1>h, <1>a DEF HandleFlags, SoundInv
<1>14. CASE UNCHANGED vars
  BY <1>14 DEF vars, queues, SoundInv
<1>15. QED
  BY <1>1, <1>2, <1>3, <1>4, <1>5, <1>6, <1>7, <1>8, <1>9, <1>10, <1>11, <1>12, <1>13, <1>14
     DEF Next, WaitForNetwork, Dispatch, Flush

-----------------------------------------------------------------------------
(* What each phase finds.                                                  *)

LEMMA NoIds ==
    ASSUME NEW q \in Seq(Line), Ids(q) = {}
    PROVE  Stamps(q) = {} /\ InOrder(q) /\ Marks(q) = {} /\ MarksRise(q)
<1>1. \A i \in DOMAIN q : q[i].id = 0
  BY DEF Ids
<1>2. /\ DOMAIN StampsOf(q) = DOMAIN q /\ DOMAIN MarksOf(q) = DOMAIN q
      /\ \A i \in DOMAIN q : StampsOf(q)[i] = 0 /\ MarksOf(q)[i] = 0
  BY <1>1 DEF StampsOf, MarksOf, NumbersOf, Number
<1>3. QED
  BY <1>2 DEF Stamps, InOrder, Marks, MarksRise, Positive, Rising

\* What each phase of the loop finds: the queues that phases before it have
\* emptied, and nothing of a client that is gone.
PhaseInv ==
    /\ pc \notin {"timer", "server"} => server_rxqueue = <<>>
    /\ pc \in {"unqueue", "flush", "trim", "flags", "net"} => Ids(client_toqueue) = {}
    /\ pc # "unqueue" => buffered_lines = <<>> \/ client_txqueue = <<>>
    /\ client_status = "DISCONNECTED" =>
          client_txbuffer = <<>> /\ client_rxqueue = <<>> /\ "ACTIVATED" \notin flags
    /\ pc \notin {"timer", "server", "client"} => client_rxqueue = <<>>
    /\ pc \in {"net", "timer", "server"} => "ACTIVATED" \notin flags

LEMMA PhaseStep == TypeOK /\ AwayInv /\ PhaseInv /\ [Next]_vars => PhaseInv'
<1> SUFFICES ASSUME TypeOK, AwayInv, PhaseInv, [Next]_vars PROVE PhaseInv'
  OBVIOUS
<1>q. QueuesOK /\ client_status \in {"DISCONNECTED", "CONNECTED"} /\ client_rxqueue \in Seq(Command)
  BY DEF TypeOK, LoopOK
<1>1. CASE Verify
  BY <1>1 DEF Verify, PhaseInv
<1>2. CASE PromoteRefused \/ SkipSelect
  BY <1>2 DEF PromoteRefused, SkipSelect, queues, auth, PhaseInv
<1>3. CASE Promote
  BY <1>3 DEF Promote, PhaseInv
<1>4. CASE Select
  BY <1>4 DEF Select, DisconnectClient, PhaseInv
<1>5. CASE Tick
  BY <1>5 DEF Tick, auth, PhaseInv
<1>6. CASE DispatchServer
  BY <1>6 DEF DispatchServer, auth, PhaseInv
<1>7. CASE DispatchClient
  <2>1. pc = "client" /\ pc' = "client" /\ client_rxqueue # <<>>
        /\ UNCHANGED <<buffered_lines, server_rxqueue, client_txqueue, client_txbuffer, client_status>>
    BY <1>7 DEF DispatchClient, auth
  <2>2. client_status = "CONNECTED"
    BY <1>q, <2>1 DEF PhaseInv
  <2>3. QED
    BY <2>1, <2>2 DEF PhaseInv
<1>8. CASE MergeToQueue
  <2>1. client_toqueue' = <<>> /\ Ids(<<>>) = {}
    BY <1>8, ContentsOfEmpty DEF MergeToQueue
  <2>2. client_status = "CONNECTED" => buffered_lines = <<>>
    BY DEF AwayInv, BufferedOnlyWhileAway
  <2>3. QED
    BY <1>8, <1>q, <2>1, <2>2 DEF MergeToQueue, AfterMerge, auth, PhaseInv
<1>9. CASE Unqueue
  BY <1>9 DEF Unqueue, auth, PhaseInv
<1>10. CASE UnqueueDone \/ FlushDone
  BY <1>10 DEF UnqueueDone, FlushDone, auth, queues, PhaseInv
<1>11. CASE Fill
  BY <1>11 DEF Fill, auth, PhaseInv, AwayInv, BufferedOnlyWhileAway
<1>12. CASE Write
  BY <1>12 DEF Write, auth, PhaseInv
<1>13. CASE Trim
  <2>1. buffered_lines = <<>> => buffered_lines' = <<>>
    <3> SUFFICES ASSUME buffered_lines = <<>> PROVE buffered_lines' = <<>>
      OBVIOUS
    <3>1. Len(buffered_lines) = 0
      BY EmptySeq
    <3>2. cutBuffered \in 0 .. 0 /\ buffered_lines' = Beyond(buffered_lines, cutBuffered)
      BY <1>13, <1>q, <3>1, TrimCuts
    <3>3. Beyond(buffered_lines, 0) = <<>>
      BY <3>1, SubSeqEmpty DEF Beyond
    <3>4. QED
      BY <3>2, <3>3
  <2>2. QED
    BY <1>13, <2>1 DEF Trim, auth, PhaseInv
<1>14. CASE HandleFlags
  <2>1. Ids(client_toqueue') = {}
    <3>1. Ids(client_toqueue) = {}
      BY <1>14 DEF HandleFlags, PhaseInv
    <3>2. Ids(Append(client_toqueue, Message)) = Ids(client_toqueue) \union ({Message.id} \ {0})
      BY <1>q, ContentsOfAppend, MessageIsLine DEF QueuesOK
    <3>3. QED
      BY <1>14, <3>1, <3>2 DEF HandleFlags, Message
  <2>2. QED
    BY <1>14, <2>1 DEF HandleFlags, DisconnectClient, PhaseInv
<1>15. CASE UNCHANGED vars
  BY <1>15 DEF vars, auth, queues, PhaseInv
<1>16. QED
  BY <1>1, <1>2, <1>3, <1>4, <1>5, <1>6, <1>7, <1>8, <1>9, <1>10, <1>11, <1>12, <1>13, <1>14, <1>15
     DEF Next, WaitForNetwork, Dispatch, Flush

-----------------------------------------------------------------------------
(* Server lines are kept in arrival order.                                 *)

\* Each queue is in order, and along the way of a line each queue's numbers are
\* below those of the queues it can not have reached yet.  ArrivalOrder alone
\* is not inductive: it says nothing of which lines a new client is sent.
OrderInv ==
    /\ InOrder(history_lines) /\ InOrder(inactive_lines) /\ InOrder(buffered_lines)
    /\ InOrder(client_txqueue) /\ InOrder(client_toqueue) /\ InOrder(server_rxqueue)
    /\ Below(Stamps(history_lines),
             Stamps(inactive_lines) \union Stamps(buffered_lines) \union Stamps(client_txqueue)
                \union Stamps(client_toqueue) \union Stamps(server_rxqueue))
    /\ Below(Stamps(inactive_lines),
             Stamps(buffered_lines) \union Stamps(client_txqueue)
                \union Stamps(client_toqueue) \union Stamps(server_rxqueue))
    /\ Below(Stamps(buffered_lines),
             Stamps(client_txqueue) \union Stamps(client_toqueue) \union Stamps(server_rxqueue))
    /\ Below(Stamps(client_txqueue), Stamps(client_toqueue) \union Stamps(server_rxqueue))
    /\ Below(Stamps(client_toqueue), Stamps(server_rxqueue))
    /\ Stamps(history_lines) \union Stamps(inactive_lines) \union Stamps(buffered_lines)
          \union Stamps(client_txqueue) \union Stamps(client_toqueue)
          \union Stamps(server_rxqueue) \subseteq 1 .. arrived

\* Of the lines that a new client is sent only those that were buffered have
\* stamps: the context and the possibly new lines are copies.
LEMMA PromoteStamps ==
    ASSUME QueuesOK, PhaseInv, InOrder(buffered_lines), Promote
    PROVE  Stamps(client_toqueue') = Stamps(buffered_lines) /\ InOrder(client_toqueue')
<1>1. PICK handshake \in {<<>>, <<McpLine>>} :
        client_toqueue' =
           client_toqueue \o <<Message>> \o RecallHistory(ContextLines)
              \o CopiesOf(inactive_lines) \o buffered_lines
              \o <<Message>> \o handshake
  BY DEF Promote
<1> DEFINE q1 == client_toqueue \o <<Message>>
           q2 == q1 \o RecallHistory(ContextLines)
           q3 == q2 \o CopiesOf(inactive_lines)
           q4 == q3 \o buffered_lines
           q5 == q4 \o <<Message>>
<1>2. \A q, r \in Seq(Line) :
         /\ q \o r \in Seq(Line)
         /\ Stamps(q \o r) = Stamps(q) \union Stamps(r)
         /\ Stamps(q) = {} \/ Stamps(r) = {} => (InOrder(q) /\ InOrder(r) => InOrder(q \o r))
  BY OrderOfConcat, ConcatProperties DEF Below
<1>3. client_toqueue \in Seq(Line) /\ Stamps(client_toqueue) = {} /\ InOrder(client_toqueue)
  BY NoIds DEF Promote, PhaseInv, QueuesOK
<1>4. <<Message>> \in Seq(Line) /\ Stamps(<<Message>>) = {} /\ InOrder(<<Message>>)
  BY MessageIsLine, MadeLines, OrderOfOne
<1>5. handshake \in Seq(Line) /\ Stamps(handshake) = {} /\ InOrder(handshake)
  <2>1. <<McpLine>> \in Seq(Line) /\ Stamps(<<McpLine>>) = {} /\ InOrder(<<McpLine>>)
    BY McpLineIsLine, MadeLines, OrderOfOne
  <2>2. <<>> \in Seq(Line) /\ Stamps(<<>>) = {} /\ InOrder(<<>>)
    BY OrderOfEmpty, EmptySeq
  <2>3. QED
    BY <1>1, <2>1, <2>2
<1>6. LET r == RecallHistory(ContextLines)
      IN r \in Seq(Line) /\ Stamps(r) = {} /\ InOrder(r)
  <2>1. Last(history_lines, ContextLines) \in Seq(Line)
    BY LastOfSeq DEF QueuesOK
  <2>2. QED
    BY <2>1, OrderOfCopies DEF RecallHistory
<1>7. LET r == CopiesOf(inactive_lines)
      IN r \in Seq(Line) /\ Stamps(r) = {} /\ InOrder(r)
  BY OrderOfCopies DEF QueuesOK
<1>8. buffered_lines \in Seq(Line) /\ InOrder(buffered_lines)
  BY DEF QueuesOK
<1>9. q1 \in Seq(Line) /\ Stamps(q1) = {} /\ InOrder(q1)
  BY <1>2, <1>3, <1>4
<1> HIDE DEF q1
<1>10. q2 \in Seq(Line) /\ Stamps(q2) = {} /\ InOrder(q2)
  BY <1>2, <1>6, <1>9
<1> HIDE DEF q2
<1>11. q3 \in Seq(Line) /\ Stamps(q3) = {} /\ InOrder(q3)
  BY <1>2, <1>7, <1>10
<1> HIDE DEF q3
<1>12. q4 \in Seq(Line) /\ Stamps(q4) = Stamps(buffered_lines) /\ InOrder(q4)
  BY <1>2, <1>8, <1>11
<1> HIDE DEF q4
<1> DEFINE end == <<Message>>
<1>e. end \in Seq(Line) /\ Stamps(end) = {} /\ InOrder(end) /\ q5 = q4 \o end
  BY <1>4
<1> HIDE DEF end, q5
<1>13. q5 \in Seq(Line) /\ Stamps(q5) = Stamps(buffered_lines) /\ InOrder(q5)
  <2>1. /\ q4 \o end \in Seq(Line) /\ Stamps(q4 \o end) = Stamps(q4) \union Stamps(end)
        /\ InOrder(q4) /\ InOrder(end) => InOrder(q4 \o end)
    BY <1>2, <1>12, <1>e
  <2>2. QED
    BY <1>12, <1>e, <2>1
<1>14. Stamps(q5 \o handshake) = Stamps(buffered_lines) /\ InOrder(q5 \o handshake)
  <2>1. /\ Stamps(q5 \o handshake) = Stamps(q5) \union Stamps(handshake)
        /\ InOrder(q5) /\ InOrder(handshake) => InOrder(q5 \o handshake)
    BY <1>2, <1>5, <1>13
  <2>2. QED
    BY <1>5, <1>13, <2>1
<1>15. QED
  BY <1>1, <1>14 DEF q1, q2, q3, q4, q5

LEMMA OrderStep ==
    TypeOK /\ AwayInv /\ SoundInv /\ PhaseInv /\ OrderInv /\ [Next]_vars => OrderInv'
<1> SUFFICES ASSUME TypeOK, AwayInv, SoundInv, PhaseInv, OrderInv, [Next]_vars PROVE OrderInv'
  OBVIOUS
<1>q. QueuesOK /\ arrived \in Nat
  BY DEF TypeOK, GhostsOK
\* Steps that only take lines away, or add lines without a number.
<1>u. ASSUME Stamps(history_lines') \subseteq Stamps(history_lines),
             Stamps(inactive_lines') \subseteq Stamps(inactive_lines),
             Stamps(buffered_lines') \subseteq Stamps(buffered_lines),
             Stamps(client_txqueue') \subseteq Stamps(client_txqueue),
             Stamps(client_toqueue') \subseteq Stamps(client_toqueue),
             Stamps(server_rxqueue') \subseteq Stamps(server_rxqueue),
             InOrder(history_lines') /\ InOrder(inactive_lines') /\ InOrder(buffered_lines'),
             InOrder(client_txqueue') /\ InOrder(client_toqueue') /\ InOrder(server_rxqueue'),
             arrived' = arrived
      PROVE  OrderInv'
  BY <1>u DEF OrderInv, Below
<1>c. ASSUME Verify \/ Tick \/ DispatchClient \/ HandleFlags
      PROVE  Stamps(client_toqueue') = Stamps(client_toqueue) /\ InOrder(client_toqueue')
  <2>1. PICK r \in Seq(ExtraLine) : client_toqueue' = client_toqueue \o r
    BY <1>c, <1>q, HandlersAdd DEF Added
  <2>2. client_toqueue \in Seq(Line) /\ InOrder(client_toqueue)
    BY <1>q DEF QueuesOK, OrderInv
  <2>3. QED
    BY <2>1, <2>2, ExtraAdds
<1>h. ASSUME InactiveToHistory
      PROVE  /\ Stamps(history_lines') = Stamps(history_lines) \union Stamps(inactive_lines)
             /\ Stamps(inactive_lines') = {}
             /\ InOrder(history_lines') /\ InOrder(inactive_lines')
  <2>1. /\ Stamps(history_lines \o inactive_lines) = Stamps(history_lines) \union Stamps(inactive_lines)
        /\ InOrder(history_lines \o inactive_lines)
              <=> /\ InOrder(history_lines) /\ InOrder(inactive_lines)
                  /\ Below(Stamps(history_lines), Stamps(inactive_lines))
    BY <1>q, OrderOfConcat DEF QueuesOK
  <2>2. QED
    BY <1>h, <2>1, OrderOfEmpty DEF InactiveToHistory, OrderInv, Below
\* What becomes history was possibly new, so nothing overtakes anything.
<1>r. ASSUME InactiveToHistory,
             UNCHANGED <<buffered_lines, client_txqueue, server_rxqueue, arrived>>,
             Stamps(client_toqueue') = Stamps(client_toqueue) /\ InOrder(client_toqueue')
      PROVE  OrderInv'
  BY <1>h, <1>r DEF OrderInv, Below
<1>1. CASE Verify
  <2>1. Stamps(client_toqueue') = Stamps(client_toqueue) /\ InOrder(client_toqueue')
    BY <1>1, <1>c
  <2>2. QED
    BY <1>1, <1>u, <2>1 DEF Verify, ghosts, OrderInv
<1>2. CASE PromoteRefused \/ SkipSelect
  BY <1>2 DEF PromoteRefused, SkipSelect, queues, ghosts, OrderInv
<1>3. CASE Promote
  <2>1. Stamps(client_toqueue') = Stamps(buffered_lines) /\ InOrder(client_toqueue')
    BY <1>3, <1>q, PromoteStamps DEF OrderInv
  <2>2. Stamps(buffered_lines) = {} \/ Stamps(client_txqueue) = {}
    BY <1>3, OrderOfEmpty DEF Promote, PhaseInv
  <2>3. /\ Stamps(buffered_lines') = {} /\ InOrder(buffered_lines')
        /\ UNCHANGED <<history_lines, inactive_lines, client_txqueue, server_rxqueue, arrived>>
    BY <1>3, OrderOfEmpty DEF Promote
  <2>4. QED
    BY <2>1, <2>2, <2>3 DEF OrderInv, Below
<1>4. CASE Select
  <2>1. /\ Stamps(server_rxqueue') \subseteq 1 .. arrived'
        /\ \A n \in Stamps(server_rxqueue') : n > arrived
        /\ InOrder(server_rxqueue')
        /\ arrived' \in Nat /\ arrived' >= arrived
    <3> PICK batch \in ServerBatches :
          /\ arrived' = arrived + Len(batch)
          /\ server_rxqueue' = server_rxqueue \o
                [i \in DOMAIN batch |-> [id |-> arrived + i, kind |-> batch[i]]]
      BY <1>4 DEF Select, ReadServer
    <3> DEFINE new == [i \in DOMAIN batch |-> [id |-> arrived + i, kind |-> batch[i]]]
    <3>1. /\ Len(batch) \in Nat /\ DOMAIN batch = 1 .. Len(batch)
          /\ \A i \in 1 .. Len(batch) : batch[i] \in ServerKind
      BY LenProperties, ElementOfSeq
    <3>2. /\ DOMAIN new = 1 .. Len(batch) /\ new \in Seq(Line)
          /\ \A i \in 1 .. Len(batch) : new[i].id = arrived + i /\ new[i].kind \in ServerKind
      <4>1. \A i \in 1 .. Len(batch) : [id |-> arrived + i, kind |-> batch[i]] \in Line
        BY <3>1, <1>q DEF Line, Kind
      <4>2. QED
        BY <3>1, <4>1, FunctionIsSeq
    <3>3. server_rxqueue' = new
      <4>1. server_rxqueue = <<>>
        BY <1>4 DEF Select, PhaseInv
      <4>2. QED
        BY <3>2, <4>1, ConcatEmptySeq
    <3> HIDE DEF new
    <3>4. /\ DOMAIN StampsOf(new) = 1 .. Len(batch)
          /\ \A i \in 1 .. Len(batch) : StampsOf(new)[i] = arrived + i
      BY <3>2 DEF StampsOf, NumbersOf, Number
    <3>5. \A n \in Stamps(new) : n \in 1 .. arrived' /\ n > arrived
      <4> SUFFICES ASSUME NEW i \in 1 .. Len(batch)
                   PROVE  arrived + i \in 1 .. arrived' /\ arrived + i > arrived
        BY <3>4 DEF Stamps, Positive
      <4>1. QED
        BY <1>q, <3>1
    <3>6. InOrder(new)
      BY <1>q, <3>1, <3>4 DEF InOrder, Rising
    <3>7. arrived' \in Nat /\ arrived' >= arrived
      BY <1>q, <3>1
    <3>8. QED
      BY <3>3, <3>5, <3>6, <3>7
  <2>2. UNCHANGED <<history_lines, inactive_lines, buffered_lines, client_txqueue, client_toqueue>>
    BY <1>4 DEF Select
  <2> DEFINE Old == Stamps(history_lines) \union Stamps(inactive_lines)
                       \union Stamps(buffered_lines) \union Stamps(client_txqueue)
                       \union Stamps(client_toqueue)
  <2>3. Old \subseteq 1 .. arrived
    BY DEF OrderInv
  <2>4. Below(Old, Stamps(server_rxqueue'))
    BY <1>q, <2>1, <2>3 DEF Below
  <2>5. Old \subseteq 1 .. arrived'
    BY <1>q, <2>1, <2>3
  <2>6. QED
    BY <2>1, <2>2, <2>4, <2>5 DEF OrderInv, Below
<1>5. CASE Tick
  <2>1. Stamps(client_toqueue') = Stamps(client_toqueue) /\ InOrder(client_toqueue')
    BY <1>5, <1>c
  <2>2. QED
    BY <1>5, <1>u, <2>1 DEF Tick, ghosts, OrderInv
<1>6. CASE DispatchServer
  <2>1. /\ Stamps(client_toqueue') = Stamps(client_toqueue) \union Stamps(server_rxqueue)
        /\ InOrder(client_toqueue')
              <=> /\ InOrder(client_toqueue) /\ InOrder(server_rxqueue)
                  /\ Below(Stamps(client_toqueue), Stamps(server_rxqueue))
        /\ Stamps(server_rxqueue') = {} /\ InOrder(server_rxqueue')
    BY <1>6, <1>q, OrderOfConcat, OrderOfEmpty DEF DispatchServer, QueuesOK
  <2>2. UNCHANGED <<history_lines, inactive_lines, buffered_lines, client_txqueue, arrived>>
    BY <1>6 DEF DispatchServer, ghosts
  <2>3. QED
    BY <2>1, <2>2 DEF OrderInv, Below
<1>7. CASE DispatchClient
  <2>1. UNCHANGED <<buffered_lines, server_rxqueue, client_txqueue, arrived>>
    BY <1>7 DEF DispatchClient
  <2>2. Stamps(client_toqueue') = Stamps(client_toqueue) /\ InOrder(client_toqueue')
    BY <1>7, <1>c
  <2>3. CASE InactiveToHistory
    BY <1>r, <2>1, <2>2, <2>3
  <2>4. CASE UNCHANGED <<inactive_lines, history_lines>>
    BY <1>u, <2>1, <2>2, <2>4 DEF OrderInv
  <2>5. CASE inactive_lines' = <<>> /\ history_lines' = <<>>
    BY <1>u, <2>1, <2>2, <2>5, OrderOfEmpty DEF OrderInv
  <2>6. QED
    BY <1>7, <2>3, <2>4, <2>5, CommandKeeps
<1>8. CASE MergeToQueue
  <2>1. /\ Stamps(client_txqueue') = Stamps(client_txqueue) \union Stamps(client_toqueue)
        /\ InOrder(client_txqueue')
              <=> /\ InOrder(client_txqueue) /\ InOrder(client_toqueue)
                  /\ Below(Stamps(client_txqueue), Stamps(client_toqueue))
        /\ Stamps(client_toqueue') = {} /\ InOrder(client_toqueue')
    BY <1>8, <1>q, OrderOfConcat, OrderOfEmpty DEF MergeToQueue, QueuesOK
  <2>2. UNCHANGED <<history_lines, inactive_lines, buffered_lines, server_rxqueue, arrived>>
    BY <1>8 DEF MergeToQueue, ghosts
  <2>3. QED
    BY <2>1, <2>2 DEF OrderInv, Below
<1>t. ASSUME client_txqueue # <<>>
      PROVE  /\ Head(client_txqueue) \in Line
             /\ Stamps(client_txqueue) =
                   ({Stamp(Head(client_txqueue))} \ {0}) \union Stamps(Tail(client_txqueue))
             /\ InOrder(Tail(client_txqueue))
             /\ Below({Stamp(Head(client_txqueue))} \ {0}, Stamps(Tail(client_txqueue)))
  BY <1>q, <1>t, OrderOfTail, HeadTailProperties DEF QueuesOK, OrderInv
<1>9. CASE Unqueue
  <2>1. client_txqueue # <<>> /\ client_txqueue' = Tail(client_txqueue)
        /\ UNCHANGED <<history_lines, inactive_lines, client_toqueue, server_rxqueue, arrived>>
    BY <1>9 DEF Unqueue, ghosts
  <2>2. CASE buffered_lines' = buffered_lines
    BY <1>t, <1>u, <2>1, <2>2 DEF OrderInv
  <2>3. CASE buffered_lines' = Append(buffered_lines, Head(client_txqueue))
    <3>1. /\ Stamps(buffered_lines') =
                Stamps(buffered_lines) \union ({Stamp(Head(client_txqueue))} \ {0})
          /\ InOrder(buffered_lines')
                <=> /\ InOrder(buffered_lines)
                    /\ Below(Stamps(buffered_lines), {Stamp(Head(client_txqueue))} \ {0})
      BY <1>q, <1>t, <2>1, <2>3, OrderOfAppend DEF QueuesOK
    <3>2. QED
      BY <1>t, <2>1, <3>1 DEF OrderInv, Below
  <2>4. QED
    BY <1>9, <2>2, <2>3 DEF Unqueue
<1>10. CASE Fill
  <2>1. client_txqueue # <<>> /\ client_txqueue' = Tail(client_txqueue)
        /\ UNCHANGED <<history_lines, buffered_lines, client_toqueue, server_rxqueue, arrived>>
    BY <1>10 DEF Fill, CanFill, ghosts
  <2>2. CASE inactive_lines' = inactive_lines
    BY <1>t, <1>u, <2>1, <2>2 DEF OrderInv
  <2>3. CASE inactive_lines' = Append(inactive_lines, Head(client_txqueue))
    <3>1. /\ Stamps(inactive_lines') =
                Stamps(inactive_lines) \union ({Stamp(Head(client_txqueue))} \ {0})
          /\ InOrder(inactive_lines')
                <=> /\ InOrder(inactive_lines)
                    /\ Below(Stamps(inactive_lines), {Stamp(Head(client_txqueue))} \ {0})
      BY <1>q, <1>t, <2>1, <2>3, OrderOfAppend DEF QueuesOK
    <3>2. Stamps(buffered_lines) = {}
      BY <1>10, OrderOfEmpty DEF Fill, AwayInv, BufferedOnlyWhileAway
    <3>3. QED
      BY <1>t, <2>1, <3>1, <3>2 DEF OrderInv, Below
  <2>4. QED
    BY <1>10, <2>2, <2>3 DEF Fill
<1>11. CASE Write \/ FlushDone \/ UnqueueDone
  BY <1>11 DEF Write, FlushDone, UnqueueDone, queues, ghosts, OrderInv
<1>12. CASE Trim
  <2>1. UNCHANGED <<server_rxqueue, client_toqueue, client_txqueue, arrived>>
    BY <1>12 DEF Trim
  <2>2. \A q \in Seq(Line) : \A n \in 0 .. Len(q) :
           InOrder(q) => Stamps(Beyond(q, n)) \subseteq Stamps(q) /\ InOrder(Beyond(q, n))
    BY OrderOfBeyond
  <2>3. /\ Stamps(history_lines') \subseteq Stamps(history_lines) /\ InOrder(history_lines')
        /\ Stamps(inactive_lines') \subseteq Stamps(inactive_lines) /\ InOrder(inactive_lines')
        /\ Stamps(buffered_lines') \subseteq Stamps(buffered_lines) /\ InOrder(buffered_lines')
    BY <1>12, <1>q, <2>2, TrimCuts DEF QueuesOK, OrderInv
  <2>4. QED
    BY <1>u, <2>1, <2>3 DEF OrderInv
<1>13. CASE HandleFlags
  <2>1. UNCHANGED <<server_rxqueue, buffered_lines, client_txqueue, arrived>>
    BY <1>13 DEF HandleFlags
  <2>2. Stamps(client_toqueue') = Stamps(client_toqueue) /\ InOrder(client_toqueue')
    BY <1>13, <1>c
  <2>3. CASE InactiveToHistory
    BY <1>r, <2>1, <2>2, <2>3
  <2>4. CASE UNCHANGED <<inactive_lines, history_lines>>
    BY <1>u, <2>1, <2>2, <2>4 DEF OrderInv
  <2>5. QED
    BY <1>13, <2>3, <2>4 DEF HandleFlags
<1>14. CASE UNCHANGED vars
  BY <1>14 DEF vars, queues, ghosts, OrderInv
<1>15. QED
  BY <1>1, <1>2, <1>3, <1>4, <1>5, <1>6, <1>7, <1>8, <1>9, <1>10, <1>11, <1>12, <1>13, <1>14
     DEF Next, WaitForNetwork, Dispatch, Flush

LEMMA OrderStart == Init => SoundInv /\ PhaseInv /\ OrderInv
  BY EmptySeq, OrderOfEmpty, ContentsOfEmpty DEF Init, SoundInv, PhaseInv, OrderInv, Below

LEMMA OrderHolds == TypeOK /\ OrderInv => ArrivalOrder
<1> SUFFICES ASSUME TypeOK, OrderInv PROVE ArrivalOrder
  OBVIOUS
<1>q. QueuesOK
  BY DEF TypeOK
<1> DEFINE b1 == buffered_lines \o client_txqueue
           b2 == b1 \o client_toqueue
           b3 == b2 \o server_rxqueue
           h1 == history_lines \o inactive_lines
<1>1. \A q, r \in Seq(Line) :
         /\ q \o r \in Seq(Line)
         /\ Stamps(q \o r) = Stamps(q) \union Stamps(r)
         /\ InOrder(q \o r) <=> InOrder(q) /\ InOrder(r) /\ Below(Stamps(q), Stamps(r))
  BY OrderOfConcat, ConcatProperties
<1>2. /\ b1 \in Seq(Line) /\ InOrder(b1)
      /\ Stamps(b1) = Stamps(buffered_lines) \union Stamps(client_txqueue)
  BY <1>q, <1>1 DEF QueuesOK, OrderInv, Below
<1> HIDE DEF b1
<1>3. /\ b2 \in Seq(Line) /\ InOrder(b2)
      /\ Stamps(b2) = Stamps(b1) \union Stamps(client_toqueue)
  BY <1>q, <1>1, <1>2 DEF QueuesOK, OrderInv, Below
<1> HIDE DEF b2
<1>4. /\ b3 \in Seq(Line) /\ InOrder(b3)
      /\ Stamps(b3) = Stamps(b2) \union Stamps(server_rxqueue)
  BY <1>q, <1>1, <1>2, <1>3 DEF QueuesOK, OrderInv, Below
<1> HIDE DEF b3
<1>5. /\ h1 \in Seq(Line) /\ InOrder(h1)
      /\ Stamps(h1) = Stamps(history_lines) \union Stamps(inactive_lines)
  BY <1>q, <1>1 DEF QueuesOK, OrderInv, Below
<1> HIDE DEF h1
<1>6. Below(Stamps(h1), Stamps(b3))
  BY <1>2, <1>3, <1>4, <1>5 DEF OrderInv, Below
<1>7. InOrder(h1 \o b3)
  BY <1>1, <1>4, <1>5, <1>6
<1>8. InOrder(Chain)
  BY <1>7 DEF h1, b3, b2, b1, Chain, Backlog
<1>9. QED
  BY <1>8 DEF ArrivalOrder, InOrder, Rising, StampsOf, NumbersOf, Number

\* ArrivalOrder: from the history to what has just been read, the server lines
\* that are kept have ascending arrival numbers, whatever clients come and go.
THEOREM LinesKeptInOrder == Spec => []ArrivalOrder
<1>1. Init => AwayInv
  BY DEF Init, AwayInv, BufferedOnlyWhileAway
<1>2. TypeOK /\ AwayInv /\ [Next]_vars => AwayInv'
  BY AwayStep
<1>3. TypeOK /\ AwayInv /\ PhaseInv /\ [Next]_vars => PhaseInv'
  BY PhaseStep
<1>4. TypeOK /\ AwayInv /\ SoundInv /\ PhaseInv /\ OrderInv /\ [Next]_vars => OrderInv'
  BY OrderStep
<1>s. TypeOK /\ SoundInv /\ [Next]_vars => SoundInv'
  BY SoundStep
<1>5. TypeOK /\ OrderInv => ArrivalOrder
  BY OrderHolds
<1>6. QED
  BY <1>1, <1>2, <1>3, <1>4, <1>s, <1>5, OrderStart, TypeCorrect, PTL DEF Spec

-----------------------------------------------------------------------------
(* What each step does to the server lines that wait, are possibly new, or *)
(* are history.                                                            *)

LEMMA BacklogHolds ==
    ASSUME NEW b \in Seq(Line), NEW t \in Seq(Line), NEW c \in Seq(Line), NEW s \in Seq(Line)
    PROVE  OriginalIds(b \o t \o c \o s) =
              OriginalIds(b) \union OriginalIds(t) \union OriginalIds(c) \union OriginalIds(s)
<1> DEFINE q1 == b \o t
           q2 == q1 \o c
<1>1. q1 \in Seq(Line) /\ OriginalIds(q1) = OriginalIds(b) \union OriginalIds(t)
  BY ContentsOfConcat
<1> HIDE DEF q1
<1>2. q2 \in Seq(Line) /\ OriginalIds(q2) = OriginalIds(q1) \union OriginalIds(c)
  BY <1>1, ContentsOfConcat
<1> HIDE DEF q2
<1>3. OriginalIds(q2 \o s) = OriginalIds(q2) \union OriginalIds(s)
  BY <1>2, ContentsOfConcat
<1>4. QED
  BY <1>1, <1>2, <1>3 DEF q1, q2

LEMMA BacklogParts ==
    ASSUME QueuesOK, QueuesOK'
    PROVE  /\ OriginalIds(Backlog) =
                 OriginalIds(buffered_lines) \union OriginalIds(client_txqueue)
                    \union OriginalIds(client_toqueue) \union OriginalIds(server_rxqueue)
           /\ OriginalIds(Backlog)' =
                 OriginalIds(buffered_lines') \union OriginalIds(client_txqueue')
                    \union OriginalIds(client_toqueue') \union OriginalIds(server_rxqueue')
<1>1. /\ buffered_lines \in Seq(Line) /\ client_txqueue \in Seq(Line)
      /\ client_toqueue \in Seq(Line) /\ server_rxqueue \in Seq(Line)
      /\ buffered_lines' \in Seq(Line) /\ client_txqueue' \in Seq(Line)
      /\ client_toqueue' \in Seq(Line) /\ server_rxqueue' \in Seq(Line)
  BY DEF QueuesOK
<1>2. QED
  BY <1>1, BacklogHolds DEF Backlog

\* What a new client is sent: the copies are of lines it may have missed, and
\* what was buffered is moved.
LEMMA PromoteHolds ==
    ASSUME QueuesOK, Promote
    PROVE  /\ OriginalIds(client_toqueue') =
                 OriginalIds(client_toqueue) \union OriginalIds(buffered_lines)
           /\ Ids(inactive_lines) \subseteq Ids(client_toqueue')
<1>1. PICK handshake \in {<<>>, <<McpLine>>} :
         client_toqueue' =
            client_toqueue \o <<Message>> \o RecallHistory(ContextLines)
               \o CopiesOf(inactive_lines) \o buffered_lines
               \o <<Message>> \o handshake
  BY DEF Promote
<1> DEFINE note == <<Message>>
           context == RecallHistory(ContextLines)
           news == CopiesOf(inactive_lines)
           q1 == client_toqueue \o note
           q2 == q1 \o context
           q3 == q2 \o news
           q4 == q3 \o buffered_lines
           q5 == q4 \o note
<1>2. \A q, r \in Seq(Line) :
         /\ q \o r \in Seq(Line)
         /\ Ids(q \o r) = Ids(q) \union Ids(r)
         /\ OriginalIds(q \o r) = OriginalIds(q) \union OriginalIds(r)
  BY ContentsOfConcat
<1>3. client_toqueue \in Seq(Line) /\ buffered_lines \in Seq(Line)
  BY DEF QueuesOK
<1>4. note \in Seq(Line) /\ OriginalIds(note) = {}
  BY MessageIsLine, MadeLines, ContentsOfOne
<1>5. handshake \in Seq(Line) /\ OriginalIds(handshake) = {}
  <2>1. <<McpLine>> \in Seq(Line) /\ OriginalIds(<<McpLine>>) = {}
    BY McpLineIsLine, MadeLines, ContentsOfOne
  <2>2. QED
    BY <1>1, <2>1, ContentsOfEmpty
<1>6. context \in Seq(Line) /\ OriginalIds(context) = {}
  <2>1. Last(history_lines, ContextLines) \in Seq(Line)
    BY LastOfSeq DEF QueuesOK
  <2>2. QED
    BY <2>1, OrderOfCopies DEF RecallHistory
<1>7. news \in Seq(Line) /\ OriginalIds(news) = {} /\ Ids(news) = Ids(inactive_lines)
  BY OrderOfCopies DEF QueuesOK
<1> HIDE DEF note, context, news
<1>8. q1 \in Seq(Line) /\ OriginalIds(q1) = OriginalIds(client_toqueue)
  <2>1. q1 \in Seq(Line) /\ OriginalIds(q1) = OriginalIds(client_toqueue) \union OriginalIds(note)
    BY <1>3, <1>4, ContentsOfConcat
  <2>2. QED
    BY <1>4, <2>1
<1> HIDE DEF q1
<1>9. q2 \in Seq(Line) /\ OriginalIds(q2) = OriginalIds(client_toqueue)
  <2>1. q2 \in Seq(Line) /\ OriginalIds(q2) = OriginalIds(q1) \union OriginalIds(context)
    BY <1>6, <1>8, ContentsOfConcat
  <2>2. QED
    BY <1>6, <1>8, <2>1
<1> HIDE DEF q2
<1>10. q3 \in Seq(Line) /\ OriginalIds(q3) = OriginalIds(client_toqueue)
       /\ Ids(inactive_lines) \subseteq Ids(q3)
  <2>1. /\ q3 \in Seq(Line) /\ Ids(q3) = Ids(q2) \union Ids(news)
        /\ OriginalIds(q3) = OriginalIds(q2) \union OriginalIds(news)
    BY <1>7, <1>9, ContentsOfConcat
  <2>2. QED
    BY <1>7, <1>9, <2>1
<1> HIDE DEF q3
<1> DEFINE All == OriginalIds(client_toqueue) \union OriginalIds(buffered_lines)
<1>11. q4 \in Seq(Line) /\ OriginalIds(q4) = All /\ Ids(inactive_lines) \subseteq Ids(q4)
  BY <1>2, <1>3, <1>10
<1> HIDE DEF q4
<1>12. q5 \in Seq(Line) /\ OriginalIds(q5) = All /\ Ids(inactive_lines) \subseteq Ids(q5)
  BY <1>2, <1>4, <1>11
<1> HIDE DEF q5
<1>13. OriginalIds(q5 \o handshake) = All /\ Ids(inactive_lines) \subseteq Ids(q5 \o handshake)
  BY <1>2, <1>5, <1>12
<1>14. QED
  BY <1>1, <1>13 DEF q1, q2, q3, q4, q5, note, context, news

\* Only a read of the server, a write to a client and the trim change which
\* lines are new.
LEMMA FreshKept ==
    ASSUME TypeOK, TypeOK', SoundInv,
           \/ Verify \/ PromoteRefused \/ Promote \/ SkipSelect \/ Dispatch
           \/ Write \/ FlushDone \/ HandleFlags \/ UNCHANGED vars
    PROVE  OriginalIds(Backlog)' = OriginalIds(Backlog)
<1>q. QueuesOK /\ QueuesOK'
  BY DEF TypeOK
<1>p. SUFFICES OriginalIds(buffered_lines') \union OriginalIds(client_txqueue')
                  \union OriginalIds(client_toqueue') \union OriginalIds(server_rxqueue')
               = OriginalIds(buffered_lines) \union OriginalIds(client_txqueue)
                  \union OriginalIds(client_toqueue) \union OriginalIds(server_rxqueue)
  BY <1>q, BacklogParts
<1>c. ASSUME Verify \/ Tick \/ DispatchClient \/ HandleFlags
      PROVE  OriginalIds(client_toqueue') = OriginalIds(client_toqueue)
  BY <1>c, <1>q, HandlersAdd, ExtraAdds DEF Added, QueuesOK
<1>1. CASE Verify
  BY <1>1, <1>c DEF Verify
<1>2. CASE PromoteRefused \/ SkipSelect \/ UnqueueDone \/ FlushDone \/ Write
  BY <1>2 DEF PromoteRefused, SkipSelect, UnqueueDone, FlushDone, Write, queues
<1>3. CASE Promote
  <2>1. /\ OriginalIds(client_toqueue') =
              OriginalIds(client_toqueue) \union OriginalIds(buffered_lines)
        /\ OriginalIds(buffered_lines') = {}
        /\ UNCHANGED <<server_rxqueue, client_txqueue>>
    BY <1>3, <1>q, PromoteHolds, ContentsOfEmpty DEF Promote
  <2>2. QED
    BY <2>1
<1>4. CASE Tick
  BY <1>4, <1>c DEF Tick
<1>5. CASE DispatchServer
  <2>1. /\ OriginalIds(client_toqueue') =
              OriginalIds(client_toqueue) \union OriginalIds(server_rxqueue)
        /\ OriginalIds(server_rxqueue') = {}
        /\ UNCHANGED <<buffered_lines, client_txqueue>>
    BY <1>5, <1>q, ContentsOfConcat, ContentsOfEmpty DEF DispatchServer, QueuesOK
  <2>2. QED
    BY <2>1
<1>6. CASE DispatchClient
  <2>1. UNCHANGED <<buffered_lines, server_rxqueue, client_txqueue>>
    BY <1>6 DEF DispatchClient
  <2>2. OriginalIds(client_toqueue') = OriginalIds(client_toqueue)
    BY <1>6, <1>c
  <2>3. QED
    BY <2>1, <2>2
<1>7. CASE MergeToQueue
  <2>1. /\ OriginalIds(client_txqueue') =
              OriginalIds(client_txqueue) \union OriginalIds(client_toqueue)
        /\ OriginalIds(client_toqueue') = {}
        /\ UNCHANGED <<buffered_lines, server_rxqueue>>
    BY <1>7, <1>q, ContentsOfConcat, ContentsOfEmpty DEF MergeToQueue, QueuesOK
  <2>2. QED
    BY <2>1
<1>8. CASE Unqueue
  <2> DEFINE h == Head(client_txqueue)
  <2>1. /\ OriginalIds(client_txqueue) = Original(h) \union OriginalIds(client_txqueue')
        /\ h \in Line /\ UNCHANGED <<client_toqueue, server_rxqueue>>
    BY <1>8, <1>q, ContentsOfTail DEF Unqueue, QueuesOK
  <2>2. OriginalIds(buffered_lines') = OriginalIds(buffered_lines) \union Original(h)
    <3>1. CASE h.kind \in DONTBUF
      <4>1. Original(h) = {} /\ buffered_lines' = buffered_lines
        BY <1>8, <3>1 DEF Unqueue, Original, DONTBUF
      <4>2. QED
        BY <4>1
    <3>2. CASE h.kind \notin DONTBUF
      <4>1. buffered_lines' = Append(buffered_lines, h)
        BY <1>8, <3>2 DEF Unqueue
      <4>2. QED
        BY <1>q, <2>1, <4>1, ContentsOfAppend DEF QueuesOK
    <3>3. QED
      BY <3>1, <3>2
  <2>3. QED
    BY <2>1, <2>2
<1>9. CASE HandleFlags
  BY <1>9, <1>c DEF HandleFlags
<1>10. CASE UNCHANGED vars
  BY <1>10 DEF vars, queues
<1>11. QED
  BY <1>1, <1>2, <1>3, <1>4, <1>5, <1>6, <1>7, <1>8, <1>9, <1>10 DEF Dispatch

\* Only lines that have arrived count as posted.
RegularInv == regular \subseteq 1 .. arrived

\* A read adds the lines it finds, each newer than all before it.
LEMMA FreshArrives ==
    ASSUME TypeOK, TypeOK', RegularInv, Select
    PROVE  /\ regular \subseteq regular'
           /\ \A old \in regular, line \in regular' \ regular : old < line
           /\ OriginalIds(Backlog)' = OriginalIds(Backlog) \union (regular' \ regular)
           /\ RegularInv'
<1>q. QueuesOK /\ QueuesOK' /\ arrived \in Nat /\ arrived' \in Nat
  BY DEF TypeOK, GhostsOK
<1> PICK batch \in ServerBatches :
      /\ arrived' = arrived + Len(batch)
      /\ regular' = regular \union
            {arrived + i : i \in {k \in DOMAIN batch : batch[k] = "regular"}}
      /\ server_rxqueue' = server_rxqueue \o
            [i \in DOMAIN batch |-> [id |-> arrived + i, kind |-> batch[i]]]
  BY DEF Select, ReadServer
<1> DEFINE new == [i \in DOMAIN batch |-> [id |-> arrived + i, kind |-> batch[i]]]
           Fresh == {arrived + i : i \in {k \in DOMAIN batch : batch[k] = "regular"}}
<1>1. /\ Len(batch) \in Nat /\ DOMAIN batch = 1 .. Len(batch)
      /\ \A i \in 1 .. Len(batch) : batch[i] \in ServerKind
  BY LenProperties, ElementOfSeq
<1>2. /\ DOMAIN new = 1 .. Len(batch) /\ new \in Seq(Line)
      /\ \A i \in 1 .. Len(batch) : new[i].id = arrived + i /\ new[i].kind = batch[i]
  <2>1. \A i \in 1 .. Len(batch) : [id |-> arrived + i, kind |-> batch[i]] \in Line
    BY <1>1, <1>q DEF Line, Kind
  <2>2. QED
    BY <1>1, <2>1, FunctionIsSeq
<1>3. OriginalIds(server_rxqueue') = OriginalIds(server_rxqueue) \union OriginalIds(new)
  BY <1>2, <1>q, ContentsOfConcat DEF QueuesOK
<1> HIDE DEF new
<1>4. OriginalIds(new) = Fresh
  BY <1>1, <1>2 DEF OriginalIds
<1>5. \A n \in Fresh : n > arrived /\ n \in 1 .. arrived'
  BY <1>q, <1>1
<1>6. regular' = regular \union Fresh
  OBVIOUS
<1> HIDE DEF Fresh
<1>7. regular' \ regular = Fresh
  BY <1>q, <1>5, <1>6 DEF RegularInv
<1>8. \A old \in regular, line \in Fresh : old < line
  BY <1>q, <1>5 DEF RegularInv
<1>9. OriginalIds(Backlog)' = OriginalIds(Backlog) \union Fresh
  <2>1. UNCHANGED <<buffered_lines, client_txqueue, client_toqueue>>
    BY DEF Select
  <2>2. QED
    BY <1>q, <1>3, <1>4, <2>1, BacklogParts
<1>10. regular' \subseteq 1 .. arrived'
  <2>1. arrived <= arrived'
    BY <1>q, <1>1
  <2>2. \A n \in regular : n \in 1 .. arrived'
    BY <1>q, <2>1 DEF RegularInv
  <2>3. QED
    BY <1>5, <1>6, <2>2
<1>11. QED
  BY <1>6, <1>7, <1>8, <1>9, <1>10 DEF RegularInv

\* flush_buffer() presents the oldest of the new lines.
LEMMA FreshPresented ==
    ASSUME TypeOK, TypeOK', SoundInv, AwayInv, OrderInv, Fill
    PROVE  \/ /\ OriginalIds(Backlog)' = OriginalIds(Backlog)
              /\ OriginalIds(inactive_lines') = OriginalIds(inactive_lines)
           \/ \E line \in OriginalIds(Backlog) :
                 /\ \A other \in OriginalIds(Backlog) : line <= other
                 /\ OriginalIds(Backlog)' = OriginalIds(Backlog) \ {line}
                 /\ OriginalIds(inactive_lines') = OriginalIds(inactive_lines) \union {line}
<1>q. QueuesOK /\ QueuesOK' /\ arrived \in Nat
  BY DEF TypeOK, GhostsOK
<1> DEFINE h == Head(client_txqueue)
           Rest == OriginalIds(client_txqueue') \union OriginalIds(client_toqueue)
                      \union OriginalIds(server_rxqueue)
<1>1. /\ client_txqueue # <<>> /\ client_txqueue' = Tail(client_txqueue)
      /\ UNCHANGED <<client_toqueue, server_rxqueue, buffered_lines>>
      /\ buffered_lines = <<>>
  BY DEF Fill, CanFill, AwayInv, BufferedOnlyWhileAway
<1>2. h \in SoundLine /\ h \in Line
  BY <1>1, HeadTailProperties DEF SoundInv, SoundLine
<1>3. OriginalIds(Backlog)' = Rest /\ OriginalIds(Backlog) = Original(h) \union Rest
  <2>1. OriginalIds(client_txqueue) = Original(h) \union OriginalIds(client_txqueue')
    BY <1>1, <1>q, ContentsOfTail DEF QueuesOK
  <2>2. OriginalIds(buffered_lines) = {} /\ OriginalIds(buffered_lines') = {}
    BY <1>1, ContentsOfEmpty
  <2>3. QED
    BY <1>1, <1>q, <2>1, <2>2, BacklogParts
<1>4. CASE h.kind # "regular"
  <2>1. Original(h) = {}
    BY <1>4 DEF Original
  <2>2. OriginalIds(inactive_lines') = OriginalIds(inactive_lines)
    <3>1. OriginalIds(Append(inactive_lines, h)) = OriginalIds(inactive_lines) \union Original(h)
      BY <1>2, <1>q, ContentsOfAppend DEF QueuesOK
    <3>2. inactive_lines' = inactive_lines \/ inactive_lines' = Append(inactive_lines, h)
      BY DEF Fill
    <3>3. QED
      BY <2>1, <3>1, <3>2
  <2>3. QED
    BY <1>3, <2>1, <2>2
<1>5. CASE h.kind = "regular"
  <2>1. Original(h) = {h.id} /\ Stamp(h) = h.id /\ h.id # 0 /\ h.id \in Nat
    BY <1>2, <1>5 DEF Original, Stamp, Number, SoundLine, ServerKind, Line
  <2>2. OriginalIds(inactive_lines') = OriginalIds(inactive_lines) \union {h.id}
    <3>1. inactive_lines' = Append(inactive_lines, h)
      BY <1>5 DEF Fill, NOHIST
    <3>2. QED
      BY <1>2, <1>q, <2>1, <3>1, ContentsOfAppend DEF QueuesOK
  <2>3. \A n \in Rest : h.id < n
    <3>1. /\ h.id \in Stamps(client_txqueue)
          /\ Below({h.id}, Stamps(client_txqueue'))
      <4>1. /\ Stamps(client_txqueue) = ({Stamp(h)} \ {0}) \union Stamps(Tail(client_txqueue))
            /\ InOrder(client_txqueue) => Below({Stamp(h)} \ {0}, Stamps(Tail(client_txqueue)))
        BY <1>1, <1>q, OrderOfTail DEF QueuesOK
      <4>2. {Stamp(h)} \ {0} = {h.id}
        BY <2>1
      <4>3. QED
        BY <1>1, <4>1, <4>2 DEF OrderInv
    <3>2. Below({h.id}, Stamps(client_toqueue) \union Stamps(server_rxqueue))
      BY <3>1 DEF OrderInv, Below
    <3>3. /\ OriginalIds(client_txqueue') \subseteq Stamps(client_txqueue')
          /\ OriginalIds(client_toqueue) \subseteq Stamps(client_toqueue)
          /\ OriginalIds(server_rxqueue) \subseteq Stamps(server_rxqueue)
      BY <1>1, HeadTailProperties, SoundQueue, SoundIsLine DEF SoundInv
    <3>4. QED
      BY <3>1, <3>2, <3>3 DEF Below
  <2>4. Rest \subseteq Nat
    <3>1. \A q \in Seq(Line) : OriginalIds(q) \subseteq Nat
      <4> SUFFICES ASSUME NEW q \in Seq(Line), NEW i \in DOMAIN q PROVE q[i].id \in Nat
        BY DEF OriginalIds
      <4>1. q[i] \in Line
        BY LenProperties, ElementOfSeq
      <4>2. QED
        BY <4>1 DEF Line
    <3>2. QED
      BY <1>q, <3>1 DEF QueuesOK
  <2> HIDE DEF Rest
  <2>5. /\ h.id \in OriginalIds(Backlog)
        /\ \A other \in OriginalIds(Backlog) : h.id <= other
        /\ OriginalIds(Backlog)' = OriginalIds(Backlog) \ {h.id}
    <3>1. /\ h.id \notin Rest
          /\ \A other \in {h.id} \union Rest : h.id <= other
      <4>1. h.id \in Nat
        BY <2>1
      <4>2. \A other \in Rest : other \in Nat /\ h.id < other
        BY <2>3, <2>4
      <4> HIDE DEF h
      <4>3. QED
        BY <4>1, <4>2
    <3>2. OriginalIds(Backlog) = {h.id} \union Rest /\ OriginalIds(Backlog)' = Rest
      BY <1>3, <2>1
    <3>3. QED
      BY <3>1, <3>2
  <2>6. QED
    BY <2>2, <2>5
<1>6. QED
  BY <1>4, <1>5

\* The trim cuts a queue only after it has taken all of those that are older.
LEMMA CutsInTurn ==
    ASSUME QueuesOK
    PROVE  /\ cutInactive > 0 => cutHistory = Len(history_lines)
           /\ cutBuffered > 0 => /\ cutHistory = Len(history_lines)
                                 /\ cutInactive = Len(inactive_lines)
<1>1. Len(history_lines) \in Nat /\ Len(inactive_lines) \in Nat /\ Len(buffered_lines) \in Nat
  BY LenProperties DEF QueuesOK
<1>2. QED
  BY <1>1 DEF cutHistory, cutInactive, cutBuffered, Excess, Least

\* The server lines that the trim takes.
gone ==
    OriginalIds(Front(history_lines, cutHistory))
       \union OriginalIds(Front(inactive_lines, cutInactive))
       \union OriginalIds(Front(buffered_lines, cutBuffered))

LEMMA NoneAndAll ==
    ASSUME NEW q \in Seq(Line)
    PROVE  Stamps(Front(q, 0)) = {} /\ Stamps(Beyond(q, Len(q))) = {}
<1>1. Len(q) \in Nat
  BY LenProperties
<1>2. Front(q, 0) = <<>> /\ Beyond(q, Len(q)) = <<>>
  BY <1>1, SubSeqEmpty DEF Front, Beyond
<1>3. QED
  BY <1>2, OrderOfEmpty

LEMMA KeptParts ==
    ASSUME NEW q \in Seq(WaitingLine), NEW n \in 0 .. Len(q), InOrder(q)
    PROVE  /\ OriginalIds(q) = Stamps(Front(q, n)) \union Stamps(Beyond(q, n))
           /\ Stamps(q) = Stamps(Front(q, n)) \union Stamps(Beyond(q, n))
           /\ OriginalIds(Beyond(q, n)) = Stamps(Beyond(q, n))
           /\ OriginalIds(Front(q, n)) = Stamps(Front(q, n))
           /\ Below(Stamps(Front(q, n)), Stamps(Beyond(q, n)))
           /\ Stamps(Front(q, n)) \subseteq Nat /\ Stamps(Beyond(q, n)) \subseteq Nat
<1>1. q \in Seq(Line)
  BY SoundIsLine
<1>2. Front(q, n) \in Seq(WaitingLine) /\ Beyond(q, n) \in Seq(WaitingLine)
  BY FrontOfSeq, BeyondOfSeq
<1>3. Front(q, n) \in Seq(Line) /\ Beyond(q, n) \in Seq(Line)
  BY <1>2, SoundIsLine
<1>4. /\ OriginalIds(q) = Stamps(q)
      /\ OriginalIds(Front(q, n)) = Stamps(Front(q, n))
      /\ OriginalIds(Beyond(q, n)) = Stamps(Beyond(q, n))
  BY <1>2, WaitingQueue
<1>5. /\ Stamps(q) = Stamps(Front(q, n)) \union Stamps(Beyond(q, n))
      /\ Below(Stamps(Front(q, n)), Stamps(Beyond(q, n)))
  BY <1>1, OrderOfBeyond
<1>6. Stamps(Front(q, n)) \subseteq Nat /\ Stamps(Beyond(q, n)) \subseteq Nat
  BY <1>3, StampsAndMarks
<1>7. QED
  BY <1>4, <1>5, <1>6

\* The trim takes the oldest lines, history before all others.
LEMMA FreshTrimmed ==
    ASSUME TypeOK, TypeOK', SoundInv, OrderInv, Trim
    PROVE  LET held == OriginalIds(history_lines) \union OriginalIds(inactive_lines)
                          \union OriginalIds(Backlog)
           IN /\ gone \subseteq held
              /\ OriginalIds(history_lines') = OriginalIds(history_lines) \ gone
              /\ OriginalIds(inactive_lines') = OriginalIds(inactive_lines) \ gone
              /\ OriginalIds(Backlog)' = OriginalIds(Backlog) \ gone
              /\ dropped' = dropped \union (gone \ OriginalIds(history_lines))
              /\ \A line \in gone, kept \in held \ gone : line < kept
              /\ gone \subseteq OriginalIds(history_lines)
                 \/ OriginalIds(history_lines) \subseteq gone
<1>q. QueuesOK /\ QueuesOK'
  BY DEF TypeOK
<1> DEFINE FH == Stamps(Front(history_lines, cutHistory))
           BH == Stamps(Beyond(history_lines, cutHistory))
           FI == Stamps(Front(inactive_lines, cutInactive))
           BI == Stamps(Beyond(inactive_lines, cutInactive))
           FB == Stamps(Front(buffered_lines, cutBuffered))
           BB == Stamps(Beyond(buffered_lines, cutBuffered))
           RT == OriginalIds(client_txqueue) \union OriginalIds(client_toqueue)
                    \union OriginalIds(server_rxqueue)
<1>1. /\ cutHistory \in 0 .. Len(history_lines)
      /\ cutInactive \in 0 .. Len(inactive_lines)
      /\ cutBuffered \in 0 .. Len(buffered_lines)
      /\ history_lines' = Beyond(history_lines, cutHistory)
      /\ inactive_lines' = Beyond(inactive_lines, cutInactive)
      /\ buffered_lines' = Beyond(buffered_lines, cutBuffered)
  BY <1>q, TrimCuts
<1>2. /\ OriginalIds(history_lines) = FH \union BH /\ Stamps(history_lines) = FH \union BH
      /\ OriginalIds(history_lines') = BH /\ OriginalIds(Front(history_lines, cutHistory)) = FH
      /\ Below(FH, BH) /\ FH \in SUBSET Nat /\ BH \in SUBSET Nat
  BY <1>1, KeptParts, SoundIsLine DEF SoundInv, OrderInv
<1>3. /\ OriginalIds(inactive_lines) = FI \union BI /\ Stamps(inactive_lines) = FI \union BI
      /\ OriginalIds(inactive_lines') = BI /\ OriginalIds(Front(inactive_lines, cutInactive)) = FI
      /\ Below(FI, BI) /\ FI \in SUBSET Nat /\ BI \in SUBSET Nat
  BY <1>1, KeptParts, SoundIsLine DEF SoundInv, OrderInv
<1>4. /\ OriginalIds(buffered_lines) = FB \union BB /\ Stamps(buffered_lines) = FB \union BB
      /\ OriginalIds(buffered_lines') = BB /\ OriginalIds(Front(buffered_lines, cutBuffered)) = FB
      /\ Below(FB, BB) /\ FB \in SUBSET Nat /\ BB \in SUBSET Nat
  BY <1>1, KeptParts, SoundIsLine DEF SoundInv, OrderInv
<1>5. RT \subseteq Stamps(client_txqueue) \union Stamps(client_toqueue) \union Stamps(server_rxqueue)
      /\ RT \in SUBSET Nat
  <2>1. /\ client_txqueue \in Seq(SoundLine) /\ client_txqueue \in Seq(Line)
        /\ client_toqueue \in Seq(SoundLine) /\ client_toqueue \in Seq(Line)
        /\ server_rxqueue \in Seq(SoundLine) /\ server_rxqueue \in Seq(Line)
    BY SoundIsLine DEF SoundInv
  <2>2. /\ OriginalIds(client_txqueue) \subseteq Stamps(client_txqueue)
        /\ OriginalIds(client_toqueue) \subseteq Stamps(client_toqueue)
        /\ OriginalIds(server_rxqueue) \subseteq Stamps(server_rxqueue)
    BY <2>1, SoundQueue
  <2>3. Stamps(client_txqueue) \subseteq Nat /\ Stamps(client_toqueue) \subseteq Nat
        /\ Stamps(server_rxqueue) \subseteq Nat
    BY <2>1, StampsAndMarks
  <2>4. QED
    BY <2>2, <2>3
<1>6. /\ OriginalIds(Backlog) = FB \union BB \union RT
      /\ OriginalIds(Backlog)' = BB \union RT
  <2>1. UNCHANGED <<client_txqueue, client_toqueue, server_rxqueue>>
    BY DEF Trim
  <2>2. QED
    BY <1>q, <1>4, <2>1, BacklogParts
<1>7. dropped' = dropped \union FI \union FB
  BY <1>3, <1>4 DEF Trim, cutInactive, cutBuffered
<1>8. \/ FI = {} /\ FB = {}
      \/ BH = {} /\ FB = {}
      \/ BH = {} /\ BI = {}
  <2>1. /\ cutInactive \in Nat /\ cutBuffered \in Nat
    BY <1>1, <1>q, LenProperties DEF QueuesOK
  <2>2. /\ cutInactive = 0 => FI = {}
        /\ cutBuffered = 0 => FB = {}
        /\ cutHistory = Len(history_lines) => BH = {}
        /\ cutInactive = Len(inactive_lines) => BI = {}
    BY <1>q, NoneAndAll DEF QueuesOK
  <2>3. QED
    BY <1>q, <2>1, <2>2, CutsInTurn
<1>9. gone = FH \union FI \union FB
  BY <1>2, <1>3, <1>4 DEF gone
<1> HIDE DEF FH, BH, FI, BI, FB, BB, RT
<1>10. /\ Below(FB, BB \union RT) /\ Below(BB, RT)
       /\ Below(FH \union BH, FI \union BI \union FB \union BB \union RT)
       /\ Below(FI \union BI, FB \union BB \union RT)
  BY <1>2, <1>3, <1>4, <1>5 DEF OrderInv, Below
<1> DEFINE g == FH \union FI \union FB
           held == FH \union BH \union FI \union BI \union FB \union BB \union RT
<1>e. /\ g = FH \union FI \union FB
      /\ held = FH \union BH \union FI \union BI \union FB \union BB \union RT
  OBVIOUS
<1> HIDE DEF g, held
<1>d. /\ FH \intersect (BH \union FI \union BI \union FB \union BB \union RT) = {}
      /\ BH \intersect (FI \union BI \union FB \union BB \union RT) = {}
      /\ FI \intersect (BI \union FB \union BB \union RT) = {}
      /\ BI \intersect (FB \union BB \union RT) = {}
      /\ FB \intersect (BB \union RT) = {}
  <2>1. \A A, B \in SUBSET Nat : Below(A, B) => A \intersect B = {}
    BY DEF Below
  <2>2. /\ FH \in SUBSET Nat /\ BH \in SUBSET Nat /\ FI \in SUBSET Nat /\ BI \in SUBSET Nat
        /\ FB \in SUBSET Nat /\ BB \in SUBSET Nat /\ RT \in SUBSET Nat
    BY <1>2, <1>3, <1>4, <1>5
  <2>3. (FH \union BH) \intersect (FI \union BI \union FB \union BB \union RT) = {}
    BY <1>10, <2>1, <2>2
  <2>4. (FI \union BI) \intersect (FB \union BB \union RT) = {}
    BY <1>10, <2>1, <2>2
  <2>5. FB \intersect (BB \union RT) = {}
    BY <1>10, <2>1, <2>2
  <2>6. FH \intersect BH = {} /\ FI \intersect BI = {}
    BY <1>2, <1>3, <2>1, <2>2
  <2>7. QED
    BY <2>3, <2>4, <2>5, <2>6
<1>11. /\ BH = (FH \union BH) \ g
       /\ BI = (FI \union BI) \ g
       /\ BB \union RT = (FB \union BB \union RT) \ g
       /\ FI \union FB = g \ (FH \union BH)
  BY <1>d, <1>e
<1>k. ASSUME NEW line \in g, NEW kept \in held \ g
      PROVE  line < kept
  <2>1. kept \in BH \/ kept \in BI \/ kept \in BB \union RT
    BY <1>e, <1>k
  <2>2. CASE line \in FH
    BY <1>2, <1>10, <2>1, <2>2 DEF Below
  <2>3. CASE line \in FI
    BY <1>3, <1>8, <1>10, <2>1, <2>3 DEF Below
  <2>4. CASE line \in FB
    BY <1>8, <1>10, <2>1, <2>4 DEF Below
  <2>5. QED
    BY <1>e, <1>k, <2>2, <2>3, <2>4
<1>s. g \subseteq FH \union BH \/ FH \union BH \subseteq g
  BY <1>8, <1>e
<1>12. /\ gone = g
       /\ held = OriginalIds(history_lines) \union OriginalIds(inactive_lines)
                   \union OriginalIds(Backlog)
  BY <1>2, <1>3, <1>6, <1>9, <1>e
<1>13. g \subseteq held
  BY <1>e
<1>14. dropped' = dropped \union (g \ (FH \union BH))
  BY <1>7, <1>11
<1>15. QED
  BY <1>2, <1>3, <1>6, <1>11, <1>12, <1>13, <1>14, <1>k, <1>s

\* What was possibly new becomes history, all at once, or a /forget drops both;
\* this happens to a client that is connected.
LEMMA HistorySteps ==
    ASSUME TypeOK, TypeOK', PhaseInv,
           \/ Verify \/ PromoteRefused \/ Promote \/ SkipSelect \/ Select \/ Dispatch
           \/ Write \/ FlushDone \/ HandleFlags \/ UNCHANGED vars
    PROVE  /\ dropped' = dropped
           /\ \/ /\ UNCHANGED <<history_lines, inactive_lines, early>>
              \/ /\ OriginalIds(history_lines') =
                       OriginalIds(history_lines) \union OriginalIds(inactive_lines)
                 /\ inactive_lines' = <<>> /\ early' = early \union OnTheWay
                 /\ client_status = "CONNECTED"
                 /\ UNCHANGED regular
              \/ /\ history_lines' = <<>> /\ inactive_lines' = <<>>
                 /\ early' = early \union OnTheWay
                 /\ Ids(inactive_lines) \subseteq expired'
                 /\ client_status = "CONNECTED"
                 /\ UNCHANGED regular
<1>q. QueuesOK /\ client_status \in {"DISCONNECTED", "CONNECTED"}
  BY DEF TypeOK, LoopOK
<1>h. InactiveToHistory =>
        /\ OriginalIds(history_lines') =
              OriginalIds(history_lines) \union OriginalIds(inactive_lines)
        /\ inactive_lines' = <<>> /\ early' = early \union OnTheWay
  BY <1>q, ContentsOfConcat DEF QueuesOK, InactiveToHistory
<1>1. CASE Verify \/ PromoteRefused \/ Promote \/ SkipSelect \/ Select
  BY <1>1 DEF Verify, PromoteRefused, Promote, SkipSelect, Select, queues, ghosts
<1>2. CASE Tick \/ DispatchServer \/ MergeToQueue \/ Unqueue \/ UnqueueDone \/ Write \/ FlushDone
  BY <1>2 DEF Tick, DispatchServer, MergeToQueue, Unqueue, UnqueueDone, Write, FlushDone, queues,
              ghosts
<1>3. CASE DispatchClient
  <2>1. UNCHANGED <<regular, dropped>> /\ client_status = "CONNECTED"
    BY <1>3, <1>q DEF DispatchClient, PhaseInv
  <2>2. QED
    BY <1>3, <1>h, <2>1, CommandKeeps
<1>4. CASE HandleFlags
  <2>1. UNCHANGED <<regular, dropped>>
    BY <1>4 DEF HandleFlags
  <2>2. CASE "ACTIVATED" \in flags
    BY <1>4, <1>h, <1>q, <2>1, <2>2 DEF HandleFlags, PhaseInv
  <2>3. CASE "ACTIVATED" \notin flags
    BY <1>4, <2>1, <2>3 DEF HandleFlags
  <2>4. QED
    BY <2>2, <2>3
<1>5. CASE UNCHANGED vars
  BY <1>5 DEF vars, queues, ghosts
<1>6. QED
  BY <1>1, <1>2, <1>3, <1>4, <1>5 DEF Dispatch

-----------------------------------------------------------------------------
(* The line flow implements the mailbox.                                   *)

LEMMA PromiseStart == Init => Promise!Init
<1> SUFFICES ASSUME Init PROVE Promise!Init
  OBVIOUS
<1>1. \A q \in Seq(Line) : OriginalIds(<<>> \o <<>> \o <<>> \o <<>>) = {}
  BY BacklogHolds, ContentsOfEmpty
<1>2. OriginalIds(Backlog) = {}
  BY <1>1, ContentsOfEmpty DEF Init, Backlog
<1>3. QED
  BY <1>2, ContentsOfEmpty DEF Init, Promise!Init

\* The inductive invariant of the refinement.
PromiseInv == TypeOK /\ AwayInv /\ SoundInv /\ PhaseInv /\ OrderInv /\ RegularInv

LEMMA PromiseStep ==
    ASSUME PromiseInv, PromiseInv', [Next]_vars
    PROVE  [Promise!Next]_(Promise!mailbox)
<1>i. TypeOK /\ TypeOK' /\ AwayInv /\ SoundInv /\ PhaseInv /\ OrderInv /\ RegularInv
  BY DEF PromiseInv
<1>1. CASE Select
  <2>1. /\ UNCHANGED <<history_lines, inactive_lines, dropped>>
    BY <1>1 DEF Select
  <2>2. /\ regular \subseteq regular'
        /\ \A old \in regular, line \in regular' \ regular : old < line
        /\ OriginalIds(Backlog)' = OriginalIds(Backlog) \union (regular' \ regular)
    BY <1>1, <1>i, FreshArrives
  <2>3. CASE regular' = regular
    BY <2>1, <2>2, <2>3 DEF Promise!mailbox
  <2>4. CASE regular' # regular
    BY <2>1, <2>2, <2>4 DEF Promise!Next, Promise!Arrive
  <2>5. QED
    BY <2>3, <2>4
<1>2. CASE Fill
  <2>1. UNCHANGED <<regular, history_lines, dropped>>
    BY <1>2 DEF Fill, ghosts
  <2>2. QED
    BY <1>2, <1>i, <2>1, FreshPresented DEF Promise!Next, Promise!Present, Promise!mailbox
<1>3. CASE Trim
  <2>1. UNCHANGED regular
    BY <1>3 DEF Trim
  <2>2. QED
    BY <1>3, <1>i, <2>1, FreshTrimmed DEF Promise!Next, Promise!Shorten
<1>4. CASE \/ Verify \/ PromoteRefused \/ Promote \/ SkipSelect \/ Dispatch
           \/ Write \/ FlushDone \/ HandleFlags \/ UNCHANGED vars
  <2>1. OriginalIds(Backlog)' = OriginalIds(Backlog)
    BY <1>4, <1>i, FreshKept
  <2>2. UNCHANGED regular
    BY <1>4 DEF Verify, PromoteRefused, Promote, SkipSelect, Dispatch, Tick, DispatchServer,
                DispatchClient, MergeToQueue, Unqueue, UnqueueDone, Write, FlushDone, HandleFlags,
                ghosts, vars
  <2>3. /\ dropped' = dropped
        /\ \/ UNCHANGED <<history_lines, inactive_lines>>
           \/ /\ OriginalIds(history_lines') =
                       OriginalIds(history_lines) \union OriginalIds(inactive_lines)
              /\ inactive_lines' = <<>>
           \/ history_lines' = <<>> /\ inactive_lines' = <<>>
    BY <1>4, <1>i, HistorySteps
  <2>4. OriginalIds(<<>>) = {}
    BY ContentsOfEmpty
  <2>5. QED
    BY <2>1, <2>2, <2>3, <2>4 DEF Promise!Next, Promise!Confirm, Promise!Forget, Promise!mailbox
<1>5. QED
  BY <1>1, <1>2, <1>3, <1>4 DEF Next, WaitForNetwork, Flush

\* What is always true of the queues: types, kinds of lines, what each phase of
\* the loop finds, and the order of the lines.
THEOREM PromiseInvariant == Spec => []PromiseInv
<1>1. Init => AwayInv /\ RegularInv
  BY DEF Init, AwayInv, BufferedOnlyWhileAway, RegularInv
<1>2. TypeOK /\ AwayInv /\ [Next]_vars => AwayInv'
  BY AwayStep
<1>3. TypeOK /\ SoundInv /\ [Next]_vars => SoundInv'
  BY SoundStep
<1>4. TypeOK /\ AwayInv /\ PhaseInv /\ [Next]_vars => PhaseInv'
  BY PhaseStep
<1>5. TypeOK /\ AwayInv /\ SoundInv /\ PhaseInv /\ OrderInv /\ [Next]_vars => OrderInv'
  BY OrderStep
<1>6. TypeOK /\ TypeOK' /\ RegularInv /\ [Next]_vars => RegularInv'
  <2> SUFFICES ASSUME TypeOK, TypeOK', RegularInv, [Next]_vars PROVE RegularInv'
    OBVIOUS
  <2>1. CASE Select
    BY <2>1, FreshArrives
  <2>2. CASE UNCHANGED <<regular, arrived>>
    BY <2>2 DEF RegularInv
  <2>3. QED
    BY <2>1, <2>2
       DEF Next, WaitForNetwork, Dispatch, Flush, Verify, PromoteRefused, Promote, SkipSelect, Tick,
           DispatchServer, DispatchClient, MergeToQueue, Unqueue, UnqueueDone, Fill, Write, FlushDone,
           Trim, HandleFlags, vars, ghosts
<1>7. QED
  BY <1>1, <1>2, <1>3, <1>4, <1>5, <1>6, OrderStart, TypeCorrect, PTL DEF Spec, PromiseInv

\* KeepsPromise: the main loop implements Mailbox.  Each of its steps adds new
\* lines, shows the client some, turns shown lines into history, forgets, or
\* drops the oldest lines kept, or does nothing to the mailbox.
THEOREM PromiseKept == Spec => KeepsPromise
<1>1. PromiseInv /\ PromiseInv' /\ [Next]_vars => [Promise!Next]_(Promise!mailbox)
  BY PromiseStep
<1>2. QED
  BY <1>1, PromiseStart, PromiseInvariant, PTL DEF Spec, KeepsPromise, Promise!Spec

-----------------------------------------------------------------------------
(* Every line that is lost is counted.                                     *)

LEMMA FewIds ==
    ASSUME NEW q \in Seq(Line)
    PROVE  IsFiniteSet(Ids(q)) /\ Cardinality(Ids(q)) <= Len(q) /\ Cardinality(Ids(q)) \in Nat
<1> DEFINE All == {q[i].id : i \in 1 .. Len(q)}
           id == [i \in 1 .. Len(q) |-> q[i].id]
<1>1. Len(q) \in Nat /\ DOMAIN q = 1 .. Len(q)
  BY LenProperties
<1>2. IsFiniteSet(1 .. Len(q)) /\ Cardinality(1 .. Len(q)) = Len(q)
  BY <1>1, FS_Interval
<1>3. id \in Surjection(1 .. Len(q), All)
  BY DEF Surjection
<1>4. IsFiniteSet(All) /\ Cardinality(All) <= Len(q)
  BY <1>2, <1>3, FS_Surjection
<1>5. Cardinality(All) \in Nat
  BY <1>4, FS_CardinalityType
<1>6. Ids(q) \in SUBSET All
  BY <1>1 DEF Ids
<1> HIDE DEF All
<1>7. IsFiniteSet(Ids(q)) /\ Cardinality(Ids(q)) <= Cardinality(All)
  BY <1>4, <1>6, FS_Subset
<1>8. Cardinality(Ids(q)) \in Nat
  BY <1>7, FS_CardinalityType
<1>9. QED
  BY <1>1, <1>4, <1>5, <1>7, <1>8

LEMMA ChainHolds ==
    ASSUME NEW h \in Seq(Line), NEW i \in Seq(Line), NEW b \in Seq(Line)
    PROVE  OriginalIds(h \o i \o b) = OriginalIds(h) \union OriginalIds(i) \union OriginalIds(b)
<1>1. h \o i \in Seq(Line) /\ OriginalIds(h \o i) = OriginalIds(h) \union OriginalIds(i)
  BY ContentsOfConcat
<1>2. OriginalIds((h \o i) \o b) = OriginalIds(h \o i) \union OriginalIds(b)
  BY <1>1, ContentsOfConcat
<1>3. QED
  BY <1>1, <1>2

LEMMA ChainParts ==
    ASSUME QueuesOK'
    PROVE  OriginalIds(Chain)' = OriginalIds(history_lines') \union OriginalIds(inactive_lines')
                                    \union OriginalIds(Backlog)'
<1>1. history_lines' \in Seq(Line) /\ inactive_lines' \in Seq(Line)
  BY DEF QueuesOK
<1>2. Backlog' \in Seq(Line)
  <2>1. (buffered_lines' \o client_txqueue') \in Seq(Line)
    BY ConcatProperties DEF QueuesOK
  <2>2. (buffered_lines' \o client_txqueue' \o client_toqueue') \in Seq(Line)
    BY <2>1, ConcatProperties DEF QueuesOK
  <2>3. QED
    BY <2>2, ConcatProperties DEF QueuesOK, Backlog
<1>3. Chain' = history_lines' \o inactive_lines' \o Backlog'
  BY DEF Chain
<1> DEFINE backlog == Backlog'
<1>4. backlog \in Seq(Line)
  BY <1>2
<1> HIDE DEF backlog
<1>5. OriginalIds(history_lines' \o inactive_lines' \o backlog) =
         OriginalIds(history_lines') \union OriginalIds(inactive_lines') \union OriginalIds(backlog)
  BY <1>1, <1>4, ChainHolds
<1>6. QED
  BY <1>3, <1>5 DEF backlog

LEMMA LossStep ==
    ASSUME PromiseInv, PromiseInv', [Next]_vars
    PROVE  LET held == OriginalIds(Backlog) \union Ids(inactive_lines)
               lost == held \ (OriginalIds(Chain)' \union expired')
           IN lost # {} => Cardinality(lost) <=
                 (dropped_inactive_lines' - dropped_inactive_lines)
               + (dropped_buffered_lines' - dropped_buffered_lines)
<1>i. TypeOK /\ TypeOK' /\ AwayInv /\ SoundInv /\ PhaseInv /\ OrderInv /\ RegularInv
  BY DEF PromiseInv
<1>q. QueuesOK /\ QueuesOK'
  BY <1>i DEF TypeOK
<1> DEFINE held == OriginalIds(Backlog) \union Ids(inactive_lines)
           lost == held \ (OriginalIds(Chain)' \union expired')
<1>1. OriginalIds(Chain)' = OriginalIds(history_lines') \union OriginalIds(inactive_lines')
                               \union OriginalIds(Backlog)'
  BY <1>q, ChainParts
<1>2. Ids(inactive_lines) = OriginalIds(inactive_lines)
  BY <1>i, KeptQueue DEF SoundInv
<1>3. CASE Select
  <2>1. OriginalIds(Backlog) \subseteq OriginalIds(Backlog)'
    BY <1>3, <1>i, FreshArrives
  <2>2. UNCHANGED inactive_lines
    BY <1>3 DEF Select
  <2>3. lost = {}
    BY <1>1, <1>2, <2>1, <2>2
  <2>4. QED
    BY <2>3
<1>4. CASE Fill
  <2>1. OriginalIds(Backlog) \union OriginalIds(inactive_lines)
           \subseteq OriginalIds(Backlog)' \union OriginalIds(inactive_lines')
    BY <1>4, <1>i, FreshPresented
  <2>2. lost = {}
    BY <1>1, <1>2, <2>1
  <2>3. QED
    BY <2>2
<1>5. CASE \/ Verify \/ PromoteRefused \/ Promote \/ SkipSelect \/ Dispatch
           \/ Write \/ FlushDone \/ HandleFlags \/ UNCHANGED vars
  <2>1. OriginalIds(Backlog)' = OriginalIds(Backlog)
    BY <1>5, <1>i, FreshKept
  <2>2. \/ UNCHANGED <<history_lines, inactive_lines>>
        \/ OriginalIds(history_lines') =
              OriginalIds(history_lines) \union OriginalIds(inactive_lines)
        \/ Ids(inactive_lines) \subseteq expired'
    BY <1>5, <1>i, HistorySteps
  <2>3. lost = {}
    BY <1>1, <1>2, <2>1, <2>2
  <2>4. QED
    BY <2>3
<1>6. CASE Trim
  <2> DEFINE cut == Ids(Front(inactive_lines, cutInactive))
             cutToo == OriginalIds(Front(buffered_lines, cutBuffered))
  <2>1. /\ cutInactive \in 0 .. Len(inactive_lines) /\ cutBuffered \in 0 .. Len(buffered_lines)
        /\ inactive_lines' = Beyond(inactive_lines, cutInactive)
        /\ buffered_lines' = Beyond(buffered_lines, cutBuffered)
        /\ dropped_inactive_lines' = dropped_inactive_lines + cutInactive
        /\ dropped_buffered_lines' = dropped_buffered_lines + cutBuffered
        /\ UNCHANGED <<client_txqueue, client_toqueue, server_rxqueue>>
    BY <1>6, <1>q, TrimCuts DEF Trim, cutInactive, cutBuffered
  <2>2. cutInactive \in Nat /\ cutBuffered \in Nat
    BY <1>q, <2>1, LenProperties DEF QueuesOK
  <2>3. /\ Front(inactive_lines, cutInactive) \in Seq(KeptLine)
        /\ Len(Front(inactive_lines, cutInactive)) = cutInactive
        /\ Front(buffered_lines, cutBuffered) \in Seq(WaitingLine)
        /\ Len(Front(buffered_lines, cutBuffered)) = cutBuffered
    BY <1>i, <2>1, FrontOfSeq DEF SoundInv
  <2>4. /\ IsFiniteSet(cut) /\ Cardinality(cut) <= cutInactive /\ Cardinality(cut) \in Nat
        /\ IsFiniteSet(cutToo) /\ Cardinality(cutToo) <= cutBuffered /\ Cardinality(cutToo) \in Nat
    <3>1. /\ Front(inactive_lines, cutInactive) \in Seq(Line)
          /\ Front(buffered_lines, cutBuffered) \in Seq(Line)
          /\ cutToo \subseteq Ids(Front(buffered_lines, cutBuffered))
      BY <2>3, SoundIsLine, SoundQueue
    <3>2. /\ IsFiniteSet(cut) /\ Cardinality(cut) <= cutInactive /\ Cardinality(cut) \in Nat
      BY <2>3, <3>1, FewIds
    <3> DEFINE ids == Ids(Front(buffered_lines, cutBuffered))
    <3>3. IsFiniteSet(ids) /\ Cardinality(ids) <= cutBuffered /\ Cardinality(ids) \in Nat
      BY <2>3, <3>1, FewIds
    <3> HIDE DEF cutToo, ids
    <3>4. IsFiniteSet(cutToo) /\ Cardinality(cutToo) <= Cardinality(ids)
          /\ Cardinality(cutToo) \in Nat
      BY <3>1, <3>3, FS_Subset, FS_CardinalityType DEF ids
    <3>5. Cardinality(cutToo) <= cutBuffered
      BY <2>2, <3>3, <3>4
    <3>6. QED
      BY <3>2, <3>4, <3>5
  <2>5. lost \subseteq cut \union cutToo
    <3>1. /\ OriginalIds(inactive_lines) =
                OriginalIds(Front(inactive_lines, cutInactive)) \union OriginalIds(inactive_lines')
          /\ OriginalIds(buffered_lines) =
                OriginalIds(Front(buffered_lines, cutBuffered)) \union OriginalIds(buffered_lines')
      BY <1>q, <2>1, ContentsOfBeyond DEF QueuesOK
    <3>2. OriginalIds(Front(inactive_lines, cutInactive)) = cut
      BY <2>3, KeptQueue
    <3>3. OriginalIds(Backlog) \subseteq cutToo \union OriginalIds(Backlog)'
      BY <1>q, <2>1, <3>1, <3>2, BacklogParts
    <3>4. QED
      BY <1>1, <1>2, <3>1, <3>2, <3>3
  <2> HIDE DEF cut, cutToo, lost
  <2>6. /\ IsFiniteSet(cut \union cutToo)
        /\ Cardinality(cut \union cutToo) = Cardinality(cut) + Cardinality(cutToo)
                                             - Cardinality(cut \intersect cutToo)
        /\ Cardinality(cut \intersect cutToo) \in Nat
    BY <2>4, FS_Union, FS_Intersection, FS_CardinalityType
  <2>7. Cardinality(lost) <= Cardinality(cut \union cutToo)
    BY <2>5, <2>6, FS_Subset
  <2>8. Cardinality(lost) \in Nat
    BY <2>5, <2>6, FS_Subset, FS_CardinalityType
  <2>9. dropped_inactive_lines \in Nat /\ dropped_buffered_lines \in Nat
    BY <1>i DEF TypeOK, CountsOK
  <2>10. Cardinality(lost) <= (dropped_inactive_lines' - dropped_inactive_lines)
                                + (dropped_buffered_lines' - dropped_buffered_lines)
    <3>1. Cardinality(lost) <= cutInactive + cutBuffered
      BY <2>2, <2>4, <2>6, <2>7, <2>8
    <3>2. QED
      BY <2>1, <2>2, <2>9, <3>1
  <2>11. QED
    BY <2>10 DEF lost
<1>7. QED
  BY <1>3, <1>4, <1>5, <1>6 DEF Next, WaitForNetwork, Flush

\* LossIsCounted: a step that makes new lines disappear, other than into the
\* history or by /forget, adds as many to the two counts of dropped lines.
THEOREM LossCounted == Spec => LossIsCounted
<1>1. PromiseInv /\ PromiseInv' /\ [Next]_vars =>
         [LET held == OriginalIds(Backlog) \union Ids(inactive_lines)
              lost == held \ (OriginalIds(Chain)' \union expired')
          IN lost # {} => Cardinality(lost) <=
                (dropped_inactive_lines' - dropped_inactive_lines)
              + (dropped_buffered_lines' - dropped_buffered_lines)]_vars
  BY LossStep
<1>2. QED
  BY <1>1, PromiseInvariant, PTL DEF Spec, LossIsCounted

-----------------------------------------------------------------------------
(* No line is lost in silence.                                             *)

\* What a client was not sent of the possibly new lines is on the way to it.
ShownInv ==
    client_status = "CONNECTED" =>
        Ids(inactive_lines) \subseteq delivered \union Ids(client_txbuffer)
                                        \union Ids(client_txqueue) \union Ids(client_toqueue)

LEMMA ShownStep ==
    ASSUME PromiseInv, PromiseInv', ShownInv, [Next]_vars
    PROVE  ShownInv'
<1>i. TypeOK /\ TypeOK' /\ AwayInv /\ SoundInv /\ PhaseInv
  BY DEF PromiseInv
<1>q. QueuesOK /\ QueuesOK'
  BY <1>i DEF TypeOK
<1>c. ASSUME Verify \/ Tick \/ DispatchClient \/ HandleFlags
      PROVE  Ids(client_toqueue) \subseteq Ids(client_toqueue')
  BY <1>c, <1>i, <1>q, HandlersAdd, ExtraAdds DEF Added, QueuesOK
<1>e. Ids(<<>>) = {}
  BY ContentsOfEmpty
<1>1. CASE Verify
  BY <1>1, <1>c DEF Verify, ghosts, ShownInv
<1>2. CASE PromoteRefused \/ SkipSelect \/ UnqueueDone \/ FlushDone
  BY <1>2 DEF PromoteRefused, SkipSelect, UnqueueDone, FlushDone, auth, queues, ghosts, ShownInv
<1>3. CASE Promote
  <2>1. inactive_lines' = inactive_lines /\ Ids(inactive_lines) \subseteq Ids(client_toqueue')
    BY <1>3, <1>q, PromoteHolds DEF Promote
  <2>2. QED
    BY <2>1 DEF ShownInv
<1>4. CASE Select
  BY <1>4 DEF Select, DisconnectClient, ShownInv
<1>5. CASE Tick
  BY <1>5, <1>c DEF Tick, auth, ghosts, ShownInv
<1>6. CASE DispatchServer
  <2>1. Ids(client_toqueue') = Ids(client_toqueue) \union Ids(server_rxqueue)
    BY <1>6, <1>q, ContentsOfConcat DEF DispatchServer, QueuesOK
  <2>2. QED
    BY <1>6, <2>1 DEF DispatchServer, auth, ghosts, ShownInv
<1>7. CASE DispatchClient
  <2>1. UNCHANGED <<client_status, delivered, client_txbuffer, client_txqueue>>
    BY <1>7 DEF DispatchClient, auth
  <2>2. Ids(client_toqueue) \subseteq Ids(client_toqueue')
    BY <1>7, <1>c
  <2>3. inactive_lines' = inactive_lines \/ inactive_lines' = <<>>
    BY <1>7, CommandKeeps DEF InactiveToHistory
  <2>4. QED
    BY <1>e, <2>1, <2>2, <2>3 DEF ShownInv
<1>8. CASE MergeToQueue
  <2>1. /\ Ids(client_txqueue') = Ids(client_txqueue) \union Ids(client_toqueue)
        /\ Ids(client_toqueue') = {}
    BY <1>8, <1>q, ContentsOfConcat, ContentsOfEmpty DEF MergeToQueue, QueuesOK
  <2>2. QED
    BY <1>8, <2>1 DEF MergeToQueue, auth, ghosts, ShownInv
<1>9. CASE Unqueue
  <2>1. client_status' = "DISCONNECTED"
    BY <1>9, <1>i DEF Unqueue, auth, AwayInv
  <2>2. QED
    BY <2>1 DEF ShownInv
<1>10. CASE Fill
  <2> DEFINE h == Head(client_txqueue)
  <2>1. /\ Ids(client_txqueue) = ({h.id} \ {0}) \union Ids(client_txqueue')
        /\ h \in Line
    BY <1>10, <1>q, ContentsOfTail DEF Fill, CanFill, QueuesOK
  <2>2. Ids(client_txbuffer') = Ids(client_txbuffer) \union ({h.id} \ {0})
    BY <1>10, <1>q, <2>1, ContentsOfAppend DEF Fill, QueuesOK
  <2>3. Ids(inactive_lines') \subseteq Ids(inactive_lines) \union ({h.id} \ {0})
    <3>1. Ids(Append(inactive_lines, h)) = Ids(inactive_lines) \union ({h.id} \ {0})
      BY <1>q, <2>1, ContentsOfAppend DEF QueuesOK
    <3>2. inactive_lines' = inactive_lines \/ inactive_lines' = Append(inactive_lines, h)
      BY <1>10 DEF Fill
    <3>3. QED
      BY <3>1, <3>2
  <2>4. UNCHANGED <<client_status, delivered, client_toqueue>>
    BY <1>10 DEF Fill, auth, ghosts
  <2>5. QED
    BY <2>1, <2>2, <2>3, <2>4 DEF ShownInv
<1>11. CASE Write
  <2>1. /\ Ids(client_txbuffer) = ({Head(client_txbuffer).id} \ {0}) \union Ids(client_txbuffer')
        /\ delivered' = delivered \union ({Head(client_txbuffer).id} \ {0})
        /\ UNCHANGED <<client_status, client_txqueue, client_toqueue, inactive_lines>>
    BY <1>11, <1>q, ContentsOfTail DEF Write, auth, QueuesOK
  <2>2. QED
    BY <2>1 DEF ShownInv
<1>12. CASE Trim
  <2>1. Ids(inactive_lines') \subseteq Ids(inactive_lines)
    BY <1>12, <1>q, TrimCuts, ContentsOfBeyond DEF QueuesOK
  <2>2. UNCHANGED <<client_status, delivered, client_txbuffer, client_txqueue, client_toqueue>>
    BY <1>12 DEF Trim, auth
  <2>3. QED
    BY <2>1, <2>2 DEF ShownInv
<1>13. CASE HandleFlags
  <2>1. Ids(client_toqueue) \subseteq Ids(client_toqueue')
    BY <1>13, <1>c
  <2>2. inactive_lines' = inactive_lines \/ inactive_lines' = <<>>
    BY <1>13 DEF HandleFlags, InactiveToHistory
  <2>3. \/ client_status' = "DISCONNECTED"
        \/ UNCHANGED <<client_status, client_txbuffer>>
    BY <1>13 DEF HandleFlags, DisconnectClient
  <2>4. UNCHANGED <<delivered, client_txqueue>>
    BY <1>13 DEF HandleFlags
  <2>5. QED
    BY <1>e, <2>1, <2>2, <2>3, <2>4 DEF ShownInv
<1>14. CASE UNCHANGED vars
  BY <1>14 DEF vars, auth, queues, ghosts, ShownInv
<1>15. QED
  BY <1>1, <1>2, <1>3, <1>4, <1>5, <1>6, <1>7, <1>8, <1>9, <1>10, <1>11, <1>12, <1>13, <1>14
     DEF Next, WaitForNetwork, Dispatch, Flush

LEMMA SilentStep ==
    ASSUME PromiseInv, PromiseInv', ShownInv, NoSilentLoss, [Next]_vars
    PROVE  NoSilentLoss'
<1>i. TypeOK /\ TypeOK' /\ AwayInv /\ SoundInv /\ PhaseInv /\ OrderInv /\ RegularInv
  BY DEF PromiseInv
<1>q. QueuesOK /\ QueuesOK'
  BY <1>i DEF TypeOK
<1>k. /\ Ids(inactive_lines) = OriginalIds(inactive_lines)
      /\ Ids(inactive_lines') = OriginalIds(inactive_lines')
  BY KeptQueue DEF PromiseInv, SoundInv
<1>1. CASE Select
  <2>1. OriginalIds(Backlog)' = OriginalIds(Backlog) \union (regular' \ regular)
    BY <1>1, <1>i, FreshArrives
  <2>2. UNCHANGED <<inactive_lines, delivered, dropped, early>>
    BY <1>1 DEF Select
  <2>3. QED
    BY <2>1, <2>2 DEF NoSilentLoss
<1>2. CASE Fill
  <2>1. OriginalIds(Backlog) \union OriginalIds(inactive_lines)
           \subseteq OriginalIds(Backlog)' \union OriginalIds(inactive_lines')
    BY <1>2, <1>i, FreshPresented
  <2>2. UNCHANGED <<regular, delivered, dropped, early>>
    BY <1>2 DEF Fill, ghosts
  <2>3. QED
    BY <1>k, <2>1, <2>2 DEF NoSilentLoss
<1>3. CASE Trim
  <2>1. /\ cutInactive \in 0 .. Len(inactive_lines) /\ cutBuffered \in 0 .. Len(buffered_lines)
        /\ inactive_lines' = Beyond(inactive_lines, cutInactive)
        /\ buffered_lines' = Beyond(buffered_lines, cutBuffered)
        /\ dropped' = dropped \union OriginalIds(Front(inactive_lines, cutInactive))
                              \union OriginalIds(Front(buffered_lines, cutBuffered))
        /\ UNCHANGED <<client_txqueue, client_toqueue, server_rxqueue, regular, delivered, early>>
    BY <1>3, <1>q, TrimCuts DEF Trim, cutInactive, cutBuffered
  <2>2. Ids(inactive_lines) \subseteq Ids(inactive_lines') \union dropped'
    BY <1>k, <1>q, <2>1, ContentsOfBeyond DEF QueuesOK
  <2>3. OriginalIds(buffered_lines) \subseteq OriginalIds(buffered_lines') \union dropped'
    <3>1. OriginalIds(buffered_lines) =
             OriginalIds(Front(buffered_lines, cutBuffered)) \union OriginalIds(buffered_lines')
      BY <1>q, <2>1, ContentsOfBeyond DEF QueuesOK
    <3>2. QED
      BY <2>1, <3>1
  <2>4. OriginalIds(Backlog) \subseteq OriginalIds(Backlog)' \union dropped'
    BY <1>q, <2>1, <2>3, BacklogParts
  <2>5. dropped \subseteq dropped'
    BY <2>1
  <2>6. QED
    BY <2>1, <2>2, <2>4, <2>5 DEF NoSilentLoss
<1>4. CASE \/ Verify \/ PromoteRefused \/ Promote \/ SkipSelect \/ Dispatch
           \/ Write \/ FlushDone \/ HandleFlags \/ UNCHANGED vars
  <2>1. OriginalIds(Backlog)' = OriginalIds(Backlog)
    BY <1>4, <1>i, FreshKept
  <2>2. regular' = regular /\ delivered \subseteq delivered'
    BY <1>4 DEF Verify, PromoteRefused, Promote, SkipSelect, Dispatch, Tick, DispatchServer,
                DispatchClient, MergeToQueue, Unqueue, UnqueueDone, Write, FlushDone, HandleFlags,
                ghosts, vars
  <2>3. dropped' = dropped
    BY <1>4, <1>i, HistorySteps
  <2>4. CASE UNCHANGED <<history_lines, inactive_lines, early>>
    BY <2>1, <2>2, <2>3, <2>4 DEF NoSilentLoss
  <2>5. CASE client_status = "CONNECTED" /\ early' = early \union OnTheWay
    <3>1. Ids(client_txbuffer \o client_txqueue \o client_toqueue) =
             Ids(client_txbuffer) \union Ids(client_txqueue) \union Ids(client_toqueue)
      <4>1. /\ client_txbuffer \o client_txqueue \in Seq(Line)
            /\ Ids(client_txbuffer \o client_txqueue) = Ids(client_txbuffer) \union Ids(client_txqueue)
        BY <1>q, ContentsOfConcat DEF QueuesOK
      <4>2. Ids((client_txbuffer \o client_txqueue) \o client_toqueue) =
               Ids(client_txbuffer \o client_txqueue) \union Ids(client_toqueue)
        BY <1>q, <4>1, ContentsOfConcat DEF QueuesOK
      <4>3. QED
        BY <4>1, <4>2
    <3>2. Ids(inactive_lines) \subseteq delivered \union OnTheWay
      BY <2>5, <3>1 DEF OnTheWay, ShownInv
    <3>3. QED
      BY <2>1, <2>2, <2>3, <2>5, <3>2 DEF NoSilentLoss
  <2>6. QED
    BY <1>4, <1>i, <2>4, <2>5, HistorySteps
<1>5. QED
  BY <1>1, <1>2, <1>3, <1>4 DEF Next, WaitForNetwork, Flush

\* NoSilentLoss: a server line that no client was ever sent is waiting, possibly
\* new, dropped by the trim, or became history while it was being sent.
THEOREM NothingLostSilently == Spec => []NoSilentLoss
<1>1. Init => ShownInv /\ NoSilentLoss
  BY DEF Init, ShownInv, NoSilentLoss
<1>2. PromiseInv /\ PromiseInv' /\ ShownInv /\ [Next]_vars => ShownInv'
  BY ShownStep
<1>3. PromiseInv /\ PromiseInv' /\ ShownInv /\ NoSilentLoss /\ [Next]_vars => NoSilentLoss'
  BY SilentStep
<1>4. QED
  BY <1>1, <1>2, <1>3, PromiseInvariant, PTL DEF Spec

-----------------------------------------------------------------------------
(* A session presents its lines in arrival order, and no session writes a  *)
(* line of the server that one has written before.                         *)

\* All lines on the way to the client, and those among them of its session.
Path == client_txbuffer \o client_txqueue \o client_toqueue
Mine == Beyond(Path, leftover)

\* What is beyond the first n lines grows at its end with the queue, and is
\* what is beyond the first n - 1 of the rest of the queue.
LEMMA BeyondOfConcat ==
    ASSUME NEW q \in Seq(Line), NEW r \in Seq(Line), NEW n \in 0 .. Len(q)
    PROVE  /\ n \in 0 .. Len(q \o r)
           /\ Beyond(q \o r, n) = Beyond(q, n) \o r
<1>1. /\ Len(q) \in Nat /\ Len(r) \in Nat /\ n \in Nat /\ n <= Len(q)
      /\ q \o r \in Seq(Line) /\ Len(q \o r) = Len(q) + Len(r)
  BY LenProperties, ConcatProperties
<1> DEFINE b == Beyond(q, n)
           c == Beyond(q \o r, n)
           qr == q \o r
<1>2. n \in 0 .. Len(q \o r)
  BY <1>1
<1>3. /\ b \in Seq(Line) /\ Len(b) = Len(q) - n
      /\ \A i \in 1 .. Len(q) - n : b[i] = q[n + i]
  <2>1. n + 1 \in 1 .. Len(q) + 1 /\ Len(q) \in n .. Len(q)
    BY <1>1
  <2>2. QED
    BY <1>1, <2>1, BeyondOfSeq, SubSeqProperties DEF Beyond
<1>4. /\ c \in Seq(Line) /\ Len(c) = Len(q) + Len(r) - n
      /\ \A i \in 1 .. Len(q) + Len(r) - n : c[i] = qr[n + i]
  <2>1. qr \in Seq(Line) /\ Len(qr) = Len(q) + Len(r)
    BY <1>1
  <2> HIDE DEF qr
  <2>2. n + 1 \in 1 .. Len(qr) + 1 /\ Len(qr) \in n .. Len(qr) /\ n \in 0 .. Len(qr)
    BY <1>1, <2>1
  <2>3. Beyond(qr, n) \in Seq(Line) /\ Len(Beyond(qr, n)) = Len(qr) - n
        /\ \A i \in 1 .. Len(qr) - n : Beyond(qr, n)[i] = qr[n + i]
    BY <1>1, <2>1, <2>2, BeyondOfSeq, SubSeqProperties DEF Beyond
  <2>4. QED
    BY <1>1, <2>1, <2>3 DEF qr
<1>5. \A i \in 1 .. Len(q) + Len(r) :
         qr[i] = IF i <= Len(q) THEN q[i] ELSE r[i - Len(q)]
  BY ConcatProperties
<1> HIDE DEF b, c, qr
<1>6. /\ b \o r \in Seq(Line) /\ Len(b \o r) = Len(q) - n + Len(r)
      /\ \A i \in 1 .. Len(q) - n + Len(r) :
            (b \o r)[i] = IF i <= Len(q) - n THEN b[i] ELSE r[i - (Len(q) - n)]
  <2>1. /\ b \o r \in Seq(Line) /\ Len(b \o r) = Len(b) + Len(r)
        /\ \A i \in 1 .. Len(b) + Len(r) :
              (b \o r)[i] = IF i <= Len(b) THEN b[i] ELSE r[i - Len(b)]
    BY <1>3, ConcatProperties, Zenon
  <2>2. QED
    BY <1>3, <2>1
<1>7. ASSUME NEW i \in 1 .. Len(q) + Len(r) - n
      PROVE  c[i] = (b \o r)[i]
  <2>1. n + i \in 1 .. Len(q) + Len(r) /\ i \in 1 .. Len(q) - n + Len(r)
    BY <1>1
  <2>2. CASE i <= Len(q) - n
    <3>1. n + i <= Len(q) /\ i \in 1 .. Len(q) - n
      BY <1>1, <2>2
    <3>2. QED
      BY <1>3, <1>4, <1>5, <1>6, <2>1, <2>2, <3>1
  <2>3. CASE ~(i <= Len(q) - n)
    <3>1. ~(n + i <= Len(q)) /\ n + i - Len(q) = i - (Len(q) - n)
      BY <1>1, <2>3
    <3>2. c[i] = r[n + i - Len(q)]
      <4>1. c[i] = qr[n + i]
        BY <1>4
      <4>2. qr[n + i] = r[n + i - Len(q)]
        BY <1>5, <2>1, <3>1
      <4>3. QED
        BY <4>1, <4>2
    <3>3. (b \o r)[i] = r[i - (Len(q) - n)]
      BY <1>6, <2>1, <2>3
    <3>4. QED
      BY <3>1, <3>2, <3>3
  <2>4. QED
    BY <2>2, <2>3
<1>8. Len(q) - n + Len(r) = Len(q) + Len(r) - n
  BY <1>1
<1>9. c = b \o r
  BY <1>4, <1>6, <1>7, <1>8, SeqEqual
<1>10. QED
  BY <1>2, <1>9 DEF b, c, qr

LEMMA BeyondAll ==
    ASSUME NEW q \in Seq(Line), NEW r \in Seq(Line)
    PROVE  Beyond(q \o r, Len(q)) = r
<1>1. Len(q) \in Nat /\ Len(q) \in 0 .. Len(q)
  BY LenProperties
<1>2. Beyond(q, Len(q)) = <<>>
  BY <1>1, SubSeqEmpty DEF Beyond
<1>3. QED
  BY <1>1, <1>2, BeyondOfConcat, ConcatEmptySeq

LEMMA BeyondNone ==
    ASSUME NEW q \in Seq(Line)
    PROVE  Beyond(q, 0) = q
<1>1. <<>> \in Seq(Line) /\ Len(<<>>) = 0 /\ <<>> \o q = q
  BY EmptySeq, ConcatEmptySeq
<1>2. Beyond(<<>> \o q, 0) = q
  BY <1>1, BeyondAll
<1>3. QED
  BY <1>1, <1>2

LEMMA BeyondOfRest ==
    ASSUME NEW line \in Line, NEW r \in Seq(Line), NEW n \in Nat \ {0},
           n <= Len(<<line>> \o r)
    PROVE  /\ n - 1 \in 0 .. Len(r)
           /\ Beyond(<<line>> \o r, n) = Beyond(r, n - 1)
<1> DEFINE one == <<line>>
           f == Front(r, n - 1)
           b == Beyond(r, n - 1)
<1>1. one \in Seq(Line) /\ Len(one) = 1 /\ Len(r) \in Nat
  BY LenProperties
<1>2. Len(one \o r) = 1 + Len(r)
  BY <1>1, ConcatProperties
<1>3. n - 1 \in 0 .. Len(r)
  BY <1>1, <1>2
<1>4. /\ f \in Seq(Line) /\ Len(f) = n - 1 /\ b \in Seq(Line) /\ r = f \o b
  BY <1>3, FrontOfSeq, BeyondOfSeq, FrontAndBeyond
<1> HIDE DEF one, f, b
<1>5. one \o r = (one \o f) \o b
  <2>1. one \in Seq(Line) /\ f \in Seq(Line) /\ b \in Seq(Line)
    BY <1>1, <1>4
  <2>2. (one \o f) \o b = one \o (f \o b)
    BY <2>1, ConcatAssociative
  <2>3. QED
    BY <1>4, <2>2
<1>6. one \o f \in Seq(Line) /\ Len(one \o f) = n
  <2>1. one \o f \in Seq(Line) /\ Len(one \o f) = Len(one) + Len(f)
    BY <1>1, <1>4, ConcatProperties
  <2>2. QED
    BY <1>1, <1>4, <2>1
<1>7. Beyond((one \o f) \o b, Len(one \o f)) = b
  BY <1>4, <1>6, BeyondAll
<1>8. QED
  BY <1>3, <1>5, <1>6, <1>7 DEF one, b

\* The parts of the path to the client can be read in any grouping.
LEMMA PathParts ==
    ASSUME QueuesOK
    PROVE  /\ Path \in Seq(Line)
           /\ client_txbuffer \o client_txqueue \in Seq(Line)
           /\ \A r \in Seq(Line) :
                 client_txbuffer \o client_txqueue \o (client_toqueue \o r) = Path \o r
           /\ client_txbuffer \o (client_txqueue \o client_toqueue) \o <<>> = Path
<1>1. /\ client_txbuffer \in Seq(Line) /\ client_txqueue \in Seq(Line) /\ client_toqueue \in Seq(Line)
  BY DEF QueuesOK
<1> DEFINE xt == client_txbuffer \o client_txqueue
           tc == client_txqueue \o client_toqueue
<1>2. xt \in Seq(Line) /\ tc \in Seq(Line) /\ client_txbuffer \o tc = xt \o client_toqueue
  BY <1>1, ConcatProperties, ConcatAssociative
<1> HIDE DEF xt, tc
<1>3. xt \o client_toqueue \in Seq(Line) /\ client_txbuffer \o tc \in Seq(Line)
  BY <1>1, <1>2, ConcatProperties
<1>4. \A r \in Seq(Line) : xt \o (client_toqueue \o r) = (xt \o client_toqueue) \o r
  <2> TAKE r \in Seq(Line)
  <2>1. client_toqueue \in Seq(Line) /\ xt \in Seq(Line)
    BY <1>1, <1>2
  <2>2. (xt \o client_toqueue) \o r = xt \o (client_toqueue \o r)
    BY <2>1, ConcatAssociative
  <2>3. QED
    BY <2>2
<1>5. (client_txbuffer \o tc) \o <<>> = client_txbuffer \o tc
  BY <1>3, ConcatEmptySeq
<1>6. QED
  BY <1>2, <1>3, <1>4, <1>5 DEF xt, tc, Path

\* What a session has presented, and what it is still to present, ascend one
\* after the other and are below what the server has sent since.
SessionInv ==
    client_status = "CONNECTED" =>
        /\ leftover \in 0 .. Len(Path)
        /\ MarksRise(Mine) /\ Below({shown}, Marks(Mine))
        /\ {shown} \union Marks(Mine) \subseteq 0 .. arrived
        /\ Below({shown} \union Marks(Mine), Marks(server_rxqueue))

\* Server lines that were not given to the transmit buffer.
Waiting ==
    Stamps(buffered_lines) \union Stamps(client_txqueue) \union Stamps(client_toqueue)
       \union Stamps(server_rxqueue)

\* What has been written is below what is in the transmit buffer, and that is
\* in order and below what waits, whoever is connected.
WrittenInv ==
    /\ InOrder(client_txbuffer)
    /\ Below({newest}, Stamps(client_txbuffer) \union Waiting)
    /\ Below(Stamps(client_txbuffer), Waiting)
    /\ {newest} \union Stamps(client_txbuffer) \subseteq 0 .. arrived

LEMMA PresentedHolds == TypeOK /\ SessionInv => PresentedInOrder
<1> SUFFICES ASSUME TypeOK, SessionInv, client_status = "CONNECTED" PROVE PresentedInOrder
  BY DEF PresentedInOrder
<1>q. QueuesOK
  BY DEF TypeOK
<1>1. Mine \in Seq(Line)
  BY <1>q, PathParts, BeyondOfSeq DEF SessionInv, Mine
<1> DEFINE own == {i \in DOMAIN Mine : Mine[i].id # 0 /\ Mine[i].kind \in Presented}
<1>2. /\ DOMAIN MarksOf(Mine) = DOMAIN Mine
      /\ \A i \in own : MarksOf(Mine)[i] = Mine[i].id /\ Mine[i].id # 0 /\ i \in DOMAIN Mine
  BY DEF MarksOf, NumbersOf, Number
<1>3. \A i \in own : Mine[i].id \in Marks(Mine)
  BY <1>2 DEF Marks, Positive
<1>4. \A i \in own : shown < Mine[i].id
  BY <1>3 DEF SessionInv, Below
<1>5. \A i, j \in own : i < j => Mine[i].id < Mine[j].id
  BY <1>2 DEF SessionInv, MarksRise, Rising
<1>6. QED
  BY <1>4, <1>5 DEF PresentedInOrder, Mine, Path

LEMMA WrittenHolds == TypeOK /\ OrderInv /\ WrittenInv => WrittenOnce
<1> SUFFICES ASSUME TypeOK, OrderInv, WrittenInv PROVE WrittenOnce
  OBVIOUS
<1>q. QueuesOK
  BY DEF TypeOK
<1>c. \A q, r \in Seq(Line) :
         /\ q \o r \in Seq(Line)
         /\ Stamps(q \o r) = Stamps(q) \union Stamps(r)
         /\ InOrder(q \o r) <=> InOrder(q) /\ InOrder(r) /\ Below(Stamps(q), Stamps(r))
  BY OrderOfConcat, ConcatProperties
<1> DEFINE p1 == client_txbuffer \o buffered_lines
           p2 == p1 \o client_txqueue
           p3 == p2 \o client_toqueue
           path == p3 \o server_rxqueue
<1>1. /\ p1 \in Seq(Line) /\ InOrder(p1)
      /\ Stamps(p1) = Stamps(client_txbuffer) \union Stamps(buffered_lines)
  BY <1>c, <1>q DEF QueuesOK, OrderInv, WrittenInv, Waiting, Below
<1> HIDE DEF p1
<1>2. /\ p2 \in Seq(Line) /\ InOrder(p2)
      /\ Stamps(p2) = Stamps(p1) \union Stamps(client_txqueue)
  <2>1. Below(Stamps(p1), Stamps(client_txqueue))
    BY <1>1 DEF OrderInv, WrittenInv, Waiting, Below
  <2>2. QED
    BY <1>c, <1>q, <1>1, <2>1 DEF QueuesOK, OrderInv
<1> HIDE DEF p2
<1>3. /\ p3 \in Seq(Line) /\ InOrder(p3)
      /\ Stamps(p3) = Stamps(p2) \union Stamps(client_toqueue)
  <2>1. Below(Stamps(p2), Stamps(client_toqueue))
    BY <1>1, <1>2 DEF OrderInv, WrittenInv, Waiting, Below
  <2>2. QED
    BY <1>c, <1>q, <1>2, <2>1 DEF QueuesOK, OrderInv
<1> HIDE DEF p3
<1>4. /\ path \in Seq(Line) /\ InOrder(path)
      /\ Stamps(path) = Stamps(p3) \union Stamps(server_rxqueue)
  <2>1. Below(Stamps(p3), Stamps(server_rxqueue))
    BY <1>1, <1>2, <1>3 DEF OrderInv, WrittenInv, Waiting, Below
  <2>2. QED
    BY <1>c, <1>q, <1>3, <2>1 DEF QueuesOK, OrderInv
<1>5. Below({newest}, Stamps(path))
  BY <1>1, <1>2, <1>3, <1>4 DEF WrittenInv, Waiting, Below
<1> HIDE DEF path
<1> DEFINE own == {i \in DOMAIN path : path[i].id # 0 /\ path[i].kind \in ServerKind}
<1>6. /\ DOMAIN StampsOf(path) = DOMAIN path
      /\ \A i \in own : StampsOf(path)[i] = path[i].id /\ path[i].id # 0 /\ i \in DOMAIN path
  BY DEF StampsOf, NumbersOf, Number
<1>7. \A i \in own : path[i].id \in Stamps(path)
  BY <1>6 DEF Stamps, Positive
<1>8. \A i \in own : newest < path[i].id
  BY <1>5, <1>7 DEF Below
<1>9. \A i, j \in own : i < j => path[i].id < path[j].id
  BY <1>4, <1>6 DEF InOrder, Rising
<1>10. QED
  BY <1>8, <1>9 DEF WrittenOnce, path, p3, p2, p1

\* A step of a session that adds lines to the end of the path.
LEMMA PathGrows ==
    ASSUME QueuesOK, SessionInv, client_status = "CONNECTED",
           NEW r \in Seq(Line), Path' = Path \o r, UNCHANGED <<leftover, shown>>
    PROVE  /\ leftover' \in 0 .. Len(Path')
           /\ Marks(Mine') = Marks(Mine) \union Marks(r)
           /\ MarksRise(Mine') <=> MarksRise(Mine) /\ MarksRise(r) /\ Below(Marks(Mine), Marks(r))
<1>1. Path \in Seq(Line) /\ leftover \in 0 .. Len(Path)
  BY PathParts DEF SessionInv
<1>2. leftover \in 0 .. Len(Path \o r) /\ Beyond(Path \o r, leftover) = Beyond(Path, leftover) \o r
  BY <1>1, BeyondOfConcat
<1>3. Mine \in Seq(Line) /\ Mine' = Mine \o r
  BY <1>1, <1>2, BeyondOfSeq DEF Mine
<1>4. /\ Marks(Mine \o r) = Marks(Mine) \union Marks(r)
      /\ MarksRise(Mine \o r) <=> MarksRise(Mine) /\ MarksRise(r) /\ Below(Marks(Mine), Marks(r))
  BY <1>3, MarksOfConcat
<1>5. QED
  BY <1>2, <1>3, <1>4

\* What a new client is sent is in order: context, possibly new lines, then
\* certainly new ones.
LEMMA PromoteRises ==
    ASSUME TypeOK, SoundInv, PhaseInv, OrderInv, Promote
    PROVE  /\ MarksRise(client_toqueue')
           /\ Marks(client_toqueue') \subseteq 1 .. arrived
<1>q. QueuesOK
  BY DEF TypeOK
<1>1. PICK handshake \in {<<>>, <<McpLine>>} :
         client_toqueue' =
            client_toqueue \o <<Message>> \o RecallHistory(ContextLines)
               \o CopiesOf(inactive_lines) \o buffered_lines
               \o <<Message>> \o handshake
  BY DEF Promote
<1> DEFINE note == <<Message>>
           context == RecallHistory(ContextLines)
           news == CopiesOf(inactive_lines)
           q1 == client_toqueue \o note
           q2 == q1 \o context
           q3 == q2 \o news
           q4 == q3 \o buffered_lines
           q5 == q4 \o note
<1>2. client_toqueue \in Seq(Line) /\ Marks(client_toqueue) = {} /\ MarksRise(client_toqueue)
  BY <1>q, NoIds DEF Promote, PhaseInv, QueuesOK
<1>3. note \in Seq(Line) /\ Marks(note) = {} /\ MarksRise(note)
  BY MessageIsLine, MadeLines, OrderOfOne
<1>4. handshake \in Seq(Line) /\ Marks(handshake) = {} /\ MarksRise(handshake)
  <2>1. <<McpLine>> \in Seq(Line) /\ Marks(<<McpLine>>) = {} /\ MarksRise(<<McpLine>>)
    BY McpLineIsLine, MadeLines, OrderOfOne
  <2>2. <<>> \in Seq(Line) /\ Marks(<<>>) = {} /\ MarksRise(<<>>)
    BY OrderOfEmpty, EmptySeq
  <2>3. QED
    BY <1>1, <2>1, <2>2
\* The copies of kept lines have the order of their numbers.
<1>k. ASSUME NEW q \in Seq(KeptLine), InOrder(q)
      PROVE  CopiesOf(q) \in Seq(Line) /\ Marks(CopiesOf(q)) = Stamps(q) /\ MarksRise(CopiesOf(q))
  BY <1>k, SoundIsLine, KeptQueue, OrderOfCopies
<1>5. /\ context \in Seq(Line) /\ MarksRise(context)
      /\ Marks(context) \subseteq Stamps(history_lines)
  <2> DEFINE kept == Len(history_lines) - Least(ContextLines, Len(history_lines))
             last == Beyond(history_lines, kept)
  <2>1. kept \in 0 .. Len(history_lines)
    BY <1>q, LenProperties, BufferAssumption DEF Least, QueuesOK
  <2>2. last \in Seq(KeptLine) /\ InOrder(last) /\ Stamps(last) \subseteq Stamps(history_lines)
    BY <1>q, <2>1, BeyondOfSeq, OrderOfBeyond DEF QueuesOK, SoundInv, OrderInv
  <2>3. context = CopiesOf(last)
    BY DEF RecallHistory, Last
  <2> HIDE DEF last
  <2>4. QED
    BY <1>k, <2>2, <2>3
<1>6. news \in Seq(Line) /\ Marks(news) = Stamps(inactive_lines) /\ MarksRise(news)
  BY <1>k DEF SoundInv, OrderInv
<1>7. /\ buffered_lines \in Seq(Line) /\ Marks(buffered_lines) = Stamps(buffered_lines)
      /\ MarksRise(buffered_lines)
  BY SoundIsLine, WaitingQueue DEF SoundInv, OrderInv
<1>8. \A q, r \in Seq(Line) :
         /\ q \o r \in Seq(Line) /\ Marks(q \o r) = Marks(q) \union Marks(r)
         /\ MarksRise(q) /\ MarksRise(r) /\ Below(Marks(q), Marks(r)) => MarksRise(q \o r)
  BY MarksOfConcat
<1> HIDE DEF note, context, news
<1>9. q1 \in Seq(Line) /\ Marks(q1) = {} /\ MarksRise(q1)
  BY <1>2, <1>3, <1>8 DEF Below
<1> HIDE DEF q1
<1>10. q2 \in Seq(Line) /\ Marks(q2) = Marks(context) /\ MarksRise(q2)
  BY <1>5, <1>8, <1>9 DEF Below
<1> HIDE DEF q2
<1>11. q3 \in Seq(Line) /\ Marks(q3) = Marks(context) \union Marks(news) /\ MarksRise(q3)
  BY <1>5, <1>6, <1>8, <1>10 DEF Below, OrderInv
<1> HIDE DEF q3
<1>12. q4 \in Seq(Line) /\ Marks(q4) = Marks(q3) \union Marks(buffered_lines) /\ MarksRise(q4)
  <2>1. Below(Marks(q3), Marks(buffered_lines))
    BY <1>5, <1>6, <1>7, <1>11 DEF Below, OrderInv
  <2>2. QED
    BY <1>7, <1>8, <1>11, <2>1
<1> HIDE DEF q4
<1>13. q5 \in Seq(Line) /\ Marks(q5) = Marks(q4) /\ MarksRise(q5)
  BY <1>3, <1>8, <1>12 DEF Below
<1> HIDE DEF q5
<1>14. Marks(q5 \o handshake) = Marks(q5) /\ MarksRise(q5 \o handshake)
  <2>1. Below(Marks(q5), Marks(handshake))
    BY <1>4 DEF Below
  <2>2. /\ Marks(q5 \o handshake) = Marks(q5) \union Marks(handshake)
        /\ MarksRise(q5 \o handshake)
    BY <1>4, <1>8, <1>13, <2>1
  <2>3. QED
    BY <1>4, <2>2
<1>15. Marks(q5) \subseteq 1 .. arrived
  BY <1>5, <1>6, <1>7, <1>11, <1>12, <1>13 DEF OrderInv
<1>16. QED
  BY <1>1, <1>14, <1>15 DEF q1, q2, q3, q4, q5, note, context, news

\* Lines that arrive have new numbers.
LEMMA NewNumbers ==
    ASSUME TypeOK, PhaseInv, Select
    PROVE  /\ Stamps(server_rxqueue') \subseteq Nat /\ Marks(server_rxqueue') \subseteq Nat
           /\ \A n \in Stamps(server_rxqueue') \union Marks(server_rxqueue') : n > arrived
           /\ arrived' \in Nat /\ arrived' >= arrived
<1>q. arrived \in Nat
  BY DEF TypeOK, GhostsOK
<1> PICK batch \in ServerBatches :
      /\ arrived' = arrived + Len(batch)
      /\ server_rxqueue' = server_rxqueue \o
            [i \in DOMAIN batch |-> [id |-> arrived + i, kind |-> batch[i]]]
  BY DEF Select, ReadServer
<1> DEFINE new == [i \in DOMAIN batch |-> [id |-> arrived + i, kind |-> batch[i]]]
<1>1. /\ Len(batch) \in Nat /\ DOMAIN batch = 1 .. Len(batch)
      /\ \A i \in 1 .. Len(batch) : batch[i] \in ServerKind
  BY LenProperties, ElementOfSeq, BatchAssumption
<1>2. new \in Seq(Line)
  <2>1. \A i \in 1 .. Len(batch) : [id |-> arrived + i, kind |-> batch[i]] \in Line
    BY <1>1, <1>q DEF Line, Kind
  <2>2. QED
    BY <1>1, <2>1, FunctionIsSeq
<1>3. \A n \in Ids(new) : n \in Nat /\ n > arrived
  BY <1>q, <1>1 DEF Ids
<1> HIDE DEF new
<1>4. server_rxqueue' = new
  <2>1. server_rxqueue = <<>>
    BY DEF Select, PhaseInv
  <2>2. <<>> \o new = new
    BY <1>2, ConcatEmptySeq
  <2>3. QED
    BY <2>1, <2>2 DEF new
<1>5. arrived' \in Nat /\ arrived' >= arrived
  BY <1>q, <1>1
<1>6. Stamps(new) \subseteq Ids(new) /\ Marks(new) \subseteq Ids(new)
  BY <1>2, StampsAndMarks
<1>7. QED
  BY <1>3, <1>4, <1>5, <1>6

LEMMA SessionStep ==
    ASSUME PromiseInv, PromiseInv', SessionInv, [Next]_vars
    PROVE  SessionInv'
<1>i. TypeOK /\ TypeOK' /\ AwayInv /\ SoundInv /\ PhaseInv /\ OrderInv
  BY DEF PromiseInv
<1>q. /\ QueuesOK /\ QueuesOK' /\ client_status \in {"DISCONNECTED", "CONNECTED"}
      /\ shown \in Nat /\ arrived \in Nat
  BY <1>i DEF TypeOK, LoopOK, GhostsOK
<1> SUFFICES ASSUME client_status' = "CONNECTED"
             PROVE  /\ leftover' \in 0 .. Len(Path')
                    /\ MarksRise(Mine') /\ Below({shown'}, Marks(Mine'))
                    /\ {shown'} \union Marks(Mine') \subseteq 0 .. arrived'
                    /\ Below({shown'} \union Marks(Mine'), Marks(server_rxqueue'))
  BY DEF SessionInv
<1>p. Path \in Seq(Line)
  BY <1>q, PathParts
<1>m. client_status = "CONNECTED" => Mine \in Seq(Line)
  BY <1>p, BeyondOfSeq DEF SessionInv, Mine
\* Steps of a session that send it no line with a number.
<1>s. ASSUME client_status = "CONNECTED", Path' = Path,
             UNCHANGED <<leftover, shown, arrived, server_rxqueue>>
      PROVE  SessionInv'
  BY <1>s DEF SessionInv, Mine
<1>a. ASSUME client_status = "CONNECTED",
             UNCHANGED <<client_txbuffer, client_txqueue, leftover, shown, arrived, server_rxqueue>>,
             Verify \/ Tick \/ DispatchClient \/ HandleFlags
      PROVE  SessionInv'
  <2>1. PICK r \in Seq(ExtraLine) : client_toqueue' = client_toqueue \o r
    BY <1>a, <1>i, <1>q, HandlersAdd DEF Added
  <2>2. r \in Seq(Line) /\ Marks(r) = {} /\ MarksRise(r)
    BY ExtraQueue
  <2>3. Path' = Path \o r
    BY <1>a, <1>q, <2>1, <2>2, PathParts DEF Path
  <2>4. /\ leftover' \in 0 .. Len(Path')
        /\ Marks(Mine') = Marks(Mine) \union Marks(r)
        /\ MarksRise(Mine') <=> MarksRise(Mine) /\ MarksRise(r) /\ Below(Marks(Mine), Marks(r))
    BY <1>a, <1>q, <2>2, <2>3, PathGrows
  <2>5. QED
    BY <1>a, <2>2, <2>4 DEF SessionInv, Below
<1>1. CASE Verify
  BY <1>1, <1>a DEF Verify, ghosts, SessionInv
<1>2. CASE PromoteRefused \/ SkipSelect \/ UnqueueDone \/ FlushDone \/ UNCHANGED vars
  BY <1>2, <1>s DEF PromoteRefused, SkipSelect, UnqueueDone, FlushDone, auth, queues, ghosts, vars,
                    Path, SessionInv
<1>3. CASE Promote
  <2>1. /\ client_txqueue' = client_txqueue /\ client_txbuffer' = <<>> /\ server_rxqueue' = <<>>
        /\ leftover' = Len(client_txqueue) /\ shown' = 0 /\ arrived' = arrived
    BY <1>3, <1>i DEF Promote, PhaseInv
  <2>2. client_txqueue \in Seq(Line) /\ client_toqueue' \in Seq(Line)
    BY <1>q DEF QueuesOK
  <2>3. Path' = client_txqueue \o client_toqueue'
    <3>1. <<>> \o client_txqueue = client_txqueue
      BY <2>2, ConcatEmptySeq
    <3>2. Path' = <<>> \o client_txqueue \o client_toqueue'
      BY <2>1 DEF Path
    <3>3. QED
      BY <3>1, <3>2
  <2>4. Mine' = client_toqueue'
    BY <2>1, <2>2, <2>3, BeyondAll DEF Mine
  <2>5. leftover' \in 0 .. Len(Path')
    <3>1. Len(client_txqueue \o client_toqueue') = Len(client_txqueue) + Len(client_toqueue')
          /\ Len(client_txqueue) \in Nat /\ Len(client_toqueue') \in Nat
      BY <2>2, ConcatProperties, LenProperties
    <3>2. QED
      BY <2>1, <2>3, <3>1
  <2>6. MarksRise(client_toqueue') /\ Marks(client_toqueue') \subseteq 1 .. arrived
    BY <1>3, <1>i, PromoteRises
  <2>7. Marks(<<>>) = {}
    BY OrderOfEmpty
  <2>8. QED
    BY <1>q, <2>1, <2>4, <2>5, <2>6, <2>7 DEF Below
<1>4. CASE Select
  <2>1. client_status = "CONNECTED" /\ UNCHANGED client_txbuffer
    BY <1>4, <1>q DEF Select, DisconnectClient
  <2>2. Path' = Path /\ Mine' = Mine /\ UNCHANGED <<leftover, shown>>
    BY <1>4, <2>1 DEF Select, Path, Mine
  <2>3. /\ Marks(server_rxqueue') \subseteq Nat /\ \A n \in Marks(server_rxqueue') : n > arrived
        /\ arrived' \in Nat /\ arrived' >= arrived
    BY <1>4, <1>i, NewNumbers
  <2>4. {shown} \union Marks(Mine) \subseteq 0 .. arrived
    BY <2>1 DEF SessionInv
  <2>5. /\ {shown} \union Marks(Mine) \subseteq 0 .. arrived'
        /\ Below({shown} \union Marks(Mine), Marks(server_rxqueue'))
    BY <1>q, <2>3, <2>4 DEF Below
  <2>6. QED
    BY <2>1, <2>2, <2>5 DEF SessionInv
<1>5. CASE Tick
  BY <1>5, <1>a DEF Tick, auth, ghosts, SessionInv
<1>6. CASE DispatchServer
  <2>1. /\ client_status = "CONNECTED" /\ client_toqueue' = client_toqueue \o server_rxqueue
        /\ server_rxqueue' = <<>>
        /\ UNCHANGED <<client_txbuffer, client_txqueue, leftover, shown, arrived>>
    BY <1>6 DEF DispatchServer, auth, ghosts
  <2>2. server_rxqueue \in Seq(Line) /\ MarksRise(server_rxqueue)
        /\ Marks(server_rxqueue) \subseteq 1 .. arrived
    BY <1>i, SoundIsLine, ServerQueue DEF SoundInv, OrderInv
  <2>3. Path' = Path \o server_rxqueue
    BY <1>q, <2>1, <2>2, PathParts DEF Path
  <2>4. /\ leftover' \in 0 .. Len(Path')
        /\ Marks(Mine') = Marks(Mine) \union Marks(server_rxqueue)
        /\ MarksRise(Mine') <=> /\ MarksRise(Mine) /\ MarksRise(server_rxqueue)
                                /\ Below(Marks(Mine), Marks(server_rxqueue))
    BY <1>q, <2>1, <2>2, <2>3, PathGrows
  <2>5. Marks(<<>>) = {}
    BY OrderOfEmpty
  <2>6. QED
    BY <1>q, <2>1, <2>2, <2>4, <2>5 DEF SessionInv, Below
<1>7. CASE DispatchClient
  BY <1>7, <1>a, CommandKeeps DEF SessionInv
<1>8. CASE MergeToQueue
  <2>1. /\ client_status = "CONNECTED"
        /\ client_txqueue' = client_txqueue \o client_toqueue /\ client_toqueue' = <<>>
        /\ UNCHANGED <<client_txbuffer, leftover, shown, arrived, server_rxqueue>>
    BY <1>8 DEF MergeToQueue, auth, ghosts
  <2>2. Path' = Path
    BY <1>q, <2>1, PathParts DEF Path
  <2>3. QED
    BY <1>s, <2>1, <2>2 DEF SessionInv
<1>9. CASE Unqueue
  BY <1>9, <1>i DEF Unqueue, auth, AwayInv
<1>10. CASE Fill
  <2>1. /\ client_status = "CONNECTED" /\ client_txqueue # <<>>
        /\ client_txbuffer' = Append(client_txbuffer, Head(client_txqueue))
        /\ client_txqueue' = Tail(client_txqueue)
        /\ UNCHANGED <<client_toqueue, leftover, shown, arrived, server_rxqueue>>
    BY <1>10 DEF Fill, CanFill, auth, ghosts
  <2> DEFINE one == <<Head(client_txqueue)>>
             rest == Tail(client_txqueue)
  <2>2. /\ client_txbuffer \in Seq(Line) /\ one \in Seq(Line) /\ rest \in Seq(Line)
        /\ client_txqueue = one \o rest /\ client_txbuffer' = client_txbuffer \o one
    <3>1. client_txbuffer \in Seq(Line) /\ client_txqueue \in Seq(Line)
      BY <1>q DEF QueuesOK
    <3>2. /\ client_txqueue = one \o rest /\ rest \in Seq(Line)
          /\ Head(client_txqueue) \in Line
      BY <2>1, <3>1, HeadAndTail
    <3>3. one \in Seq(Line) /\ client_txbuffer' = client_txbuffer \o one
      BY <2>1, <3>1, <3>2, AppendIsConcat
    <3>4. QED
      BY <3>1, <3>2, <3>3
  <2> HIDE DEF one, rest
  <2>3. (client_txbuffer \o one) \o rest = client_txbuffer \o client_txqueue
    <3>1. (client_txbuffer \o one) \o rest = client_txbuffer \o (one \o rest)
      <4>1. client_txbuffer \in Seq(Line) /\ one \in Seq(Line) /\ rest \in Seq(Line)
        BY <2>2
      <4>2. QED
        BY <4>1, Regroup
    <3>2. QED
      BY <2>2, <3>1
  <2>4. Path' = Path
    BY <2>1, <2>2, <2>3 DEF Path, rest
  <2>5. QED
    BY <1>s, <2>1, <2>4 DEF SessionInv
<1>11. CASE Write
  <2> DEFINE line == Head(client_txbuffer)
             one == <<line>>
             rest == Tail(client_txbuffer)
  <2>1. /\ client_status = "CONNECTED" /\ client_txbuffer # <<>>
        /\ client_txbuffer' = rest
        /\ shown' = IF leftover = 0 /\ line.id # 0 /\ line.kind \in Presented
                    THEN line.id ELSE shown
        /\ leftover' = IF leftover = 0 THEN 0 ELSE leftover - 1
        /\ UNCHANGED <<client_toqueue, client_txqueue, arrived, server_rxqueue>>
    BY <1>11 DEF Write, auth
  <2>2. line \in Line /\ one \in Seq(Line) /\ Marks(one) = {Mark(line)} \ {0} /\ Mark(line) \in Nat
    <3>1. line \in Line
      BY <1>q, <2>1, HeadAndTail DEF QueuesOK
    <3>2. Mark(line) \in Nat
      BY <3>1 DEF Line, Mark, Number
    <3>3. QED
      BY <3>1, <3>2, OrderOfOne
  <2>m. shown' = IF leftover = 0 /\ Mark(line) # 0 THEN Mark(line) ELSE shown
    BY <2>1 DEF Mark, Number
  <2>3. Path' \in Seq(Line) /\ Path = one \o Path'
    <3>1. /\ rest \in Seq(Line) /\ client_txqueue \in Seq(Line) /\ client_toqueue \in Seq(Line)
          /\ client_txbuffer = one \o rest
      BY <1>q, <2>1, HeadAndTail DEF QueuesOK
    <3> DEFINE more == rest \o client_txqueue
    <3> HIDE DEF one, rest
    <3>2. more \in Seq(Line) /\ (one \o rest) \o client_txqueue = one \o more
      <4>1. one \in Seq(Line) /\ rest \in Seq(Line) /\ client_txqueue \in Seq(Line)
        BY <2>2, <3>1
      <4>2. (one \o rest) \o client_txqueue = one \o more
        BY <4>1, Regroup
      <4>3. more \in Seq(Line)
        BY <4>1, ConcatProperties
      <4>4. QED
        BY <4>2, <4>3
    <3> HIDE DEF more
    <3>3. /\ more \o client_toqueue \in Seq(Line)
          /\ (one \o more) \o client_toqueue = one \o (more \o client_toqueue)
      <4>1. one \in Seq(Line) /\ more \in Seq(Line) /\ client_toqueue \in Seq(Line)
        BY <2>2, <3>1, <3>2
      <4>2. (one \o more) \o client_toqueue = one \o (more \o client_toqueue)
        BY <4>1, Regroup
      <4>3. QED
        BY <4>1, <4>2, ConcatProperties
    <3>4. QED
      BY <2>1, <3>1, <3>2, <3>3 DEF Path, more, rest
  <2>4. leftover \in 0 .. Len(Path) /\ leftover \in Nat
    BY <2>1 DEF SessionInv
  <2>5. CASE leftover = 0
    <3>1. Mine = Path /\ Mine' = Path' /\ leftover' = 0 /\ leftover' \in 0 .. Len(Path')
      <4>1. Beyond(Path, 0) = Path /\ Beyond(Path', 0) = Path' /\ Len(Path') \in Nat
        BY <1>p, <2>3, BeyondNone, LenProperties
      <4>2. QED
        BY <2>1, <2>5, <4>1 DEF Mine
    <3>2. /\ Marks(Mine) = ({Mark(line)} \ {0}) \union Marks(Mine') /\ MarksRise(Mine')
          /\ Below({Mark(line)} \ {0}, Marks(Mine'))
      <4>1. /\ Marks(one \o Path') = Marks(one) \union Marks(Path')
            /\ MarksRise(one \o Path') => MarksRise(Path') /\ Below(Marks(one), Marks(Path'))
        BY <2>2, <2>3, MarksOfConcat
      <4>2. QED
        BY <2>1, <2>2, <2>3, <3>1, <4>1 DEF SessionInv
    <3>3. {shown'} \union Marks(Mine') \subseteq {shown} \union Marks(Mine)
      BY <2>m, <3>2
    <3>4. Below({shown'}, Marks(Mine'))
      BY <2>1, <2>m, <3>2 DEF SessionInv, Below
    <3>5. QED
      BY <2>1, <3>1, <3>2, <3>3, <3>4 DEF SessionInv, Below
  <2>6. CASE leftover # 0
    <3>1. /\ leftover - 1 \in 0 .. Len(Path')
          /\ Beyond(one \o Path', leftover) = Beyond(Path', leftover - 1)
      BY <2>2, <2>3, <2>4, <2>6, BeyondOfRest
    <3>2. leftover' = leftover - 1 /\ Mine' = Mine /\ shown' = shown
      BY <2>1, <2>3, <2>6, <3>1 DEF Mine
    <3>3. QED
      BY <2>1, <3>1, <3>2 DEF SessionInv
  <2>7. QED
    BY <2>5, <2>6
<1>12. CASE Trim
  BY <1>12, <1>s DEF Trim, auth, Path, SessionInv
<1>13. CASE HandleFlags
  <2>1. client_status = "CONNECTED" /\ UNCHANGED client_txbuffer
    BY <1>13, <1>q DEF HandleFlags, DisconnectClient
  <2>2. QED
    BY <1>13, <1>a, <2>1 DEF HandleFlags, SessionInv
<1>14. QED
  BY <1>1, <1>2, <1>3, <1>4, <1>5, <1>6, <1>7, <1>8, <1>9, <1>10, <1>11, <1>12, <1>13
     DEF Next, WaitForNetwork, Dispatch, Flush

LEMMA WrittenStep ==
    ASSUME PromiseInv, PromiseInv', WrittenInv, [Next]_vars
    PROVE  WrittenInv'
<1>i. TypeOK /\ AwayInv /\ SoundInv /\ PhaseInv /\ OrderInv
  BY DEF PromiseInv
<1>q. /\ QueuesOK /\ client_status \in {"DISCONNECTED", "CONNECTED"}
      /\ newest \in Nat /\ arrived \in Nat
  BY <1>i DEF TypeOK, LoopOK, GhostsOK
<1>e. Stamps(<<>>) = {} /\ InOrder(<<>>)
  BY OrderOfEmpty
\* Steps that only take lines away, or add lines that are not the server's.
<1>u. ASSUME client_txbuffer' = client_txbuffer \/ client_txbuffer' = <<>>,
             Waiting' \subseteq Waiting, UNCHANGED <<newest, arrived>>
      PROVE  WrittenInv'
  <2>1. Stamps(client_txbuffer') \subseteq Stamps(client_txbuffer) /\ InOrder(client_txbuffer')
    BY <1>e, <1>u DEF WrittenInv
  <2>2. QED
    BY <1>u, <2>1 DEF WrittenInv, Below
<1>a. ASSUME Verify \/ Tick \/ DispatchClient \/ HandleFlags
      PROVE  Stamps(client_toqueue') = Stamps(client_toqueue)
  BY <1>a, <1>i, <1>q, HandlersAdd, ExtraAdds DEF Added, QueuesOK
<1>1. CASE Verify \/ Tick
  <2>1. UNCHANGED <<client_txbuffer, buffered_lines, client_txqueue, server_rxqueue, newest, arrived>>
    BY <1>1 DEF Verify, Tick, ghosts
  <2>2. QED
    BY <1>1, <1>a, <1>u, <2>1 DEF Waiting
<1>2. CASE PromoteRefused \/ SkipSelect \/ UnqueueDone \/ FlushDone \/ UNCHANGED vars
  BY <1>2, <1>u DEF PromoteRefused, SkipSelect, UnqueueDone, FlushDone, queues, ghosts, vars, Waiting
<1>3. CASE Promote
  <2>1. Stamps(client_toqueue') = Stamps(buffered_lines)
    BY <1>3, <1>i, <1>q, PromoteStamps DEF OrderInv
  <2>2. /\ buffered_lines' = <<>>
        /\ UNCHANGED <<client_txbuffer, client_txqueue, server_rxqueue, newest, arrived>>
    BY <1>3 DEF Promote
  <2>3. QED
    BY <1>e, <1>u, <2>1, <2>2 DEF Waiting
<1>4. CASE Select
  <2>1. /\ client_txbuffer' = client_txbuffer \/ client_txbuffer' = <<>>
        /\ UNCHANGED <<buffered_lines, client_txqueue, client_toqueue, newest>>
    BY <1>4 DEF Select, DisconnectClient
  <2>2. /\ Stamps(server_rxqueue') \subseteq Nat
        /\ \A n \in Stamps(server_rxqueue') : n > arrived
        /\ arrived' \in Nat /\ arrived' >= arrived
    BY <1>4, <1>i, NewNumbers
  <2>3. Stamps(client_txbuffer') \subseteq Stamps(client_txbuffer) /\ InOrder(client_txbuffer')
    BY <1>e, <2>1 DEF WrittenInv
  <2>4. Waiting' \subseteq Waiting \union Stamps(server_rxqueue')
    BY <2>1 DEF Waiting
  <2>5. {newest} \union Stamps(client_txbuffer) \subseteq 0 .. arrived
    BY DEF WrittenInv
  <2>6. {newest'} \union Stamps(client_txbuffer') \subseteq 0 .. arrived'
    BY <1>q, <2>1, <2>2, <2>3, <2>5
  <2>7. Below({newest} \union Stamps(client_txbuffer), Stamps(server_rxqueue'))
    BY <1>q, <2>2, <2>5 DEF Below
  <2>8. QED
    BY <2>1, <2>3, <2>4, <2>6, <2>7 DEF WrittenInv, Below
<1>5. CASE DispatchServer
  <2>1. /\ client_toqueue' = client_toqueue \o server_rxqueue /\ server_rxqueue' = <<>>
        /\ UNCHANGED <<client_txbuffer, buffered_lines, client_txqueue, newest, arrived>>
    BY <1>5 DEF DispatchServer, ghosts
  <2>2. Stamps(client_toqueue \o server_rxqueue) = Stamps(client_toqueue) \union Stamps(server_rxqueue)
    BY <1>q, OrderOfConcat DEF QueuesOK
  <2>3. QED
    BY <1>e, <1>u, <2>1, <2>2 DEF Waiting
<1>6. CASE DispatchClient
  BY <1>6, <1>a, <1>u, CommandKeeps DEF Waiting
<1>7. CASE MergeToQueue
  <2>1. /\ client_txqueue' = client_txqueue \o client_toqueue /\ client_toqueue' = <<>>
        /\ UNCHANGED <<client_txbuffer, buffered_lines, server_rxqueue, newest, arrived>>
    BY <1>7 DEF MergeToQueue, ghosts
  <2>2. Stamps(client_txqueue \o client_toqueue) = Stamps(client_txqueue) \union Stamps(client_toqueue)
    BY <1>q, OrderOfConcat DEF QueuesOK
  <2>3. QED
    BY <1>e, <1>u, <2>1, <2>2 DEF Waiting
<1>8. CASE Unqueue
  <2>1. /\ client_txqueue # <<>> /\ client_txqueue' = Tail(client_txqueue)
        /\ \/ buffered_lines' = buffered_lines
           \/ buffered_lines' = Append(buffered_lines, Head(client_txqueue))
        /\ UNCHANGED <<client_txbuffer, client_toqueue, server_rxqueue, newest, arrived>>
    BY <1>8 DEF Unqueue, ghosts
  <2>2. /\ Head(client_txqueue) \in Line
        /\ Stamps(client_txqueue) =
              ({Stamp(Head(client_txqueue))} \ {0}) \union Stamps(Tail(client_txqueue))
    BY <1>q, <2>1, HeadAndTail, OrderOfTail DEF QueuesOK
  <2>3. Stamps(Append(buffered_lines, Head(client_txqueue))) =
           Stamps(buffered_lines) \union ({Stamp(Head(client_txqueue))} \ {0})
    BY <1>q, <2>2, OrderOfAppend DEF QueuesOK
  <2>4. QED
    BY <1>u, <2>1, <2>2, <2>3 DEF Waiting
<1>9. CASE Fill
  <2> DEFINE new == {Stamp(Head(client_txqueue))} \ {0}
  <2>1. /\ client_status = "CONNECTED" /\ client_txqueue # <<>>
        /\ client_txbuffer' = Append(client_txbuffer, Head(client_txqueue))
        /\ client_txqueue' = Tail(client_txqueue)
        /\ UNCHANGED <<buffered_lines, client_toqueue, server_rxqueue, newest, arrived>>
    BY <1>9 DEF Fill, CanFill, ghosts
  <2>2. Stamps(buffered_lines) = {}
    BY <1>e, <1>i, <2>1 DEF AwayInv, BufferedOnlyWhileAway
  <2>3. /\ Head(client_txqueue) \in Line
        /\ Stamps(client_txqueue) = new \union Stamps(Tail(client_txqueue))
        /\ Below(new, Stamps(Tail(client_txqueue)))
    BY <1>i, <1>q, <2>1, HeadAndTail, OrderOfTail DEF QueuesOK, OrderInv
  <2>4. /\ Stamps(client_txbuffer') = Stamps(client_txbuffer) \union new
        /\ InOrder(client_txbuffer') <=> InOrder(client_txbuffer) /\ Below(Stamps(client_txbuffer), new)
    BY <1>q, <2>1, <2>3, OrderOfAppend DEF QueuesOK
  <2>5. new \subseteq Waiting /\ new \subseteq Stamps(client_txqueue)
    BY <2>3 DEF Waiting
  <2>6. Waiting' \subseteq Waiting /\ Below(new, Waiting')
    <3>1. Waiting' = Stamps(Tail(client_txqueue)) \union Stamps(client_toqueue)
                        \union Stamps(server_rxqueue)
      BY <2>1, <2>2 DEF Waiting
    <3>2. Below(new, Stamps(client_toqueue) \union Stamps(server_rxqueue))
      BY <1>i, <2>5 DEF OrderInv, Below
    <3>3. Waiting' \subseteq Waiting
      BY <2>3, <3>1 DEF Waiting
    <3>4. QED
      BY <2>3, <3>1, <3>2, <3>3 DEF Below
  <2>7. new \subseteq 0 .. arrived
    BY <1>i, <1>q, <2>5 DEF OrderInv
  <2> HIDE DEF new
  <2>8. InOrder(client_txbuffer')
    BY <2>4, <2>5 DEF WrittenInv, Below
  <2>9. Below({newest'}, Stamps(client_txbuffer') \union Waiting')
    BY <2>1, <2>4, <2>5, <2>6 DEF WrittenInv, Below
  <2>10. Below(Stamps(client_txbuffer'), Waiting')
    BY <2>4, <2>6 DEF WrittenInv, Below
  <2>11. {newest'} \union Stamps(client_txbuffer') \subseteq 0 .. arrived'
    BY <2>1, <2>4, <2>7 DEF WrittenInv
  <2>12. QED
    BY <2>8, <2>9, <2>10, <2>11 DEF WrittenInv
<1>10. CASE Write
  <2> DEFINE line == Head(client_txbuffer)
             out == {Stamp(line)} \ {0}
  <2>1. /\ client_txbuffer # <<>> /\ client_txbuffer' = Tail(client_txbuffer)
        /\ newest' = IF line.id # 0 /\ line.kind \in ServerKind THEN line.id ELSE newest
        /\ UNCHANGED <<buffered_lines, client_txqueue, client_toqueue, server_rxqueue, arrived>>
    BY <1>10 DEF Write
  <2>2. newest' = IF Stamp(line) # 0 THEN Stamp(line) ELSE newest
    BY <2>1 DEF Stamp, Number
  <2>3. /\ Stamps(client_txbuffer) = out \union Stamps(client_txbuffer')
        /\ InOrder(client_txbuffer') /\ Below(out, Stamps(client_txbuffer'))
    BY <1>q, <2>1, OrderOfTail DEF QueuesOK, WrittenInv
  <2>4. Waiting' = Waiting
    BY <2>1 DEF Waiting
  <2>5. {newest'} \subseteq {newest} \union out
    BY <2>2
  <2>6. Below({newest'}, Stamps(client_txbuffer') \union Waiting')
    BY <2>3, <2>4, <2>5 DEF WrittenInv, Below
  <2>7. QED
    BY <2>1, <2>3, <2>4, <2>5, <2>6 DEF WrittenInv, Below
<1>11. CASE Trim
  <2>1. /\ UNCHANGED <<client_txbuffer, client_txqueue, client_toqueue, server_rxqueue,
                       newest, arrived>>
        /\ cutBuffered \in 0 .. Len(buffered_lines)
        /\ buffered_lines' = Beyond(buffered_lines, cutBuffered)
    BY <1>11, <1>q, TrimCuts DEF Trim
  <2>2. Stamps(buffered_lines') \subseteq Stamps(buffered_lines)
    BY <1>q, <2>1, OrderOfBeyond DEF QueuesOK
  <2>3. QED
    BY <1>u, <2>1, <2>2 DEF Waiting
<1>12. CASE HandleFlags
  <2>1. /\ client_txbuffer' = client_txbuffer \/ client_txbuffer' = <<>>
        /\ UNCHANGED <<buffered_lines, client_txqueue, server_rxqueue, newest, arrived>>
    BY <1>12 DEF HandleFlags, DisconnectClient
  <2>2. QED
    BY <1>12, <1>a, <1>u, <2>1 DEF Waiting
<1>13. QED
  BY <1>1, <1>2, <1>3, <1>4, <1>5, <1>6, <1>7, <1>8, <1>9, <1>10, <1>11, <1>12
     DEF Next, WaitForNetwork, Dispatch, Flush

\* SessionInOrder: what a session presents comes in arrival order and not
\* twice, whatever the session before left behind; and over all sessions no
\* line of the server is written twice but as a copy, when clients come, go,
\* take over, and have lines replayed by /recall and /ace.
THEOREM SessionsInOrder == Spec => []SessionInOrder
<1>1. Init => SessionInv /\ WrittenInv
  BY OrderOfEmpty DEF Init, SessionInv, WrittenInv, Waiting, Below
<1>2. PromiseInv /\ PromiseInv' /\ SessionInv /\ [Next]_vars => SessionInv'
  BY SessionStep
<1>3. PromiseInv /\ PromiseInv' /\ WrittenInv /\ [Next]_vars => WrittenInv'
  BY WrittenStep
<1>4. PromiseInv /\ SessionInv /\ WrittenInv => SessionInOrder
  BY PresentedHolds, WrittenHolds DEF PromiseInv, SessionInOrder
<1>5. QED
  BY <1>1, <1>2, <1>3, <1>4, PromiseInvariant, PTL DEF Spec
=============================================================================
