-------------------------- MODULE ServerLinkProofs --------------------------
(* Theorems about ServerLink, for every BufferLen, every length of a line    *)
(* and any number of lines, reads and connections.                           *)
EXTENDS ServerLink, FiniteSetTheorems, SequenceTheorems, WellFoundedInduction, TLAPS

-----------------------------------------------------------------------------
(* Cutting bytes into lines.                                               *)

LEMMA EndOfType ==
    ASSUME NEW b \in Seq(Bytes), NEW k \in Nat
    PROVE  /\ EndCount(b) \in Nat
           /\ Ends(b) # {} => EndCount(b) >= 1
           /\ EndOf(b, k) \in 0 .. Len(b) + 1
           /\ k # 0 => EndOf(b, k) >= 1
<1> DEFINE I == 1 .. Len(b)
           Before == {i \in I : Cardinality(Ends(b) \cap (1 .. i)) < k}
<1>1. IsFiniteSet(I) /\ Cardinality(I) = Len(b)
      <2>1. Len(b) \in Nat
            OBVIOUS
      <2> QED BY <2>1, FS_Interval
<1>2. Ends(b) \in SUBSET I /\ Before \in SUBSET I
      BY DEF Ends
<1>3. IsFiniteSet(Ends(b)) /\ IsFiniteSet(Before) /\ Cardinality(Before) <= Len(b)
      BY <1>1, <1>2, FS_Subset
<1>4. Cardinality(Ends(b)) \in Nat /\ Cardinality(Before) \in Nat
      BY <1>3, FS_CardinalityType
<1>5. Cardinality(Ends(b)) = 0 <=> Ends(b) = {}
      BY <1>3, FS_EmptySet
<1>6. EndOf(b, k) = IF k = 0 THEN 0 ELSE Cardinality(Before) + 1
      BY DEF EndOf
<1> HIDE DEF Before
<1> QED BY <1>3, <1>4, <1>5, <1>6 DEF EndCount

LEMMA SubSeqType ==
    ASSUME NEW b \in Seq(Bytes), NEW m \in Nat, m >= 1, NEW n \in Int, n <= Len(b)
    PROVE  SubSeq(b, m, n) \in Seq(Bytes)
           /\ Len(SubSeq(b, m, n)) = IF m <= n THEN n - m + 1 ELSE 0
<1>1. \A i \in m .. n : b[i] \in Bytes
      OBVIOUS
<1> QED BY <1>1, SubSeqProperties

LEMMA ChopType ==
    ASSUME NEW l \in Seq(Bytes)
    PROVE  Chop(l) \in Seq(Bytes)
<1> DEFINE lead == IF l # <<>> /\ l[1] = "CR" THEN Tail(l) ELSE l
<1>1. lead \in Seq(Bytes)
      BY HeadTailProperties
<1>2. SubSeq(lead, 1, Len(lead) - 1) \in Seq(Bytes)
      BY <1>1, SubSeqType
<1> QED BY <1>1, <1>2 DEF Chop

LEMMA LinesInType ==
    ASSUME NEW b \in Seq(Bytes)
    PROVE  LinesIn(b) \in Seq(Seq(Bytes))
<1>1. CASE BigLine(b)
      BY <1>1, ChopType DEF LinesIn
<1>2. CASE ~BigLine(b)
      <2> DEFINE Cut(k) == Chop(SubSeq(b, EndOf(b, k - 1) + 1, EndOf(b, k) - 1))
      <2>1. EndCount(b) \in Nat
            BY EndOfType
      <2>2. ASSUME NEW k \in 1 .. EndCount(b) PROVE Cut(k) \in Seq(Bytes)
            <3>1. k \in Nat /\ k - 1 \in Nat
                  BY <2>1
            <3>2. EndOf(b, k - 1) \in 0 .. Len(b) + 1 /\ EndOf(b, k) \in 0 .. Len(b) + 1
                  BY <3>1, EndOfType
            <3>3. SubSeq(b, EndOf(b, k - 1) + 1, EndOf(b, k) - 1) \in Seq(Bytes)
                  BY <3>2, SubSeqType
            <3> QED BY <3>3, ChopType
      <2>3. LinesIn(b) = [k \in 1 .. EndCount(b) |-> Cut(k)]
            BY <1>2 DEF LinesIn
      <2> HIDE DEF Cut
      <2> QED BY <2>1, <2>2, <2>3
<1> QED BY <1>1, <1>2

\* After a read the buffer has room for the next one, though it was filled
\* (handle_server_fd(), buffer_to_lines()).
LEMMA RestShort ==
    ASSUME NEW b \in Seq(Bytes), Len(b) <= BufferLen
    PROVE  Rest(b) \in Seq(Bytes) /\ Len(Rest(b)) < BufferLen
<1> USE BufferAssumption
<1>1. CASE BigLine(b)
      BY <1>1 DEF Rest
<1>2. CASE ~BigLine(b)
      <2> DEFINE e == EndOf(b, EndCount(b))
      <2>1. EndCount(b) \in Nat
            BY EndOfType
      <2>2. e \in 0 .. Len(b) + 1 /\ (Ends(b) # {} => e >= 1)
            BY <2>1, EndOfType
      <2>3. Rest(b) = SubSeq(b, e + 1, Len(b))
            BY <1>2 DEF Rest
      <2>4. Ends(b) # {} \/ Len(b) < BufferLen
            BY <1>2 DEF BigLine
      <2> HIDE DEF e
      <2>5. Len(b) \in Nat /\ e + 1 \in Nat
            BY <2>2
      <2>6. SubSeq(b, e + 1, Len(b)) \in Seq(Bytes)
            /\ Len(SubSeq(b, e + 1, Len(b))) = IF e + 1 <= Len(b) THEN Len(b) - (e + 1) + 1 ELSE 0
            BY <2>2, <2>5, SubSeqType
      <2> QED BY <2>2, <2>3, <2>4, <2>5, <2>6
<1> QED BY <1>1, <1>2

LEMMA EncodedType ==
    ASSUME NEW l \in Line
    PROVE  /\ CutTo(l) \in Nat
           /\ Encoded(l) \in Seq(TxByte) /\ Len(Encoded(l)) = CutTo(l) + 2
<1>1. CutTo(l) \in Nat
      BY BufferAssumption DEF CutTo, Line
<1>2. \A i \in 1 .. CutTo(l) + 2 : <<l.number, i>> \in TxByte
      BY <1>1 DEF TxByte, Line
<1> HIDE DEF CutTo
<1> QED BY <1>1, <1>2 DEF Encoded

-----------------------------------------------------------------------------
(* Type correctness.                                                       *)

InType ==
    /\ server_rxbuffer \in Seq(Bytes) /\ Len(server_rxbuffer) < BufferLen
    /\ received \in Seq(Bytes) /\ rxlines \in Seq(Seq(Bytes))

OutType ==
    /\ server_toqueue \in Seq(Line) /\ server_txqueue \in Seq(Line)
    /\ server_txbuffer \in Seq(TxByte) /\ Len(server_txbuffer) <= BufferLen + 2
    /\ typed \in Nat
    /\ due \in Seq(Line) /\ filled \in Seq(Line)
    /\ handed \in Seq(TxByte) /\ sent \in Seq(TxByte)
ControlType ==
    /\ pc \in Phases
    /\ server_status \in Statuses
    /\ server_resolver_fd \in BOOLEAN /\ server_connecting_fd \in BOOLEAN
    /\ server_fd \in BOOLEAN /\ beside \in BOOLEAN
    /\ flags \subseteq Flags
    /\ connections \in Nat /\ oldbytes \in Nat /\ oldlines \in Nat

LEMMA TypeParts == TypeOK <=> ControlType /\ InType /\ OutType
BY DEF TypeOK, ControlType, InType, OutType

LEMMA EmptyTypes ==
    /\ <<>> \in Seq(Bytes) /\ <<>> \in Seq(Seq(Bytes)) /\ <<>> \in Seq(Line)
    /\ <<>> \in Seq(TxByte) /\ Len(<<>>) = 0
OBVIOUS

LEMMA NewLineType ==
    ASSUME NEW len \in Lengths, typed \in Nat
    PROVE  NewLine(len) \in Line
BY BufferAssumption DEF NewLine, Line

\* What handle_flags() leaves in the flags and in the status of the attempt.
LEMMA FlagsHandled ==
    ASSUME ControlType, HandleFlags
    PROVE  /\ server_status' \in Statuses /\ flags' \subseteq Flags
           /\ server_resolver_fd' \in BOOLEAN /\ server_connecting_fd' \in BOOLEAN
<1> DEFINE before == IF "SERVERQUIT" \in flags THEN "DISCONNECTED" ELSE server_status
<1>1. PICK status \in AfterLookup(before) :
          /\ server_resolver_fd' = (server_resolver_fd \/ status # before)
          /\ IF "SERVERCONNECT" \in flags
                THEN StartConnect(status)
                ELSE flags' = {} /\ server_status' = status /\ UNCHANGED server_connecting_fd
      BY DEF HandleFlags
<1>2. before \in Statuses
      BY DEF ControlType, Statuses
<1> HIDE DEF before
<1>3. status \in Statuses
      <2>1. AfterLookup(before) \subseteq {"RESOLVING", before}
            BY DEF AfterLookup
      <2> QED BY <1>1, <1>2, <2>1 DEF Statuses
<1>4. server_connecting_fd \in BOOLEAN
      BY DEF ControlType
<1>5. server_status' \in Statuses /\ flags' \subseteq Flags
      BY <1>1, <1>3 DEF StartConnect, Statuses, Flags
<1>6. server_connecting_fd' \in {TRUE, FALSE, server_connecting_fd}
      BY <1>1 DEF StartConnect
<1>7. server_resolver_fd' \in BOOLEAN
      BY <1>1
<1> QED BY <1>4, <1>5, <1>6, <1>7

LEMMA ControlStep == ControlType /\ InType /\ OutType /\ [Next]_vars => ControlType'
<1> SUFFICES ASSUME ControlType, InType, OutType, [Next]_vars PROVE ControlType'
    OBVIOUS
<1> USE DEF ControlType
<1>1. CASE UNCHANGED <<attempt, server_fd, start>> /\ pc' \in Phases /\ flags' \subseteq Flags
      BY <1>1 DEF attempt, start
<1>2. CASE ReadServer \/ Nothing \/ ConnectFails \/ ServerCloses \/ ResolverAnswers
      <2>1. pc' \in Phases
            BY <1>2 DEF ReadServer, ServerCloses, ResolverAnswers, ConnectFails, Nothing, Goes,
                        Phases
      <2>2. server_status' \in {server_status, "DISCONNECTED"}
            BY <1>2 DEF ReadServer, ServerCloses, ResolverAnswers, ConnectFails, Nothing, attempt
      <2>3. flags' \subseteq Flags
            BY <1>2 DEF ReadServer, ServerCloses, ResolverAnswers, ConnectFails, Nothing, Flags
      <2>4. /\ server_resolver_fd' \in BOOLEAN /\ server_connecting_fd' \in BOOLEAN
            /\ server_fd' \in BOOLEAN /\ beside' \in BOOLEAN
            BY <1>2 DEF ReadServer, ServerCloses, ResolverAnswers, ConnectFails, Nothing, attempt,
                        start, Disconnect
      <2>5. /\ oldbytes' \in {oldbytes, 0} /\ oldlines' \in {oldlines, 0}
            /\ UNCHANGED connections
            BY <1>2 DEF ReadServer, ServerCloses, ResolverAnswers, ConnectFails, Nothing, start,
                        Disconnect, Forgotten
      <2>6. server_status' \in Statuses
            BY <2>2 DEF Statuses
      <2> QED BY <2>1, <2>3, <2>4, <2>5, <2>6
<1>3. CASE Connects
      <2>1. /\ pc' = "dispatch" /\ server_status' = "CONNECTED"
            /\ connections' = connections + 1
            /\ server_connecting_fd' = FALSE /\ server_fd' = TRUE
            /\ UNCHANGED <<server_resolver_fd, flags, beside>>
            BY <1>3 DEF Connects, Goes
      <2>2. /\ oldbytes' = Len(server_rxbuffer)
            /\ oldlines' = Len(server_txqueue) + Len(server_txbuffer)
            BY <1>3 DEF Connects
      <2>3. Len(server_rxbuffer) \in Nat /\ Len(server_txqueue) \in Nat
            /\ Len(server_txbuffer) \in Nat
            BY DEF InType, OutType
      <2>4. oldbytes' \in Nat /\ oldlines' \in Nat
            BY <2>2, <2>3
      <2>5. pc' \in Phases /\ server_status' \in Statuses
            BY <2>1 DEF Phases, Statuses
      <2>6. /\ server_resolver_fd' \in BOOLEAN /\ server_connecting_fd' \in BOOLEAN
            /\ server_fd' \in BOOLEAN /\ beside' \in BOOLEAN /\ flags' \subseteq Flags
            BY <2>1
      <2> QED BY <2>1, <2>4, <2>5, <2>6
<1>4. CASE TypeLine \/ CommandConnect
      BY <1>1, <1>4 DEF TypeLine, CommandConnect, Flags
<1>5. CASE CommandDisconnect
      BY <1>5 DEF CommandDisconnect, attempt, start, Statuses, Flags
<1>6. CASE Merge
      BY <1>1, <1>6 DEF Merge, Goes, Phases
<1>7. CASE Flush
      <2>1. pc' \in Phases /\ flags' \subseteq Flags /\ UNCHANGED <<attempt, server_fd, start>>
            BY <1>7 DEF Flush, NothingToSend, Discard, StartFlush, Fill, FillEnds, Write,
                        WriteFails, Goes, Flags, Phases
      <2> QED BY <1>1, <2>1
<1>8. CASE HandleFlags
      <2>1. /\ server_status' \in Statuses /\ flags' \subseteq Flags
            /\ server_resolver_fd' \in BOOLEAN /\ server_connecting_fd' \in BOOLEAN
            BY <1>8, FlagsHandled
      <2>2. pc' \in Phases /\ UNCHANGED connections
            BY <1>8 DEF HandleFlags, Goes, Phases
      <2>3. beside' \in BOOLEAN /\ server_fd' \in BOOLEAN
            BY <1>8 DEF HandleFlags, Disconnect
      <2>4. oldbytes' \in {oldbytes, 0}
            /\ oldlines' \in {oldlines, 0}
            BY <1>8 DEF HandleFlags, Disconnect, Forgotten
      <2> QED BY <2>1, <2>2, <2>3, <2>4
<1>9. CASE UNCHANGED vars
      BY <1>1, <1>9 DEF vars
<1> QED BY <1>2, <1>3, <1>4, <1>5, <1>6, <1>7, <1>8, <1>9 DEF Next, Network, User

LEMMA InStep == InType /\ [Next]_vars => InType'
<1> SUFFICES ASSUME InType, [Next]_vars PROVE InType'
    OBVIOUS
<1>1. CASE UNCHANGED incoming
      BY <1>1 DEF incoming, InType
<1>2. CASE ReadServer
      <2>1. PICK n \in 1 .. BufferLen - Len(server_rxbuffer) :
            \E chunk \in [1 .. n -> Bytes] :
               LET b == server_rxbuffer \o chunk
               IN  /\ received' = received \o chunk
                   /\ rxlines' = rxlines \o LinesIn(b)
                   /\ server_rxbuffer' = Rest(b)
            BY <1>2 DEF ReadServer
      <2>2. PICK chunk \in [1 .. n -> Bytes] :
               /\ received' = received \o chunk
               /\ rxlines' = rxlines \o LinesIn(server_rxbuffer \o chunk)
               /\ server_rxbuffer' = Rest(server_rxbuffer \o chunk)
            BY <2>1
      <2>3. Len(server_rxbuffer) \in Nat /\ server_rxbuffer \in Seq(Bytes) /\ n \in Nat
            BY BufferAssumption DEF InType
      <2>4. chunk \in Seq(Bytes) /\ Len(chunk) = n
            BY <2>3
      <2>5. server_rxbuffer \o chunk \in Seq(Bytes)
            /\ Len(server_rxbuffer \o chunk) = Len(server_rxbuffer) + n
            BY <2>3, <2>4, ConcatProperties
      <2>6. Len(server_rxbuffer \o chunk) <= BufferLen
            BY <2>3, <2>5, BufferAssumption
      <2>7. Rest(server_rxbuffer \o chunk) \in Seq(Bytes)
            /\ Len(Rest(server_rxbuffer \o chunk)) < BufferLen
            BY <2>5, <2>6, RestShort
      <2>8. LinesIn(server_rxbuffer \o chunk) \in Seq(Seq(Bytes))
            BY <2>5, LinesInType
      <2>9. received' \in Seq(Bytes) /\ rxlines' \in Seq(Seq(Bytes))
            BY <2>2, <2>4, <2>8, ConcatProperties DEF InType
      <2> QED BY <2>2, <2>7, <2>9 DEF InType
<1>3. CASE Disconnect
      BY <1>3, BufferAssumption, EmptyTypes DEF Disconnect, Forgotten, InType
<1>4. CASE Connects
      BY <1>4, EmptyTypes DEF Connects, InType
<1>5. CASE HandleFlags
      BY <1>1, <1>3, <1>5 DEF HandleFlags
<1> QED BY <1>1, <1>2, <1>3, <1>4, <1>5
    DEF Next, vars, Network, User, Merge, Flush, ResolverAnswers, ServerCloses, ConnectFails,
        Nothing, TypeLine, CommandDisconnect, CommandConnect, NothingToSend, Discard, StartFlush,
        Fill, FillEnds, Write, WriteFails

\* What write() takes and what it leaves.
LEMMA WriteParts ==
    ASSUME server_txbuffer \in Seq(TxByte), NEW n \in 1 .. Len(server_txbuffer)
    PROVE  LET b == server_txbuffer
           IN  /\ SubSeq(b, 1, n) \in Seq(TxByte)
               /\ SubSeq(b, n + 1, Len(b)) \in Seq(TxByte)
               /\ Len(SubSeq(b, n + 1, Len(b))) <= Len(b)
               /\ SubSeq(b, 1, n) \o SubSeq(b, n + 1, Len(b)) = b
<1> DEFINE b == server_txbuffer
<1>1. Len(b) \in Nat /\ n \in 1 .. Len(b) /\ n + 1 \in Int
      OBVIOUS
<1>2. (\A i \in 1 .. n : b[i] \in TxByte) /\ (\A i \in n + 1 .. Len(b) : b[i] \in TxByte)
      OBVIOUS
<1>3. SubSeq(b, 1, n) \in Seq(TxByte)
      BY <1>1, <1>2, SubSeqProperties
<1>4. SubSeq(b, n + 1, Len(b)) \in Seq(TxByte)
      /\ Len(SubSeq(b, n + 1, Len(b))) = IF n + 1 <= Len(b) THEN Len(b) - (n + 1) + 1 ELSE 0
      BY <1>1, <1>2, SubSeqProperties
<1>5. SubSeq(b, 1, n) \o SubSeq(b, n + 1, Len(b)) = SubSeq(b, 1, Len(b))
      BY <1>1, ConcatAdjacentSubSeq
<1>6. SubSeq(b, 1, Len(b)) = b
      BY SubSeqFull
<1>7. Len(SubSeq(b, n + 1, Len(b))) <= Len(b)
      BY <1>1, <1>4
<1> QED BY <1>3, <1>4, <1>5, <1>6, <1>7
LEMMA OutStep == OutType /\ [Next]_vars => OutType'
<1> SUFFICES ASSUME OutType, [Next]_vars PROVE OutType'
    OBVIOUS
<1>1. CASE UNCHANGED outgoing
      BY <1>1 DEF outgoing, OutType
<1>2. CASE Disconnect /\ UNCHANGED <<server_toqueue, server_txqueue, typed>>
      BY <1>2, BufferAssumption, EmptyTypes DEF Disconnect, Forgotten, OutType
<1>3. CASE Connects
      <2>1. filled' = <<>> /\ handed' = server_txbuffer /\ sent' = <<>>
            /\ UNCHANGED <<server_txqueue, server_txbuffer>>
            BY <1>3 DEF Connects
      <2>2. server_toqueue' \in Seq(Line) /\ typed' \in Nat
            <3>1. CASE UNCHANGED <<typed, server_toqueue>>
                  BY <3>1 DEF OutType
            <3>2. CASE \E len \in Lengths :
                          /\ typed' = typed + 1
                          /\ server_toqueue' = Append(server_toqueue, NewLine(len))
                  <4>1. PICK len \in Lengths :
                           /\ typed' = typed + 1
                           /\ server_toqueue' = Append(server_toqueue, NewLine(len))
                        BY <3>2
                  <4>2. NewLine(len) \in Line
                        BY NewLineType DEF OutType
                  <4> QED BY <4>1, <4>2, AppendProperties DEF OutType
            <3> QED BY <1>3, <3>1, <3>2 DEF Connects
      <2>3. due' = server_txqueue \o server_toqueue'
            BY <1>3 DEF Connects
      <2>4. due' \in Seq(Line)
            BY <2>2, <2>3, ConcatProperties DEF OutType
      <2> QED BY <2>1, <2>2, <2>4, EmptyTypes DEF OutType
<1>4. CASE TypeLine
      <2>1. PICK len \in Lengths :
               /\ server_toqueue' = Append(server_toqueue, NewLine(len))
               /\ due' = IF server_fd THEN Append(due, NewLine(len)) ELSE due
            BY <1>4 DEF TypeLine
      <2>2. NewLine(len) \in Line
            BY NewLineType DEF OutType
      <2>3. server_toqueue' \in Seq(Line) /\ due' \in Seq(Line)
            BY <2>1, <2>2, AppendProperties DEF OutType
      <2> QED BY <1>4, <2>3 DEF TypeLine, OutType
<1>5. CASE Merge
      <2>1. server_txqueue' \in Seq(Line)
            BY <1>5, ConcatProperties DEF Merge, OutType
      <2> QED BY <1>5, <2>1, EmptyTypes DEF Merge, OutType
<1>6. CASE Discard
      BY <1>6, EmptyTypes DEF Discard, OutType
<1>7. CASE Fill
      <2> DEFINE l == Head(server_txqueue)
      <2>1. l \in Line /\ Tail(server_txqueue) \in Seq(Line)
            BY <1>7, HeadTailProperties DEF Fill, OutType
      <2>2. CutTo(l) \in Nat /\ Encoded(l) \in Seq(TxByte) /\ Len(Encoded(l)) = CutTo(l) + 2
            BY <2>1, EncodedType
      <2>3. Len(server_txbuffer) \in Nat /\ Len(server_txbuffer) + CutTo(l) <= BufferLen
            BY <1>7 DEF Fill, Fits, OutType
      <2>4. server_txbuffer' = server_txbuffer \o Encoded(l) /\ handed' = handed \o Encoded(l)
            BY <1>7 DEF Fill
      <2>5. handed' \in Seq(TxByte) /\ server_txbuffer' \in Seq(TxByte)
            /\ Len(server_txbuffer') = Len(server_txbuffer) + Len(Encoded(l))
            BY <2>2, <2>4, ConcatProperties DEF OutType
      <2>6. filled' \in Seq(Line)
            BY <1>7, <2>1, AppendProperties DEF Fill, OutType
      <2>7. Len(server_txbuffer') <= BufferLen + 2
            BY <2>2, <2>3, <2>5, BufferAssumption
      <2>8. server_txqueue' = Tail(server_txqueue)
            /\ UNCHANGED <<server_toqueue, typed, due, sent>>
            BY <1>7 DEF Fill
      <2> QED BY <2>1, <2>5, <2>6, <2>7, <2>8 DEF OutType
<1>8. CASE Write
      <2>1. PICK n \in 1 .. Len(server_txbuffer) :
               /\ sent' = sent \o SubSeq(server_txbuffer, 1, n)
               /\ server_txbuffer' = SubSeq(server_txbuffer, n + 1, Len(server_txbuffer))
            BY <1>8 DEF Write
      <2>2. server_txbuffer' \in Seq(TxByte) /\ Len(server_txbuffer') <= Len(server_txbuffer)
            /\ SubSeq(server_txbuffer, 1, n) \in Seq(TxByte)
            BY <2>1, WriteParts DEF OutType
      <2>3. sent' \in Seq(TxByte)
            BY <2>1, <2>2, ConcatProperties DEF OutType
      <2>4. Len(server_txbuffer') <= BufferLen + 2
            BY <2>2, BufferAssumption DEF OutType
      <2> QED BY <1>8, <2>2, <2>3, <2>4 DEF Write, OutType
<1>9. CASE HandleFlags
      <2>1. UNCHANGED <<server_toqueue, server_txqueue, typed>>
            BY <1>9 DEF HandleFlags
      <2>2. Disconnect \/ UNCHANGED <<server_txbuffer, due, filled, handed, sent>>
            BY <1>9 DEF HandleFlags
      <2> QED BY <1>1, <1>2, <2>1, <2>2 DEF outgoing
<1>10. CASE ServerCloses
      BY <1>2, <1>10 DEF ServerCloses
<1> QED BY <1>1, <1>3, <1>4, <1>5, <1>6, <1>7, <1>8, <1>9, <1>10
    DEF Next, vars, Network, User, Flush, ReadServer, ResolverAnswers, ConnectFails, Nothing,
        CommandDisconnect, CommandConnect, NothingToSend, StartFlush, FillEnds, WriteFails

LEMMA InitType == Init => TypeOK
<1> SUFFICES ASSUME Init PROVE TypeOK
    OBVIOUS
<1>1. InType /\ OutType
      BY BufferAssumption, EmptyTypes DEF Init, InType, OutType
<1>2. ControlType
      BY DEF Init, ControlType, Statuses, Phases
<1> QED BY <1>1, <1>2, TypeParts

LEMMA TypeStep == TypeOK /\ [Next]_vars => TypeOK'
BY TypeParts, ControlStep, InStep, OutStep DEF TypeOK, ControlType, InType, OutType

\* Every variable keeps its type; a read always has room in server_rxbuffer,
\* and server_txbuffer holds no more than its length and the end of a line,
\* for every length of the buffers (handle_server_fd(), flush_buffer()).
THEOREM TypeCorrect == Spec => []TypeOK
<1> QED BY TypeStep, InitType, PTL DEF Spec

-----------------------------------------------------------------------------
(* What one connection leaves to the next.                                 *)

\* Where there is no connection the buffers are empty, and the queues are
\* emptied once a pass, by the merge and by the discard.  An attempt that was
\* made without a connection therefore finds all of them empty.
NothingLeft ==
    /\ pc # "dispatch" => server_toqueue = <<>>
    /\ pc = "flags" /\ ~server_fd => server_txqueue = <<>>
    /\ pc \in {"resolver", "server", "connecting"} /\ server_connecting_fd /\ ~beside =>
          ~server_fd /\ server_txqueue = <<>>
    /\ ~server_fd => server_txbuffer = <<>> /\ server_rxbuffer = <<>>
    /\ pc \in {"fill", "write"} => server_fd

\* Only the next to one that was still open finds something.
LeftBeside == server_fd => (oldbytes > 0 \/ oldlines > 0 => beside)

LEMMA NothingLeftStep == TypeOK /\ NothingLeft /\ [Next]_vars => NothingLeft'
<1> SUFFICES ASSUME TypeOK, NothingLeft, [Next]_vars PROVE NothingLeft'
    OBVIOUS
<1> USE DEF NothingLeft
<1>1. CASE UNCHANGED vars
      BY <1>1 DEF vars, attempt, start, incoming, outgoing
<1>2. CASE ResolverAnswers \/ Nothing \/ ConnectFails
      BY <1>2 DEF ResolverAnswers, ConnectFails, Nothing, Goes, attempt, start, incoming, outgoing
<1>3. CASE ReadServer
      <2>1. pc' = "connecting" /\ pc = "server" /\ server_fd /\ server_fd'
            /\ UNCHANGED <<server_connecting_fd, beside, server_toqueue, server_txqueue>>
            BY <1>3 DEF ReadServer, Goes, attempt, start, outgoing
      <2> QED BY <2>1
<1>4. CASE ServerCloses
      BY <1>4 DEF ServerCloses, Disconnect, Goes
<1>5. CASE Connects
      BY <1>5 DEF Connects, Goes
<1>6. CASE User
      BY <1>6 DEF User, TypeLine, CommandDisconnect, CommandConnect, attempt, start, incoming,
                  outgoing
<1>7. CASE Merge
      BY <1>7 DEF Merge, Goes, attempt, start, incoming
<1>8. CASE NothingToSend \/ Discard
      BY <1>8 DEF NothingToSend, Discard, ToSend, Goes, attempt, start, incoming, outgoing
<1>9. CASE StartFlush \/ FillEnds \/ WriteFails
      BY <1>9 DEF StartFlush, FillEnds, WriteFails, Goes, attempt, start, incoming, outgoing
<1>10. CASE Fill
      BY <1>10 DEF Fill, attempt, start, incoming
<1>11. CASE Write
      <2>1. pc = "write" /\ pc' \in {"fill", "flags"} /\ server_fd /\ server_fd'
            /\ UNCHANGED server_toqueue
            BY <1>11 DEF Write
      <2> QED BY <2>1
<1>12. CASE HandleFlags
      <2>1. pc = "flags" /\ pc' = "resolver" /\ UNCHANGED <<server_toqueue, server_txqueue>>
            BY <1>12 DEF HandleFlags, Goes
      <2>2. \/ Disconnect
            \/ UNCHANGED <<server_fd, server_txbuffer, server_rxbuffer>>
            BY <1>12 DEF HandleFlags, incoming
      <2>3. beside' = IF server_connecting_fd' THEN server_fd ELSE beside
            BY <1>12 DEF HandleFlags
      <2>4. ~server_fd => ~server_fd'
            BY <2>2 DEF Disconnect
      <2>5. ~server_fd' => server_txbuffer' = <<>> /\ server_rxbuffer' = <<>>
            BY <2>2 DEF Disconnect
      <2>6. server_connecting_fd' /\ ~beside' => ~server_fd' /\ server_txqueue' = <<>>
            BY <2>1, <2>3, <2>4
      <2> QED BY <2>1, <2>5, <2>6
<1> QED BY <1>1, <1>2, <1>3, <1>4, <1>5, <1>6, <1>7, <1>8, <1>9, <1>10, <1>11, <1>12
    DEF Next, Network, Flush

LEMMA LeftBesideStep == TypeOK /\ NothingLeft /\ LeftBeside /\ [Next]_vars => LeftBeside'
<1> SUFFICES ASSUME TypeOK, NothingLeft, LeftBeside, [Next]_vars, server_fd'
             PROVE  oldbytes' > 0 \/ oldlines' > 0 => beside'
    BY DEF LeftBeside
<1>1. CASE UNCHANGED <<server_fd, start>>
      BY <1>1 DEF LeftBeside, start
<1>2. CASE Connects
      <2>1. /\ pc = "connecting" /\ server_connecting_fd /\ UNCHANGED beside
            /\ oldbytes' = Len(server_rxbuffer)
            /\ oldlines' = Len(server_txqueue) + Len(server_txbuffer)
            BY <1>2 DEF Connects, Goes
      <2>2. ASSUME ~beside PROVE oldbytes' = 0 /\ oldlines' = 0
            <3>1. server_rxbuffer = <<>> /\ server_txqueue = <<>> /\ server_txbuffer = <<>>
                  BY <2>1, <2>2 DEF NothingLeft
            <3> QED BY <2>1, <3>1
      <2> QED BY <2>1, <2>2
<1>3. CASE HandleFlags
      <2>1. UNCHANGED <<server_fd, oldbytes, oldlines>>
            BY <1>3 DEF HandleFlags, Disconnect
      <2>2. beside' = IF server_connecting_fd' THEN server_fd ELSE beside
            BY <1>3 DEF HandleFlags
      <2> QED BY <2>1, <2>2 DEF LeftBeside
<1>4. CASE ServerCloses
      BY <1>4 DEF ServerCloses, Disconnect
<1> QED BY <1>1, <1>2, <1>3, <1>4
    DEF Next, vars, Network, User, Merge, Flush, ResolverAnswers, ReadServer, ConnectFails,
        Nothing, TypeLine, CommandDisconnect, CommandConnect, NothingToSend, Discard, StartFlush,
        Fill, FillEnds, Write, WriteFails

-----------------------------------------------------------------------------
(* SentInOrder, over what was queued and what was handed to the socket.    *)

Queued == filled \o server_txqueue \o server_toqueue = due
Handed == sent \o server_txbuffer = handed

LEMMA LinesAssociative ==
    ASSUME NEW s \in Seq(Line), NEW t \in Seq(Line), NEW u \in Seq(Line)
    PROVE  (s \o t) \o u = s \o (t \o u)
BY ConcatAssociative

LEMMA BytesAssociative ==
    ASSUME NEW s \in Seq(TxByte), NEW t \in Seq(TxByte), NEW u \in Seq(TxByte)
    PROVE  (s \o t) \o u = s \o (t \o u)
BY ConcatAssociative
LEMMA LinkStep ==
    ASSUME TypeOK, [Next]_vars, server_fd', server_fd => Queued /\ Handed
    PROVE  Queued' /\ Handed'
<1>0. OutType
      BY TypeParts
<1> USE <1>0
<1>1. CASE UNCHANGED <<server_fd, outgoing>>
      BY <1>1 DEF outgoing, Queued, Handed
<1>2. CASE Connects
      <2>1. /\ due' = server_txqueue \o server_toqueue'
            /\ server_toqueue' \in Seq(Line)
            <3>1. OutType'
                  BY OutStep
            <3> QED BY <1>2, <3>1 DEF Connects, OutType
      <2>2. /\ filled' = <<>> /\ handed' = server_txbuffer /\ sent' = <<>>
            /\ UNCHANGED <<server_txbuffer, server_txqueue>>
            BY <1>2 DEF Connects
      <2>3. <<>> \o server_txqueue = server_txqueue /\ <<>> \o server_txbuffer = server_txbuffer
            BY ConcatEmptySeq DEF OutType
      <2> QED BY <2>1, <2>2, <2>3 DEF Queued, Handed
<1>3. CASE TypeLine
      <2>1. PICK len \in Lengths :
               /\ server_toqueue' = Append(server_toqueue, NewLine(len))
               /\ due' = IF server_fd THEN Append(due, NewLine(len)) ELSE due
            BY <1>3 DEF TypeLine
      <2>2. UNCHANGED <<server_fd, server_txqueue, server_txbuffer, filled, handed, sent>>
            BY <1>3 DEF TypeLine
      <2>3. server_fd /\ Queued /\ Handed
            BY <2>2
      <2> DEFINE new == <<NewLine(len)>>
      <2>4. NewLine(len) \in Line /\ new \in Seq(Line)
            BY NewLineType DEF OutType
      <2>5. server_toqueue' = server_toqueue \o new /\ due' = due \o new
            BY <2>1, <2>3, <2>4, AppendIsConcat DEF OutType
      <2>6. filled \o server_txqueue \in Seq(Line)
            BY ConcatProperties DEF OutType
      <2> HIDE DEF new
      <2>7. (filled \o server_txqueue) \o (server_toqueue \o new)
               = ((filled \o server_txqueue) \o server_toqueue) \o new
            <3>1. server_toqueue \in Seq(Line)
                  BY DEF OutType
            <3> QED BY <2>4, <2>6, <3>1, LinesAssociative
      <2> QED BY <2>2, <2>3, <2>5, <2>7 DEF Queued, Handed
<1>4. CASE Merge
      <2>1. server_txqueue' = server_txqueue \o server_toqueue /\ server_toqueue' = <<>>
            /\ UNCHANGED <<server_fd, server_txbuffer, due, filled, handed, sent>>
            BY <1>4 DEF Merge
      <2>2. Queued /\ Handed
            BY <2>1
      <2>3. filled \o (server_txqueue \o server_toqueue) = (filled \o server_txqueue) \o server_toqueue
            <3>1. /\ filled \in Seq(Line) /\ server_txqueue \in Seq(Line)
                  /\ server_toqueue \in Seq(Line)
                  BY DEF OutType
            <3> QED BY <3>1, LinesAssociative
      <2>4. filled \o (server_txqueue \o server_toqueue) \in Seq(Line)
            BY ConcatProperties DEF OutType
      <2>5. (filled \o (server_txqueue \o server_toqueue)) \o <<>>
               = filled \o (server_txqueue \o server_toqueue)
            BY <2>4, ConcatEmptySeq
      <2> QED BY <2>1, <2>2, <2>3, <2>5 DEF Queued, Handed
<1>5. CASE Fill
      <2> DEFINE l == Head(server_txqueue)
      <2>1. server_txqueue # <<>> /\ l \in Line /\ Tail(server_txqueue) \in Seq(Line)
            BY <1>5, HeadTailProperties DEF Fill, OutType
      <2>2. server_txqueue = <<l>> \o Tail(server_txqueue)
            BY <2>1, <1>0 DEF OutType
      <2>3. Encoded(l) \in Seq(TxByte) /\ <<l>> \in Seq(Line)
            BY <2>1, EncodedType
      <2>4. /\ server_txbuffer' = server_txbuffer \o Encoded(l)
            /\ server_txqueue' = Tail(server_txqueue)
            /\ filled' = Append(filled, l)
            /\ handed' = handed \o Encoded(l)
            /\ UNCHANGED <<server_fd, server_toqueue, due, sent>>
            BY <1>5 DEF Fill
      <2>5. Queued /\ Handed
            BY <2>4
      <2>6. filled' = filled \o <<l>>
            BY <2>1, <2>4, AppendIsConcat DEF OutType
      <2> HIDE DEF l
      <2>7. (filled \o <<l>>) \o Tail(server_txqueue) = filled \o (<<l>> \o Tail(server_txqueue))
            <3>1. filled \in Seq(Line)
                  BY DEF OutType
            <3> QED BY <2>1, <2>3, <3>1, LinesAssociative
      <2>8. sent \o (server_txbuffer \o Encoded(l)) = (sent \o server_txbuffer) \o Encoded(l)
            <3>1. sent \in Seq(TxByte) /\ server_txbuffer \in Seq(TxByte)
                  BY DEF OutType
            <3> QED BY <2>3, <3>1, BytesAssociative
      <2> QED BY <2>2, <2>4, <2>5, <2>6, <2>7, <2>8 DEF Queued, Handed
<1>6. CASE Write
      <2> DEFINE First(n) == SubSeq(server_txbuffer, 1, n)
                 Left(n) == SubSeq(server_txbuffer, n + 1, Len(server_txbuffer))
      <2>1. PICK n \in 1 .. Len(server_txbuffer) :
               sent' = sent \o First(n) /\ server_txbuffer' = Left(n)
            BY <1>6 DEF Write
      <2>2. First(n) \in Seq(TxByte) /\ Left(n) \in Seq(TxByte) /\ First(n) \o Left(n) = server_txbuffer
            BY <2>1, WriteParts DEF OutType
      <2>3. UNCHANGED <<server_fd, server_txqueue, server_toqueue, due, filled, handed>>
            BY <1>6 DEF Write
      <2>4. Queued /\ Handed
            BY <2>3
      <2> HIDE DEF First, Left
      <2>5. (sent \o First(n)) \o Left(n) = sent \o (First(n) \o Left(n))
            <3>1. sent \in Seq(TxByte)
                  BY DEF OutType
            <3> QED BY <2>2, <3>1, BytesAssociative
      <2> QED BY <2>1, <2>2, <2>3, <2>4, <2>5 DEF Queued, Handed
<1>7. CASE HandleFlags
      <2>1. UNCHANGED <<server_fd, outgoing>>
            BY <1>7 DEF HandleFlags, Disconnect, outgoing
      <2> QED BY <1>1, <2>1
<1>8. CASE ServerCloses
      BY <1>8 DEF ServerCloses, Disconnect
<1>9. CASE Discard
      BY <1>9 DEF Discard
<1>10. CASE \/ ResolverAnswers \/ ReadServer \/ ConnectFails \/ Nothing \/ CommandConnect
            \/ CommandDisconnect \/ NothingToSend \/ StartFlush \/ FillEnds \/ WriteFails
            \/ UNCHANGED vars
      <2>1. UNCHANGED <<server_fd, outgoing>>
            BY <1>10 DEF ResolverAnswers, ReadServer, ConnectFails, Nothing, CommandConnect,
                         CommandDisconnect, NothingToSend, StartFlush, FillEnds, WriteFails, vars
      <2> QED BY <1>1, <2>1
<1> QED BY <1>2, <1>3, <1>4, <1>5, <1>6, <1>7, <1>8, <1>9, <1>10
    DEF Next, Network, User, Flush

IInv == TypeOK /\ NothingLeft /\ LeftBeside /\ (server_fd => Queued /\ Handed)

\* What is sent to a server is what was queued since it was connected to, in
\* order and each once, and before it nothing but what waited when this
\* connection took the place of an open one, for every number of lines and
\* connections (world_flush_server_txbuf(), world_disconnect_server(),
\* handle_connecting_fd()).
THEOREM SentAsQueued == Spec => []SentInOrder
<1>1. Init => IInv
      BY InitType DEF Init, IInv, NothingLeft, LeftBeside
<1>2. IInv /\ [Next]_vars => IInv'
      <2> SUFFICES ASSUME IInv, [Next]_vars PROVE IInv'
          OBVIOUS
      <2>1. TypeOK' /\ NothingLeft' /\ LeftBeside'
            BY TypeStep, NothingLeftStep, LeftBesideStep DEF IInv
      <2>2. server_fd' => Queued' /\ Handed'
            BY LinkStep DEF IInv
      <2> QED BY <2>1, <2>2 DEF IInv
<1>3. IInv => SentInOrder
      BY DEF IInv, LeftBeside, SentInOrder, Queued, Handed
<1> QED BY <1>1, <1>2, <1>3, PTL DEF Spec

-----------------------------------------------------------------------------
(* What arrives: the reader that gets its bytes one by one.                *)

LEMMA NaturalsReached ==
    ASSUME NEW T \in SUBSET Nat, 0 \in T, \A n \in T : n + 1 \in T
    PROVE  T = Nat
<1> SUFFICES ASSUME Nat \ T # {} PROVE FALSE
    OBVIOUS
<1>1. PICK x \in Nat \ T : \A y \in Nat \ T : <<y, x>> \notin OpToRel(<, Nat)
      BY WFMin, NatLessThanWellFounded
<1>2. x \in Nat /\ x # 0 /\ x \notin T
      OBVIOUS
<1>3. x - 1 \in Nat /\ x - 1 < x /\ (x - 1) + 1 = x
      BY <1>2
<1>4. x - 1 \in T
      BY <1>1, <1>2, <1>3 DEF OpToRel
<1> QED BY <1>2, <1>3, <1>4

\* One turn of ByteByByte.
Begin == [lines |-> <<>>, part |-> <<>>]
Feed(last, x) ==
    LET part == Append(last.part, x)
    IN  IF x = "LF"
           THEN [lines |-> Append(last.lines, Chop(last.part)), part |-> <<>>]
        ELSE IF Len(part) = BufferLen
           THEN [lines |-> Append(last.lines, Chop(part)), part |-> <<>>]
        ELSE [lines |-> last.lines, part |-> part]

Cuts(f, r, n) == f = [m \in 0 .. n |-> IF m = 0 THEN Begin ELSE Feed(f[m - 1], r[m])]
CutOf(r) == (CHOOSE f : Cuts(f, r, Len(r)))[Len(r)]

LEMMA ByteByByteCuts == ByteByByte = CutOf(received)
BY DEF ByteByByte, CutOf, Cuts, Begin, Feed

LEMMA CutsAt ==
    ASSUME NEW f, NEW r, NEW n \in Nat, Cuts(f, r, n)
    PROVE  f[0] = Begin /\ \A m \in 1 .. n : f[m] = Feed(f[m - 1], r[m])
<1> DEFINE Turn(m) == IF m = 0 THEN Begin ELSE Feed(f[m - 1], r[m])
<1>1. f = [m \in 0 .. n |-> Turn(m)]
      BY DEF Cuts
<1>2. \A m \in 0 .. n : f[m] = Turn(m)
      <2> HIDE DEF Turn
      <2> QED BY <1>1
<1> QED BY <1>2

LEMMA CutsExist ==
    ASSUME NEW r, NEW n \in Nat
    PROVE  \E f : Cuts(f, r, n)
<1> DEFINE T == {k \in Nat : \E f : Cuts(f, r, k)}
<1>1. 0 \in T
      <2>1. Cuts([m \in 0 .. 0 |-> Begin], r, 0)
            BY DEF Cuts
      <2> QED BY <2>1
<1>2. ASSUME NEW k \in T PROVE k + 1 \in T
      <2>1. PICK f : Cuts(f, r, k)
            OBVIOUS
      <2> DEFINE g == [m \in 0 .. k + 1 |-> IF m = k + 1 THEN Feed(f[k], r[k + 1]) ELSE f[m]]
                 Turn(h, m) == IF m = 0 THEN Begin ELSE Feed(h[m - 1], r[m])
      <2>2. f[0] = Begin /\ \A m \in 1 .. k : f[m] = Feed(f[m - 1], r[m])
            BY <2>1, CutsAt
      <2>3. ASSUME NEW m \in 0 .. k + 1 PROVE g[m] = Turn(g, m)
            <3>1. CASE m = 0
                  BY <2>2, <3>1
            <3>2. CASE m \in 1 .. k
                  <4>1. g[m] = f[m] /\ g[m - 1] = f[m - 1]
                        BY <3>2
                  <4>2. m # 0 /\ f[m] = Feed(f[m - 1], r[m])
                        BY <2>2, <3>2
                  <4> HIDE DEF g
                  <4> QED BY <4>1, <4>2
            <3>3. CASE m = k + 1
                  <4>1. g[m] = Feed(f[k], r[k + 1]) /\ g[m - 1] = f[k] /\ m # 0
                        BY <3>3
                  <4> HIDE DEF g
                  <4> QED BY <3>3, <4>1
            <3> QED BY <3>1, <3>2, <3>3
      <2>4. g = [m \in 0 .. k + 1 |-> g[m]]
            OBVIOUS
      <2>5. [m \in 0 .. k + 1 |-> g[m]] = [m \in 0 .. k + 1 |-> Turn(g, m)]
            <3> HIDE DEF g, Turn
            <3> QED BY <2>3
      <2>6. Cuts(g, r, k + 1)
            <3> HIDE DEF g
            <3> QED BY <2>4, <2>5 DEF Cuts
      <2> QED BY <2>6
<1>3. T = Nat
      <2> HIDE DEF T
      <2>1. T \in SUBSET Nat
            BY DEF T
      <2> QED BY <1>1, <1>2, <2>1, NaturalsReached
<1> QED BY <1>3

\* What was cut does not depend on what follows.
LEMMA CutsAgree ==
    ASSUME NEW f, NEW g, NEW r, NEW s, NEW n \in Nat, NEW k \in Nat, n <= k,
           Cuts(f, r, n), Cuts(g, s, k), \A m \in 1 .. n : r[m] = s[m]
    PROVE  f[n] = g[n]
<1> DEFINE T == {m \in Nat : m <= n => f[m] = g[m]}
<1>1. f[0] = Begin /\ \A m \in 1 .. n : f[m] = Feed(f[m - 1], r[m])
      BY CutsAt
<1>2. g[0] = Begin /\ \A m \in 1 .. k : g[m] = Feed(g[m - 1], s[m])
      BY CutsAt
<1>3. 0 \in T
      BY <1>1, <1>2
<1>4. ASSUME NEW m \in T PROVE m + 1 \in T
      <2> SUFFICES ASSUME m + 1 <= n PROVE f[m + 1] = g[m + 1]
          OBVIOUS
      <2>1. f[m] = g[m] /\ m + 1 \in 1 .. n /\ m + 1 \in 1 .. k /\ (m + 1) - 1 = m
            OBVIOUS
      <2>2. f[m + 1] = Feed(f[m], r[m + 1])
            BY <1>1, <2>1
      <2>3. g[m + 1] = Feed(g[m], s[m + 1])
            BY <1>2, <2>1
      <2> QED BY <2>1, <2>2, <2>3
<1>5. T = Nat
      <2> HIDE DEF T
      <2>1. T \in SUBSET Nat
            BY DEF T
      <2> QED BY <1>3, <1>4, <2>1, NaturalsReached
<1> QED BY <1>5

LEMMA CutOfEmpty == CutOf(<<>>) = Begin
<1> DEFINE C == CHOOSE f : Cuts(f, <<>>, 0)
<1>1. Cuts(C, <<>>, 0)
      BY CutsExist
<1>2. C[0] = Begin
      <2> HIDE DEF C
      <2> QED BY <1>1, CutsAt
<1> QED BY <1>2 DEF CutOf

LEMMA CutOfAppend ==
    ASSUME NEW r \in Seq(Bytes), NEW x \in Bytes
    PROVE  CutOf(Append(r, x)) = Feed(CutOf(r), x)
<1> DEFINE n == Len(r)
           s == Append(r, x)
           C == CHOOSE f : Cuts(f, r, n)
           D == CHOOSE f : Cuts(f, s, n + 1)
<1>1. n \in Nat /\ n + 1 \in Nat /\ Len(s) = n + 1 /\ s[n + 1] = x
      OBVIOUS
<1>2. \A m \in 1 .. n : r[m] = s[m]
      OBVIOUS
<1>3. CutOf(r) = C[n] /\ CutOf(s) = D[n + 1]
      BY <1>1 DEF CutOf
<1> HIDE DEF s, n
<1>4. Cuts(C, r, n) /\ Cuts(D, s, n + 1)
      BY <1>1, CutsExist
<1> HIDE DEF C, D
<1>5. C[n] = D[n]
      <2> DEFINE k == n + 1
      <2>1. k \in Nat /\ n \in Nat /\ n <= k /\ Cuts(C, r, n) /\ Cuts(D, s, k)
            BY <1>1, <1>4
      <2> HIDE DEF k
      <2> QED BY <1>2, <2>1, CutsAgree
<1>6. D[n + 1] = Feed(D[n], s[n + 1])
      <2>1. \A m \in 1 .. n + 1 : D[m] = Feed(D[m - 1], s[m])
            BY <1>1, <1>4, CutsAt
      <2>2. n + 1 \in 1 .. n + 1 /\ (n + 1) - 1 = n
            BY <1>1
      <2> QED BY <2>1, <2>2
<1> QED BY <1>1, <1>3, <1>5, <1>6 DEF s

-----------------------------------------------------------------------------
(* One byte more in the buffer.                                            *)

LEMMA EndsOfAppend ==
    ASSUME NEW b \in Seq(Bytes), NEW x \in Bytes
    PROVE  /\ Ends(Append(b, x)) = IF x = "LF" THEN Ends(b) \cup {Len(b) + 1} ELSE Ends(b)
           /\ Ends(b) \in SUBSET (1 .. Len(b)) /\ IsFiniteSet(Ends(b))
           /\ EndCount(Append(b, x)) = IF x = "LF" THEN EndCount(b) + 1 ELSE EndCount(b)
<1> DEFINE s == Append(b, x)
           n == Len(b)
<1>1. n \in Nat /\ Len(s) = n + 1 /\ s[n + 1] = x /\ \A i \in 1 .. n : s[i] = b[i]
      OBVIOUS
<1>2. Ends(s) = {i \in 1 .. n + 1 : s[i] = "LF"} /\ Ends(b) = {i \in 1 .. n : b[i] = "LF"}
      BY <1>1 DEF Ends
<1> HIDE DEF s, n
<1>3. Ends(s) = IF x = "LF" THEN Ends(b) \cup {n + 1} ELSE Ends(b)
      BY <1>1, <1>2
<1>4. Ends(b) \in SUBSET (1 .. n) /\ n + 1 \notin Ends(b)
      BY <1>1, <1>2
<1>5. IsFiniteSet(1 .. n)
      BY <1>1, FS_Interval
<1>6. IsFiniteSet(Ends(b))
      BY <1>4, <1>5, FS_Subset
<1>7. Cardinality(Ends(b) \cup {n + 1}) = Cardinality(Ends(b)) + 1
      BY <1>4, <1>6, FS_AddElement
<1> QED BY <1>3, <1>4, <1>6, <1>7 DEF s, n, EndCount

\* The bytes before the k-th LF are the same with another byte behind.
LEMMA EndOfAppend ==
    ASSUME NEW b \in Seq(Bytes), NEW x \in Bytes, NEW k \in Nat, k <= EndCount(b)
    PROVE  EndOf(b, k) \in 0 .. Len(b) /\ EndOf(Append(b, x), k) = EndOf(b, k)
<1> DEFINE s == Append(b, x)
           n == Len(b)
           Before(e, i) == Cardinality(e \cap (1 .. i))
           B == {i \in 1 .. n : Before(Ends(b), i) < k}
           C == {i \in 1 .. n + 1 : Before(Ends(s), i) < k}
<1>1. n \in Nat /\ Len(s) = n + 1
      OBVIOUS
<1>2. EndOf(b, k) = IF k = 0 THEN 0 ELSE Cardinality(B) + 1
      BY DEF EndOf
<1>3. EndOf(s, k) = IF k = 0 THEN 0 ELSE Cardinality(C) + 1
      BY <1>1 DEF EndOf
<1>4. /\ Ends(s) = IF x = "LF" THEN Ends(b) \cup {n + 1} ELSE Ends(b)
      /\ Ends(b) \in SUBSET (1 .. n) /\ IsFiniteSet(Ends(b))
      BY EndsOfAppend
<1> HIDE DEF s, n
<1>5. \A i \in 1 .. n : Ends(s) \cap (1 .. i) = Ends(b) \cap (1 .. i)
      BY <1>1, <1>4
<1>6. IsFiniteSet(Ends(s))
      BY <1>4, FS_AddElement
<1>7. Ends(b) \cap (1 .. n) = Ends(b) /\ Ends(b) \subseteq Ends(s) \cap (1 .. n + 1)
      BY <1>1, <1>4
<1>8. IsFiniteSet(Ends(s) \cap (1 .. n + 1))
      BY <1>6, FS_Subset
<1>9. /\ Before(Ends(s), n + 1) \in Nat /\ EndCount(b) \in Nat
      /\ EndCount(b) <= Before(Ends(s), n + 1) /\ Before(Ends(b), n) = EndCount(b)
      BY <1>4, <1>7, <1>8, FS_Subset, FS_CardinalityType DEF EndCount
<1>10. \A i \in 1 .. n : Before(Ends(s), i) = Before(Ends(b), i)
       BY <1>5
<1> HIDE DEF Before
<1>11. B = C
       <2>1. n + 1 \notin C
             BY <1>9
       <2>2. C \subseteq 1 .. n
             BY <1>1, <2>1
       <2> QED BY <1>1, <1>10, <2>2
<1>12. CASE k = 0
       BY <1>1, <1>2, <1>3, <1>12 DEF s, n
<1>13. CASE k # 0
       <2>1. n # 0
             <3> SUFFICES ASSUME n = 0 PROVE FALSE
                 OBVIOUS
             <3>1. Ends(b) = {}
                   BY <1>4
             <3>2. EndCount(b) = 0
                   BY <3>1, FS_EmptySet DEF EndCount
             <3> QED BY <1>13, <3>2
       <2>2. n \notin B
             BY <1>9
       <2>3. B \in SUBSET (1 .. n - 1)
             BY <1>1, <2>1, <2>2
       <2>4. n - 1 \in Nat
             BY <1>1, <2>1
       <2>5. IsFiniteSet(1 .. n - 1) /\ Cardinality(1 .. n - 1) = n - 1
             BY <2>4, FS_Interval
       <2>6. Cardinality(B) <= n - 1 /\ Cardinality(B) \in Nat
             BY <2>3, <2>5, FS_Subset, FS_CardinalityType
       <2> HIDE DEF B, C
       <2> QED BY <1>1, <1>2, <1>3, <1>11, <1>13, <2>6 DEF s, n
<1> QED BY <1>12, <1>13

\* The LF that comes last is where the bytes end.
LEMMA EndOfNew ==
    ASSUME NEW b \in Seq(Bytes)
    PROVE  EndOf(Append(b, "LF"), EndCount(b) + 1) = Len(b) + 1
<1> DEFINE s == Append(b, "LF")
           n == Len(b)
           k == EndCount(b) + 1
           C == {i \in 1 .. n + 1 : Cardinality(Ends(s) \cap (1 .. i)) < k}
<1>0. EndCount(b) \in Nat
      BY EndOfType
<1>1. n \in Nat /\ Len(s) = n + 1 /\ k \in Nat /\ k # 0 /\ k = EndCount(b) + 1
      BY <1>0
<1>2. EndOf(s, k) = Cardinality(C) + 1
      BY <1>1 DEF EndOf
<1>3. /\ Ends(s) = Ends(b) \cup {n + 1} /\ EndCount(s) = k
      /\ Ends(b) \in SUBSET (1 .. n) /\ IsFiniteSet(Ends(b))
      BY EndsOfAppend DEF Bytes
<1> HIDE DEF s, n, k
<1>4. \A i \in 1 .. n : Cardinality(Ends(s) \cap (1 .. i)) < k
      <2> TAKE i \in 1 .. n
      <2>1. Ends(s) \cap (1 .. i) \subseteq Ends(b)
            BY <1>1, <1>3
      <2>2. Cardinality(Ends(s) \cap (1 .. i)) <= Cardinality(Ends(b))
            BY <1>3, <2>1, FS_Subset
      <2>3. Cardinality(Ends(s) \cap (1 .. i)) \in Nat
            BY <1>3, <2>1, FS_Subset, FS_CardinalityType
      <2> QED BY <1>0, <1>1, <2>2, <2>3 DEF EndCount
<1>5. Ends(s) \cap (1 .. n + 1) = Ends(s)
      BY <1>1, <1>3
<1>6. ~(Cardinality(Ends(s) \cap (1 .. n + 1)) < k)
      <2>1. Cardinality(Ends(s) \cap (1 .. n + 1)) = EndCount(s)
            BY <1>5 DEF EndCount
      <2> QED BY <1>1, <1>3, <2>1
<1>7. C = 1 .. n
      <2> DEFINE Low(i) == Cardinality(Ends(s) \cap (1 .. i)) < k
      <2>1. ~Low(n + 1) /\ \A i \in 1 .. n : Low(i)
            BY <1>4, <1>6
      <2>2. C = {i \in 1 .. n + 1 : Low(i)}
            OBVIOUS
      <2> HIDE DEF Low, C
      <2>3. \A i \in 1 .. n + 1 : i \in 1 .. n \/ i = n + 1
            BY <1>1
      <2>4. 1 .. n \subseteq 1 .. n + 1 /\ n + 1 \notin 1 .. n
            BY <1>1
      <2> QED BY <2>1, <2>2, <2>3, <2>4
<1>8. Cardinality(C) = n
      <2> HIDE DEF C
      <2> QED BY <1>1, <1>7, FS_Interval
<1> HIDE DEF C
<1> QED BY <1>2, <1>8 DEF s, n, k

LEMMA SubSeqSame ==
    ASSUME NEW b \in Seq(Bytes), NEW x \in Bytes, NEW i \in Nat, i >= 1, NEW j \in Int, j <= Len(b)
    PROVE  SubSeq(Append(b, x), i, j) = SubSeq(b, i, j)
<1> DEFINE s == Append(b, x)
<1>1. s \in Seq(Bytes) /\ Len(s) = Len(b) + 1 /\ \A k \in 1 .. Len(b) : s[k] = b[k]
      BY AppendProperties
<1> HIDE DEF s
<1>2. (\A k \in i .. j : s[k] \in Bytes) /\ (\A k \in i .. j : b[k] \in Bytes)
      BY <1>1
<1>3. /\ SubSeq(b, i, j) \in Seq(Bytes) /\ SubSeq(s, i, j) \in Seq(Bytes)
      /\ Len(SubSeq(b, i, j)) = Len(SubSeq(s, i, j))
      /\ Len(SubSeq(b, i, j)) = IF i <= j THEN j - i + 1 ELSE 0
      /\ \A k \in 1 .. j - i + 1 : SubSeq(b, i, j)[k] = b[i + k - 1]
      /\ \A k \in 1 .. j - i + 1 : SubSeq(s, i, j)[k] = s[i + k - 1]
      BY <1>2, SubSeqProperties
<1>4. ASSUME NEW k \in 1 .. Len(SubSeq(s, i, j)) PROVE SubSeq(s, i, j)[k] = SubSeq(b, i, j)[k]
      <2>1. k \in 1 .. j - i + 1 /\ i + k - 1 \in 1 .. Len(b)
            BY <1>3
      <2> QED BY <1>1, <1>3, <2>1
<1>5. SubSeq(s, i, j) = SubSeq(b, i, j)
      BY <1>3, <1>4, SeqEqual
<1> QED BY <1>5 DEF s

LEMMA SubSeqMore ==
    ASSUME NEW b \in Seq(Bytes), NEW x \in Bytes, NEW i \in 1 .. Len(b) + 1
    PROVE  SubSeq(Append(b, x), i, Len(b) + 1) = Append(SubSeq(b, i, Len(b)), x)
<1> DEFINE s == Append(b, x)
           n == Len(b)
           p == SubSeq(b, i, n)
           q == SubSeq(s, i, n + 1)
<1>1. n \in Nat /\ s \in Seq(Bytes) /\ Len(s) = n + 1 /\ s[n + 1] = x
      BY AppendProperties
<1>2. i \in Nat /\ i >= 1 /\ i <= n + 1
      BY <1>1
<1>3. p \in Seq(Bytes) /\ Len(p) = n + 1 - i
      <2>1. Len(SubSeq(b, i, n)) = IF i <= n THEN n - i + 1 ELSE 0
            BY <1>1, <1>2, SubSeqType
      <2> QED BY <1>1, <1>2, <2>1, SubSeqType
<1>4. SubSeq(s, i, n + 1) = SubSeq(s, i, n) \o <<s[n + 1]>>
      <2>1. i \in 1 .. Len(s) /\ n + 1 \in i .. Len(s) /\ (n + 1) - 1 = n
            BY <1>1, <1>2
      <2> HIDE DEF s, n
      <2> QED BY <1>1, <2>1, SubSeqRecursiveSecond
<1>5. SubSeq(s, i, n) = p
      BY <1>1, <1>2, SubSeqSame
<1> HIDE DEF p
<1>6. Append(p, x) = p \o <<x>>
      BY <1>3, AppendIsConcat
<1> QED BY <1>1, <1>4, <1>5, <1>6 DEF p

\* What stays in the buffer, and when nothing has been cut from it.
LEMMA RestProperties ==
    ASSUME NEW b \in Seq(Bytes), Len(b) < BufferLen
    PROVE  /\ ~BigLine(b)
           /\ Rest(b) \in Seq(Bytes)
           /\ Rest(b) = SubSeq(b, EndOf(b, EndCount(b)) + 1, Len(b))
           /\ IF Ends(b) = {} THEN EndCount(b) = 0 /\ Rest(b) = b /\ LinesIn(b) = <<>>
                              ELSE Len(Rest(b)) < Len(b)
<1> USE BufferAssumption
<1> DEFINE e == EndOf(b, EndCount(b))
           n == Len(b)
<1>1. ~BigLine(b) /\ n \in Nat
      BY DEF BigLine
<1>2. Rest(b) = SubSeq(b, e + 1, n)
      BY <1>1 DEF Rest
<1>3. EndCount(b) \in Nat /\ e \in 0 .. n /\ (Ends(b) # {} => e >= 1)
      <2>1. EndCount(b) \in Nat /\ "other" \in Bytes
            BY EndOfType DEF Bytes
      <2>2. EndCount(b) <= EndCount(b)
            BY <2>1
      <2>3. e \in 0 .. n
            BY <2>1, <2>2, EndOfAppend
      <2> QED BY <2>1, <2>3, EndOfType
<1> HIDE DEF e, n
<1>4. e + 1 \in Nat /\ e + 1 >= 1
      BY <1>1, <1>3
<1>5. Rest(b) \in Seq(Bytes) /\ Len(Rest(b)) = IF e + 1 <= n THEN n - (e + 1) + 1 ELSE 0
      BY <1>1, <1>2, <1>4, SubSeqType DEF n
<1>6. CASE Ends(b) = {}
      <2>1. EndCount(b) = 0
            BY <1>6, FS_EmptySet DEF EndCount
      <2>2. e = 0
            BY <2>1 DEF e, EndOf
      <2>3. Rest(b) = b
            BY <1>2, <2>2, SubSeqFull DEF n
      <2>4. LinesIn(b) = [k \in 1 .. 0 |-> Chop(SubSeq(b, EndOf(b, k - 1) + 1, EndOf(b, k) - 1))]
            BY <1>1, <2>1 DEF LinesIn
      <2> DEFINE l(k) == Chop(SubSeq(b, EndOf(b, k - 1) + 1, EndOf(b, k) - 1))
      <2>5. LinesIn(b) = [k \in 1 .. 0 |-> l(k)]
            BY <2>4
      <2> HIDE DEF l
      <2>6. LinesIn(b) = <<>>
            BY <2>5
      <2> QED BY <1>1, <1>2, <1>5, <1>6, <2>1, <2>3, <2>6 DEF e, n
<1>7. CASE Ends(b) # {}
      BY <1>1, <1>2, <1>3, <1>5, <1>7 DEF e, n
<1> QED BY <1>6, <1>7

\* A byte that ends nothing.
LEMMA AnotherByte ==
    ASSUME NEW b \in Seq(Bytes), NEW x \in Bytes, Len(b) < BufferLen,
           x # "LF", ~BigLine(Append(b, x))
    PROVE  LinesIn(Append(b, x)) = LinesIn(b) /\ Rest(Append(b, x)) = Append(Rest(b), x)
<1> DEFINE s == Append(b, x)
           c == EndCount(b)
           l(k) == Chop(SubSeq(b, EndOf(b, k - 1) + 1, EndOf(b, k) - 1))
           m(k) == Chop(SubSeq(s, EndOf(s, k - 1) + 1, EndOf(s, k) - 1))
<1>1. c \in Nat /\ EndCount(s) = c
      BY EndOfType, EndsOfAppend
<1>2. ASSUME NEW k \in Nat, k <= c
      PROVE  EndOf(b, k) \in 0 .. Len(b) /\ EndOf(s, k) = EndOf(b, k)
      BY <1>2, EndOfAppend
<1>3. ~BigLine(b)
      BY RestProperties
<1>4. LinesIn(b) = [k \in 1 .. c |-> l(k)]
      BY <1>3 DEF LinesIn
<1>5. LinesIn(s) = [k \in 1 .. c |-> m(k)]
      BY <1>1 DEF LinesIn
<1>6. ASSUME NEW k \in 1 .. c PROVE m(k) = l(k)
      <2>1. k \in Nat /\ k - 1 \in Nat /\ k <= c /\ k - 1 <= c
            BY <1>1
      <2>2. /\ EndOf(b, k - 1) \in 0 .. Len(b) /\ EndOf(b, k) \in 0 .. Len(b)
            /\ EndOf(s, k - 1) = EndOf(b, k - 1) /\ EndOf(s, k) = EndOf(b, k)
            BY <1>2, <2>1
      <2>3. SubSeq(s, EndOf(b, k - 1) + 1, EndOf(b, k) - 1)
              = SubSeq(b, EndOf(b, k - 1) + 1, EndOf(b, k) - 1)
            <3>1. /\ EndOf(b, k - 1) + 1 \in Nat /\ EndOf(b, k - 1) + 1 >= 1
                  /\ EndOf(b, k) - 1 \in Int /\ EndOf(b, k) - 1 <= Len(b)
                  BY <2>2
            <3> QED BY <3>1, SubSeqSame
      <2> QED BY <2>2, <2>3
<1>7. LinesIn(s) = LinesIn(b)
      <2> HIDE DEF l, m, s
      <2> QED BY <1>4, <1>5, <1>6
<1>8. Rest(s) = SubSeq(s, EndOf(b, c) + 1, Len(b) + 1)
      <2>1. EndOf(s, EndCount(s)) = EndOf(b, c) /\ Len(s) = Len(b) + 1
            BY <1>1, <1>2
      <2> QED BY <2>1 DEF Rest
<1>9. Rest(b) = SubSeq(b, EndOf(b, c) + 1, Len(b))
      BY RestProperties
<1>10. EndOf(b, c) + 1 \in 1 .. Len(b) + 1
       BY <1>1, <1>2
<1> HIDE DEF c
<1> QED BY <1>7, <1>8, <1>9, <1>10, SubSeqMore

\* A byte that ends a line.
LEMMA EndingByte ==
    ASSUME NEW b \in Seq(Bytes), Len(b) < BufferLen
    PROVE  /\ LinesIn(Append(b, "LF")) = Append(LinesIn(b), Chop(Rest(b)))
           /\ Rest(Append(b, "LF")) = <<>>
<1> DEFINE s == Append(b, "LF")
           c == EndCount(b)
           n == Len(b)
           l(k) == Chop(SubSeq(b, EndOf(b, k - 1) + 1, EndOf(b, k) - 1))
           m(k) == Chop(SubSeq(s, EndOf(s, k - 1) + 1, EndOf(s, k) - 1))
<1>0. "LF" \in Bytes
      BY DEF Bytes
<1>1. c \in Nat /\ n \in Nat /\ EndCount(s) = c + 1 /\ Len(s) = n + 1 /\ s \in Seq(Bytes)
      BY <1>0, EndOfType, EndsOfAppend, AppendProperties
<1>2. ASSUME NEW k \in Nat, k <= c
      PROVE  EndOf(b, k) \in 0 .. n /\ EndOf(s, k) = EndOf(b, k)
      BY <1>0, <1>2, EndOfAppend
<1>3. EndOf(s, c + 1) = n + 1
      BY EndOfNew
<1>4. ~BigLine(b) /\ ~BigLine(s)
      <2>1. n + 1 \in Ends(s)
            BY <1>0, EndsOfAppend
      <2> QED BY <2>1, RestProperties DEF BigLine
<1>5. LinesIn(b) = [k \in 1 .. c |-> l(k)]
      BY <1>4 DEF LinesIn
<1>6. LinesIn(s) = [k \in 1 .. c + 1 |-> m(k)]
      BY <1>1, <1>4 DEF LinesIn
<1>7. ASSUME NEW k \in 1 .. c PROVE m(k) = l(k)
      <2>1. k \in Nat /\ k - 1 \in Nat /\ k <= c /\ k - 1 <= c
            BY <1>1
      <2>2. /\ EndOf(b, k - 1) \in 0 .. n /\ EndOf(b, k) \in 0 .. n
            /\ EndOf(s, k - 1) = EndOf(b, k - 1) /\ EndOf(s, k) = EndOf(b, k)
            BY <1>2, <2>1
      <2>3. SubSeq(s, EndOf(b, k - 1) + 1, EndOf(b, k) - 1)
              = SubSeq(b, EndOf(b, k - 1) + 1, EndOf(b, k) - 1)
            <3>1. /\ EndOf(b, k - 1) + 1 \in Nat /\ EndOf(b, k - 1) + 1 >= 1
                  /\ EndOf(b, k) - 1 \in Int /\ EndOf(b, k) - 1 <= n
                  BY <2>2
            <3> QED BY <1>0, <3>1, SubSeqSame
      <2> QED BY <2>2, <2>3
<1>8. m(c + 1) = Chop(Rest(b))
      <2>1. EndOf(s, (c + 1) - 1) = EndOf(b, c) /\ EndOf(s, c + 1) - 1 = n
            BY <1>1, <1>2, <1>3
      <2>2. EndOf(b, c) + 1 \in Nat /\ EndOf(b, c) + 1 >= 1 /\ n \in Int /\ n <= Len(b)
            BY <1>1, <1>2
      <2>3. SubSeq(s, EndOf(b, c) + 1, n) = SubSeq(b, EndOf(b, c) + 1, n)
            BY <1>0, <2>2, SubSeqSame
      <2>4. Rest(b) = SubSeq(b, EndOf(b, c) + 1, n)
            BY RestProperties
      <2> QED BY <2>1, <2>3, <2>4
<1>9. LinesIn(s) = Append(LinesIn(b), Chop(Rest(b)))
      <2>1. LinesIn(b) \in Seq(Seq(Bytes)) /\ Chop(Rest(b)) \in Seq(Bytes)
            BY LinesInType, RestProperties, ChopType
      <2>2. LinesIn(s) \in Seq(Seq(Bytes))
            BY <1>1, LinesInType
      <2> HIDE DEF l, m, s, c
      <2>3. Len(LinesIn(b)) = c /\ Len(LinesIn(s)) = c + 1
            BY <1>1, <1>5, <1>6
      <2> DEFINE t == Append(LinesIn(b), Chop(Rest(b)))
      <2>4. /\ t \in Seq(Seq(Bytes)) /\ Len(t) = c + 1 /\ t[c + 1] = Chop(Rest(b))
            /\ \A i \in 1 .. c : t[i] = LinesIn(b)[i]
            BY <2>1, <2>3, AppendProperties
      <2>5. \A i \in 1 .. c : LinesIn(b)[i] = l(i)
            BY <1>5
      <2>6. \A i \in 1 .. c + 1 : LinesIn(s)[i] = m(i)
            BY <1>6
      <2> HIDE DEF t
      <2>7. ASSUME NEW i \in 1 .. c + 1 PROVE LinesIn(s)[i] = t[i]
            <3>1. CASE i \in 1 .. c
                  BY <1>7, <2>4, <2>5, <2>6, <3>1
            <3>2. CASE i = c + 1
                  BY <1>8, <2>4, <2>6, <3>2
            <3> QED BY <1>1, <3>1, <3>2
      <2>8. LinesIn(s) = t
            BY <2>2, <2>3, <2>4, <2>7, SeqEqual
      <2> QED BY <2>8 DEF t
<1>10. Rest(s) = <<>>
      <2>1. Rest(s) = SubSeq(s, n + 2, n + 1)
            <3>1. EndOf(s, EndCount(s)) + 1 = n + 2
                  BY <1>1, <1>3
            <3> QED BY <1>1, <1>4, <3>1 DEF Rest
      <2> QED BY <1>1, <2>1, SubSeqEmpty
<1> QED BY <1>9, <1>10

\* The buffer is cut as the bytes would be that it is made of.
LEMMA CutAsFed ==
    ASSUME NEW b \in Seq(Bytes), NEW x \in Bytes, Len(b) < BufferLen,
           NEW before \in Seq(Seq(Bytes))
    PROVE  [lines |-> before \o LinesIn(Append(b, x)), part |-> Rest(Append(b, x))]
              = Feed([lines |-> before \o LinesIn(b), part |-> Rest(b)], x)
<1> DEFINE s == Append(b, x)
           last == [lines |-> before \o LinesIn(b), part |-> Rest(b)]
<1>1. /\ LinesIn(b) \in Seq(Seq(Bytes)) /\ Rest(b) \in Seq(Bytes) /\ Chop(Rest(b)) \in Seq(Bytes)
      BY LinesInType, RestProperties, ChopType
<1>2. Len(b) \in Nat /\ BufferLen \in Nat /\ s \in Seq(Bytes) /\ Len(s) = Len(b) + 1
      BY BufferAssumption, AppendProperties
<1>3. Len(Append(Rest(b), x)) = Len(Rest(b)) + 1 /\ Len(Rest(b)) \in Nat
      BY <1>1, AppendProperties
<1>4. last.lines = before \o LinesIn(b) /\ last.part = Rest(b)
      OBVIOUS
<1>5. \A y \in Seq(Bytes) : before \o Append(LinesIn(b), y) = Append(before \o LinesIn(b), y)
      <2> TAKE y \in Seq(Bytes)
      <2>1. Append(LinesIn(b), y) = LinesIn(b) \o <<y>>
            BY <1>1, AppendIsConcat
      <2>2. before \o LinesIn(b) \in Seq(Seq(Bytes)) /\ <<y>> \in Seq(Seq(Bytes))
            BY <1>1, ConcatProperties
      <2>3. Append(before \o LinesIn(b), y) = (before \o LinesIn(b)) \o <<y>>
            BY <2>2, AppendIsConcat
      <2> QED BY <1>1, <2>1, <2>2, <2>3, ConcatAssociative
<1>6. CASE x = "LF"
      <2>1. LinesIn(s) = Append(LinesIn(b), Chop(Rest(b))) /\ Rest(s) = <<>>
            BY <1>6, EndingByte
      <2>2. before \o LinesIn(s) = Append(last.lines, Chop(last.part))
            BY <1>1, <1>4, <1>5, <2>1
      <2>3. Feed(last, x) = [lines |-> Append(last.lines, Chop(last.part)), part |-> <<>>]
            BY <1>6 DEF Feed
      <2> HIDE DEF last, s
      <2>4. [lines |-> before \o LinesIn(s), part |-> Rest(s)] = Feed(last, x)
            BY <2>1, <2>2, <2>3
      <2> QED BY <2>4 DEF last, s
<1>7. CASE x # "LF" /\ BigLine(s)
      <2>1. Ends(b) = {} /\ Len(b) + 1 = BufferLen
            BY <1>2, <1>7, EndsOfAppend DEF BigLine
      <2>2. Rest(b) = b /\ LinesIn(b) = <<>>
            BY <2>1, RestProperties
      <2>3. LinesIn(s) = <<Chop(s)>> /\ Rest(s) = <<>>
            BY <1>7 DEF LinesIn, Rest
      <2>4. Append(last.part, x) = s /\ Len(s) = BufferLen
            BY <1>2, <2>1, <2>2
      <2>5. <<Chop(s)>> = Append(LinesIn(b), Chop(s)) /\ Chop(s) \in Seq(Bytes)
            <3>1. Chop(s) \in Seq(Bytes)
                  BY <1>2, ChopType
            <3> HIDE DEF s
            <3> QED BY <2>2, <3>1
      <2>6. before \o LinesIn(s) = Append(last.lines, Chop(s))
            BY <1>4, <1>5, <2>3, <2>5
      <2> HIDE DEF last, s
      <2>7. Feed(last, x) = [lines |-> Append(last.lines, Chop(s)), part |-> <<>>]
            BY <1>7, <2>4 DEF Feed
      <2>8. [lines |-> before \o LinesIn(s), part |-> Rest(s)] = Feed(last, x)
            BY <2>3, <2>6, <2>7
      <2> QED BY <2>8 DEF last, s
<1>8. CASE x # "LF" /\ ~BigLine(s)
      <2>1. LinesIn(s) = LinesIn(b) /\ Rest(s) = Append(Rest(b), x)
            BY <1>8, AnotherByte
      <2>2. Len(Append(last.part, x)) # BufferLen
            <3>1. CASE Ends(b) = {}
                  <4>1. Ends(s) = {} /\ Rest(b) = b
                        BY <1>8, <3>1, EndsOfAppend, RestProperties
                  <4>2. Len(s) < BufferLen
                        BY <1>2, <1>8, <4>1 DEF BigLine
                  <4> QED BY <1>2, <1>4, <4>1, <4>2
            <3>2. CASE Ends(b) # {}
                  <4>1. Len(Rest(b)) < Len(b)
                        BY <3>2, RestProperties
                  <4> QED BY <1>2, <1>3, <1>4, <4>1
            <3> QED BY <3>1, <3>2
      <2>3. before \o LinesIn(s) = last.lines /\ Append(last.part, x) = Rest(s)
            BY <1>4, <2>1
      <2> HIDE DEF last, s
      <2>4. Feed(last, x) = [lines |-> last.lines, part |-> Append(last.part, x)]
            BY <1>8, <2>2 DEF Feed
      <2>5. [lines |-> before \o LinesIn(s), part |-> Rest(s)] = Feed(last, x)
            BY <2>3, <2>4
      <2> QED BY <2>5 DEF last, s
<1> QED BY <1>6, <1>7, <1>8

LEMMA NoEndIsFed ==
    ASSUME NEW last, NEW x \in Bytes, last.part \in Seq(Bytes), Ends(last.part) = {}
    PROVE  Ends(Feed(last, x).part) = {}
<1> DEFINE part == Append(last.part, x)
<1>1. Ends(<<>>) = {}
      BY DEF Ends
<1>2. x # "LF" => Ends(part) = {}
      BY EndsOfAppend
<1> HIDE DEF part
<1>3. Feed(last, x).part = IF x = "LF" \/ Len(part) = BufferLen THEN <<>> ELSE part
      BY DEF Feed, part
<1> QED BY <1>1, <1>2, <1>3

LEMMA ByteBehind ==
    ASSUME NEW r \in Seq(Bytes), NEW p \in Seq(Bytes), NEW x \in Bytes
    PROVE  r \o Append(p, x) = Append(r \o p, x)
<1>1. r \o p \in Seq(Bytes) /\ <<x>> \in Seq(Bytes)
      BY ConcatProperties
<1>2. Append(p, x) = p \o <<x>> /\ Append(r \o p, x) = (r \o p) \o <<x>>
      BY <1>1, AppendIsConcat
<1> QED BY <1>1, <1>2, ConcatAssociative

\* A chunk is cut as its bytes would be, one after the other
\* (handle_server_fd(), buffer_to_lines()).
LEMMA ChunkAsFed ==
    ASSUME NEW r \in Seq(Bytes), NEW b \in Seq(Bytes), NEW chunk \in Seq(Bytes),
           NEW before \in Seq(Seq(Bytes)),
           Ends(b) = {}, Len(b) < BufferLen, Len(b) + Len(chunk) <= BufferLen,
           CutOf(r) = [lines |-> before, part |-> b]
    PROVE  /\ CutOf(r \o chunk)
                = [lines |-> before \o LinesIn(b \o chunk), part |-> Rest(b \o chunk)]
           /\ Ends(Rest(b \o chunk)) = {}
<1> USE BufferAssumption
<1> DEFINE Done(p) ==
               /\ CutOf(r \o p) = [lines |-> before \o LinesIn(b \o p), part |-> Rest(b \o p)]
               /\ Ends(Rest(b \o p)) = {}
           T == {m \in Nat : m <= Len(chunk) => Done(SubSeq(chunk, 1, m))}
<1>1. 0 \in T
      <2>1. SubSeq(chunk, 1, 0) = <<>>
            BY SubSeqEmpty
      <2>2. r \o <<>> = r /\ b \o <<>> = b /\ before \o <<>> = before
            BY ConcatEmptySeq
      <2>3. Rest(b) = b /\ LinesIn(b) = <<>>
            BY RestProperties
      <2>4. Done(<<>>)
            BY <2>2, <2>3
      <2> HIDE DEF Done
      <2> QED BY <2>1, <2>4
<1>2. ASSUME NEW m \in T PROVE m + 1 \in T
      <2> SUFFICES ASSUME m + 1 <= Len(chunk) PROVE Done(SubSeq(chunk, 1, m + 1))
          OBVIOUS
      <2> DEFINE p == SubSeq(chunk, 1, m)
                 x == chunk[m + 1]
      <2>1. m \in Nat /\ Len(chunk) \in Nat /\ m <= Len(chunk) /\ x \in Bytes
            OBVIOUS
      <2>2. Done(p)
            <3> HIDE DEF Done
            <3> QED BY <2>1
      <2>3. p \in Seq(Bytes) /\ Len(p) = m
            <3>1. 1 \in Nat /\ m \in Int
                  BY <2>1
            <3>2. Len(SubSeq(chunk, 1, m)) = IF 1 <= m THEN m - 1 + 1 ELSE 0
                  BY <2>1, <3>1, SubSeqType
            <3> QED BY <2>1, <3>1, <3>2, SubSeqType
      <2>4. SubSeq(chunk, 1, m + 1) = Append(p, x)
            <3>1. 1 \in 1 .. Len(chunk) /\ m + 1 \in 1 .. Len(chunk) /\ (m + 1) - 1 = m
                  BY <2>1
            <3>2. SubSeq(chunk, 1, m + 1) = p \o <<x>>
                  BY <3>1, SubSeqRecursiveSecond
            <3> QED BY <2>1, <2>3, <3>2, AppendIsConcat
      <2> HIDE DEF p, x
      <2> DEFINE bp == b \o p
                 last == [lines |-> before \o LinesIn(bp), part |-> Rest(bp)]
      <2>5. r \o Append(p, x) = Append(r \o p, x) /\ b \o Append(p, x) = Append(bp, x)
            BY <2>1, <2>3, ByteBehind
      <2>6. bp \in Seq(Bytes) /\ r \o p \in Seq(Bytes) /\ Len(bp) < BufferLen
            <3>1. Len(bp) = Len(b) + Len(p)
                  BY <2>3, ConcatProperties
            <3> QED BY <2>1, <2>3, <3>1, ConcatProperties
      <2>7. CutOf(r \o p) = last /\ Ends(Rest(bp)) = {} /\ last.part = Rest(bp)
            BY <2>2
      <2>8. Rest(bp) \in Seq(Bytes)
            BY <2>6, RestProperties
      <2> HIDE DEF bp
      <2>9. CutOf(Append(r \o p, x)) = Feed(last, x)
            <3> HIDE DEF last
            <3> QED BY <2>1, <2>6, <2>7, CutOfAppend
      <2>10. Feed(last, x)
               = [lines |-> before \o LinesIn(Append(bp, x)), part |-> Rest(Append(bp, x))]
            BY <2>1, <2>6, CutAsFed
      <2>11. Ends(Feed(last, x).part) = {}
            <3> HIDE DEF last
            <3> QED BY <2>1, <2>7, <2>8, NoEndIsFed
      <2> HIDE DEF last
      <2>12. Feed(last, x).part = Rest(Append(bp, x))
            BY <2>10
      <2>13. Done(Append(p, x))
            BY <2>5, <2>9, <2>10, <2>11, <2>12
      <2> HIDE DEF Done
      <2> QED BY <2>4, <2>13
<1> HIDE DEF Done
<1>3. T = Nat
      <2> HIDE DEF T
      <2>1. T \in SUBSET Nat
            BY DEF T
      <2> QED BY <1>1, <1>2, <2>1, NaturalsReached
<1>4. Done(SubSeq(chunk, 1, Len(chunk)))
      <2>1. Len(chunk) \in Nat /\ Len(chunk) <= Len(chunk)
            OBVIOUS
      <2> QED BY <1>3, <2>1
<1>5. SubSeq(chunk, 1, Len(chunk)) = chunk
      BY SubSeqFull
<1>6. Done(chunk)
      BY <1>4, <1>5
<1> QED BY <1>6 DEF Done

\* Bytes without an end of a line, too few to fill the buffer, are a part of one.
LEMMA PartIsFed ==
    ASSUME NEW b \in Seq(Bytes), Len(b) < BufferLen, Ends(b) = {}
    PROVE  CutOf(b) = [lines |-> <<>>, part |-> b]
<1> USE BufferAssumption
<1>1. Ends(<<>>) = {}
      BY DEF Ends
<1>2. CutOf(<<>>) = [lines |-> <<>>, part |-> <<>>]
      BY CutOfEmpty DEF Begin
<1>3. <<>> \o b = b
      BY ConcatEmptySeq
<1>4. /\ <<>> \in Seq(Bytes) /\ <<>> \in Seq(Seq(Bytes)) /\ Len(<<>>) < BufferLen
      /\ Len(<<>>) + Len(b) <= BufferLen
      OBVIOUS
<1>5. CutOf(<<>> \o b) = [lines |-> <<>> \o LinesIn(<<>> \o b), part |-> Rest(<<>> \o b)]
      <2> DEFINE none == <<>>
      <2>1. none \in Seq(Bytes) /\ none \in Seq(Seq(Bytes)) /\ Ends(none) = {}
            /\ CutOf(none) = [lines |-> none, part |-> none]
            /\ Len(none) < BufferLen /\ Len(none) + Len(b) <= BufferLen
            BY <1>1, <1>2, <1>4
      <2> HIDE DEF none
      <2>2. /\ CutOf(none \o b)
                  = [lines |-> none \o LinesIn(none \o b), part |-> Rest(none \o b)]
            /\ Ends(Rest(none \o b)) = {}
            BY <2>1, ChunkAsFed
      <2> QED BY <2>2 DEF none
<1>6. Rest(b) = b /\ LinesIn(b) = <<>>
      BY RestProperties
<1>7. <<>> \o <<>> = <<>>
      BY <1>4, ConcatEmptySeq
<1> QED BY <1>3, <1>5, <1>6, <1>7

\* What was cut so far is what the bytes make, and the buffer holds the rest.
CutInv ==
    /\ server_fd => CutOf(received) = [lines |-> rxlines, part |-> server_rxbuffer]
    /\ Ends(server_rxbuffer) = {}

LEMMA CutInit == Init => CutInv
BY DEF Init, CutInv, Ends

LEMMA CutStep == TypeOK /\ CutInv /\ [Next]_vars => CutInv'
<1> SUFFICES ASSUME TypeOK, CutInv, [Next]_vars PROVE CutInv'
    OBVIOUS
<1>1. Ends(<<>>) = {}
      BY DEF Ends
<1>2. ASSUME UNCHANGED <<server_fd, incoming>> PROVE CutInv'
      BY <1>2 DEF incoming, CutInv, Ends, CutOf
<1>3. ASSUME Disconnect PROVE CutInv'
      BY <1>1, <1>3 DEF Disconnect, CutInv, Ends
<1>4. CASE ReadServer
      <2> DEFINE Read(chunk) ==
                    /\ received' = received \o chunk
                    /\ rxlines' = rxlines \o LinesIn(server_rxbuffer \o chunk)
                    /\ server_rxbuffer' = Rest(server_rxbuffer \o chunk)
      <2>0. PICK n \in 1 .. BufferLen - Len(server_rxbuffer) :
                \E chunk \in [1 .. n -> Bytes] : Read(chunk)
            BY <1>4 DEF ReadServer
      <2>1. PICK chunk \in [1 .. n -> Bytes] : Read(chunk)
            BY <2>0
      <2>2. server_fd
            BY <1>4 DEF ReadServer
      <2>3. /\ received \in Seq(Bytes) /\ server_rxbuffer \in Seq(Bytes)
            /\ rxlines \in Seq(Seq(Bytes)) /\ Len(server_rxbuffer) < BufferLen
            BY DEF TypeOK
      <2>4. /\ chunk \in Seq(Bytes) /\ Len(chunk) = n
            /\ Len(server_rxbuffer) + Len(chunk) <= BufferLen
            BY <2>3, BufferAssumption
      <2>5. /\ CutOf(received) = [lines |-> rxlines, part |-> server_rxbuffer]
            /\ Ends(server_rxbuffer) = {}
            BY <2>2 DEF CutInv
      <2> HIDE DEF Read
      <2>6. /\ CutOf(received \o chunk)
                  = [lines |-> rxlines \o LinesIn(server_rxbuffer \o chunk),
                     part |-> Rest(server_rxbuffer \o chunk)]
            /\ Ends(Rest(server_rxbuffer \o chunk)) = {}
            BY <2>3, <2>4, <2>5, ChunkAsFed
      <2>7. /\ CutOf(received') = [lines |-> rxlines', part |-> server_rxbuffer']
            /\ Ends(server_rxbuffer') = {}
            BY <2>1, <2>6 DEF Read
      <2> QED BY <2>7 DEF CutInv
<1>5. CASE Connects
      <2>1. received' = server_rxbuffer /\ rxlines' = <<>> /\ server_rxbuffer' = server_rxbuffer
            BY <1>5 DEF Connects
      <2>2. CutOf(server_rxbuffer) = [lines |-> <<>>, part |-> server_rxbuffer]
            BY PartIsFed DEF TypeOK, CutInv
      <2>3. CutOf(received') = CutOf(server_rxbuffer)
            BY <2>1
      <2>4. Ends(server_rxbuffer') = {}
            BY <2>1 DEF CutInv
      <2> QED BY <2>1, <2>2, <2>3, <2>4 DEF CutInv
<1>6. CASE HandleFlags
      BY <1>2, <1>3, <1>6 DEF HandleFlags
<1> QED BY <1>2, <1>3, <1>4, <1>5, <1>6
    DEF Next, vars, Network, User, Merge, Flush, ResolverAnswers, ServerCloses, ConnectFails,
        Nothing, TypeLine, CommandDisconnect, CommandConnect, NothingToSend, Discard, StartFlush,
        Fill, FillEnds, Write, WriteFails

\* The lines of a connection, and what waits in the buffer, are those that one
\* would get byte by byte, and no byte comes before its own but what was left
\* of a connection that it took the place of while that was open, for every
\* length of the buffer and however the bytes are divided over reads
\* (handle_server_fd(), buffer_to_lines(), handle_connecting_fd()).
THEOREM ReadAsSent == Spec => []SameLinesHoweverRead
<1> DEFINE I == TypeOK /\ NothingLeft /\ LeftBeside /\ CutInv
<1>1. Init => I
      BY InitType, CutInit DEF Init, NothingLeft, LeftBeside
<1>2. I /\ [Next]_vars => I'
      BY TypeStep, NothingLeftStep, LeftBesideStep, CutStep
<1>3. I => SameLinesHoweverRead
      <2> SUFFICES ASSUME CutInv, LeftBeside, server_fd PROVE SameLinesHoweverRead
          BY DEF SameLinesHoweverRead
      <2>1. ByteByByte = CutOf(received)
            BY ByteByByteCuts
      <2>2. CutOf(received).part = server_rxbuffer /\ CutOf(received).lines = rxlines
            BY DEF CutInv
      <2>3. oldbytes > 0 => beside
            BY DEF LeftBeside
      <2> QED BY <2>1, <2>2, <2>3 DEF SameLinesHoweverRead
<1> QED BY <1>1, <1>2, <1>3, PTL DEF Spec
=============================================================================
